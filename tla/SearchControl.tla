---------------------------- MODULE SearchControl ----------------------------
(***************************************************************************)
(* The life cycle of a search in FrankyCPP: the UCI thread executing       *)
(* UciHandler's command handlers and Search's public operations, the       *)
(* search thread executing Search::run, and the timer thread created by    *)
(* Search::startTimer.  They share two counting semaphores, the atomic     *)
(* stop flag, the search limits and the two std::thread members.           *)
(*                                                                         *)
(* One action is one access to that shared state.  What the search         *)
(* computes, book moves, node counts and clock values are abstracted: a    *)
(* search may return on its own at any time, a node limit may be reached   *)
(* at any time and a time limit may elapse at any time.                    *)
(***************************************************************************)
EXTENDS Naturals

CONSTANTS
  Limits,          \* the SearchLimits that the GUI sends with "go"
  MaxGo,           \* bound: number of searches started
  PonderhitsPerGo, \* bound: "ponderhit" commands sent per search
  Options,         \* the check options that the GUI changes
  HashSizes,       \* the sizes in MByte that the GUI gives the option Hash
  QuitAnytime      \* TRUE: "quit" may arrive while a bestmove is owed

(***************************************************************************)
(* The fields of SearchLimits that steer the threads: bounded abbreviates  *)
(* a depth or a mate limit, timed is timeControl, nodes is nodes > 0.      *)
(***************************************************************************)
LimitsType == [ponder: BOOLEAN, infinite: BOOLEAN, timed: BOOLEAN,
               nodes: BOOLEAN, bounded: BOOLEAN]

ASSUME LimitsAssumption == Limits \subseteq LimitsType
ASSUME BoundsAssumption == MaxGo \in Nat /\ PonderhitsPerGo \in Nat
ASSUME OptionsAssumption == Options \subseteq {"Ponder", "Use Hash"}
ASSUME HashAssumption == HashSizes \subseteq Nat
ASSUME QuitAssumption == QuitAnytime \in BOOLEAN

VARIABLES
  uciPc,          \* label of the UCI thread; "read": blocked in getline
  cmd,            \* the command on whose behalf stopSearch runs
  newLimits,      \* the limits parsed by goCommand
  hits,           \* ponderhits sent since the last go (bounds the GUI)
  usePonder,      \* SearchConfig::USE_PONDER
  useTT,          \* SearchConfig::USE_TT
  hashSize,       \* SearchConfig::TT_SIZE_MB
  probing,        \* isSearching holds the running semaphore it just took
  isRunning,      \* count of isRunningSemaphore
  initSem,        \* count of initSemaphore
  stopSearchFlag, \* the atomic stop flag
  hasResultFlag,  \* the atomic result flag
  searchLimits,   \* Search::searchLimits
  searchThread,   \* searchThread.joinable()
  searchPc,       \* label of the thread behind searchThread
  timerThread,    \* timerThread.joinable()
  timerPc,        \* label of the thread behind timerThread
  ttSized,        \* the table has more than zero entries
  ttVersion,      \* flips whenever the table is replaced or cleared
  process,        \* "running", "exited" or "terminated" (std::terminate)
  accepted,       \* history: searches started
  answered,       \* history: bestmove lines sent
  told            \* history: stop or ponderhit reached the current search

cmdVars    == <<cmd, newLimits, hits, usePonder, useTT, hashSize>>
uciVars    == <<uciPc, cmdVars, probing>>
sems       == <<isRunning, initSem>>
flags      == <<stopSearchFlag, hasResultFlag>>
startVars  == <<searchLimits, searchThread, searchPc>>
timerVars  == <<timerThread, timerPc>>
tableVars  == <<ttSized, ttVersion>>
goVars     == <<accepted, told>>
engineVars == <<flags, startVars, timerVars, tableVars, process, goVars, answered>>
vars       == <<uciVars, sems, engineVars>>

(***************************************************************************)
(* Labels.  Each label in Probes is a call of isSearching().               *)
(***************************************************************************)
Probes == {"go", "stopSearch", "ponderhit", "newGame", "clearTT", "resizeTT"}

UciLabels == Probes \cup
  {"read", "setStop", "joinStopped", "waitRunning", "releaseRunning",
   "ponderTest", "clear", "resize", "ponderOption", "getInit", "setLimits",
   "joinPrevious", "spawn", "waitInit", "releaseInit", "dtorJoin",
   "dtorMembers"}

SearchLabels == {"none", "getRunning", "reset", "initialize", "startTimer",
                 "age", "releaseInit", "search", "waitTold", "setStop",
                 "result", "send", "checkTimer", "joinTimer",
                 "releaseRunning", "done"}

TimerLabels == {"none", "poll", "check", "store", "done"}

(* The search thread owns isRunningSemaphore at these labels. *)
Owning == SearchLabels \ {"none", "getRunning", "done"}

(* The search thread may be inside a member function of the table. *)
UsingTable == {"initialize", "age", "search"}

NoLimits == [ponder |-> FALSE, infinite |-> FALSE, timed |-> FALSE,
             nodes |-> FALSE, bounded |-> FALSE]

(* goCommand refuses limits under which nothing could end the search. *)
Effective(l) == l.infinite \/ l.ponder \/ l.bounded \/ l.nodes \/ l.timed

(* Only stop or ponderhit may end these searches. *)
UntilTold(l) == l.ponder \/ l.infinite

Init ==
  /\ uciPc = "read" /\ cmd = "none" /\ newLimits = NoLimits /\ hits = 0
  /\ usePonder = TRUE /\ useTT = TRUE /\ hashSize = 64 /\ probing = FALSE
  /\ isRunning = 1 /\ initSem = 1
  /\ stopSearchFlag = FALSE /\ hasResultFlag = FALSE
  /\ searchLimits = NoLimits
  /\ searchThread = FALSE /\ searchPc = "none"
  /\ timerThread = FALSE /\ timerPc = "none"
  /\ ttSized = FALSE /\ ttVersion = 0
  /\ process = "running"
  /\ accepted = 0 /\ answered = 0 /\ told = FALSE

-----------------------------------------------------------------------------
(***************************************************************************)
(* Building blocks shared by several operations.                           *)
(***************************************************************************)
Alive == process = "running"

UciGoto(label) ==
  /\ Alive
  /\ uciPc' = label
  /\ UNCHANGED <<cmdVars, probing, hasResultFlag, answered>>

SearchGoto(from, to) ==
  /\ Alive
  /\ searchPc = from
  /\ searchPc' = to
  /\ UNCHANGED <<uciVars, searchLimits, searchThread, goVars>>

(* Assigning to a joinable std::thread calls std::terminate. *)
StartTimer ==
  IF timerThread
  THEN /\ process' = "terminated"
       /\ UNCHANGED timerVars
  ELSE /\ timerThread' = TRUE
       /\ timerPc' = "poll"
       /\ UNCHANGED process

ReplaceTable(sized) ==
  /\ ttSized' = sized
  /\ ttVersion' = 1 - ttVersion

(* Whether a new table has entries: TT(TT_SIZE_MB) or, switched off, TT(0). *)
HasEntries == useTT /\ hashSize # 0

(* Search::initialize: a table in use is replaced when it has no entries, by *)
(* another one without entries if the option Hash is 0; a table that is not  *)
(* in use is replaced by an empty one at every call.                         *)
Initialize ==
  IF useTT /\ ttSized THEN UNCHANGED tableVars ELSE ReplaceTable(HasEntries)

-----------------------------------------------------------------------------
(***************************************************************************)
(* Commands read by UciHandler::loop.                                      *)
(***************************************************************************)
ReadCommand(command, label) ==
  /\ Alive /\ uciPc = "read"
  /\ uciPc' = label
  /\ cmd' = command
  /\ UNCHANGED <<usePonder, useTT, probing, sems, engineVars>>

ReadGo(l) ==
  /\ accepted < MaxGo
  /\ Effective(l)
  /\ ReadCommand("go", "go")
  /\ newLimits' = l
  /\ UNCHANGED <<hits, hashSize>>

ReadStop == ReadCommand("stop", "stopSearch") /\ UNCHANGED <<newLimits, hits, hashSize>>

ReadPonderhit ==
  /\ hits < PonderhitsPerGo
  /\ ReadCommand("ponderhit", "ponderhit")
  /\ hits' = hits + 1
  /\ UNCHANGED <<newLimits, hashSize>>

ReadNewGame == ReadCommand("ucinewgame", "newGame") /\ UNCHANGED <<newLimits, hits, hashSize>>

(* The GUI sends setoption only while no bestmove is owed. *)
ReadClearHash ==
  /\ answered = accepted
  /\ ReadCommand("setoption", "clearTT")
  /\ UNCHANGED <<newLimits, hits, hashSize>>

(* The size is stored even if resizeTT then refuses, as run() has not ended. *)
ReadSetHash(size) ==
  /\ answered = accepted
  /\ ReadCommand("setoption", "resizeTT")
  /\ hashSize' = size
  /\ UNCHANGED <<newLimits, hits>>

ReadSetOption(o) ==
  /\ Alive /\ uciPc = "read"
  /\ answered = accepted
  /\ usePonder' = (IF o = "Ponder" THEN ~usePonder ELSE usePonder)
  /\ useTT' = (IF o = "Use Hash" THEN ~useTT ELSE useTT)
  /\ UNCHANGED <<uciPc, cmd, newLimits, hits, hashSize, probing, sems, engineVars>>

(* isready may arrive at any time; Search::isReady runs initialize(). *)
ReadIsReady ==
  /\ Alive /\ uciPc = "read"
  /\ Initialize
  /\ UNCHANGED <<uciVars, sems, flags, startVars, timerVars, process, goVars, answered>>

ReadQuit ==
  /\ QuitAnytime \/ answered = accepted
  /\ ReadCommand("quit", "dtorJoin")
  /\ UNCHANGED <<newLimits, hits, hashSize>>

-----------------------------------------------------------------------------
(* Seeded fault: ucinewgame goes on without stopping the search. *)
OnBusyNewGameWithoutStop ==
  [go |-> "stopSearch", stopSearch |-> "setStop", ponderhit |-> "ponderTest",
   newGame |-> "clear", clearTT |-> "read", resizeTT |-> "read"]

(***************************************************************************)
(* Search::isSearching: try to take the running semaphore and, when that   *)
(* succeeds, give it back and report "not searching".  OnBusy and OnIdle   *)
(* are where the calling operation goes with the two answers.              *)
(***************************************************************************)
OnBusy == [go |-> "stopSearch", stopSearch |-> "setStop",
           ponderhit |-> "ponderTest", newGame |-> "stopSearch",
           clearTT |-> "read", resizeTT |-> "read"]

(* Where stopSearch returns to. *)
AfterStop ==
  CASE cmd = "go" -> "ponderOption"
    [] cmd = "ucinewgame" -> "clearTT"
    [] OTHER -> "read"

OnIdle == [go |-> "ponderOption", stopSearch |-> AfterStop,
           ponderhit |-> "read", newGame |-> "clearTT",
           clearTT |-> "clear", resizeTT |-> "resize"]

IsSearchingTake ==
  /\ Alive /\ uciPc \in Probes /\ ~probing
  /\ isRunning > 0
  /\ isRunning' = isRunning - 1
  /\ probing' = TRUE
  /\ UNCHANGED <<uciPc, cmdVars, initSem, engineVars>>

IsSearchingFalse ==
  /\ Alive /\ uciPc \in Probes /\ probing
  /\ isRunning' = isRunning + 1
  /\ probing' = FALSE
  /\ uciPc' = OnIdle[uciPc]
  /\ UNCHANGED <<cmdVars, initSem, engineVars>>

IsSearchingTrue ==
  /\ uciPc \in Probes /\ ~probing
  /\ isRunning = 0
  /\ UciGoto(OnBusy[uciPc])
  /\ UNCHANGED <<sems, stopSearchFlag, startVars, timerVars, tableVars, process, goVars>>

(* Seeded fault: stopSearch only raises the flag. *)
StopSetFlagNoWait ==
  /\ uciPc = "setStop"
  /\ stopSearchFlag' = TRUE
  /\ told' = TRUE
  /\ UciGoto(AfterStop)
  /\ UNCHANGED <<sems, startVars, timerVars, tableVars, process, accepted>>

(***************************************************************************)
(* Search::stopSearch after isSearching() returned true.                   *)
(***************************************************************************)
StopSetFlag ==
  /\ uciPc = "setStop"
  /\ stopSearchFlag' = TRUE
  /\ told' = TRUE
  /\ UciGoto("joinStopped")
  /\ UNCHANGED <<sems, startVars, timerVars, tableVars, process, accepted>>

(* searchThread.join(), when joinable: wait for the end of run(). *)
JoinSearch ==
  /\ searchThread => searchPc = "done"
  /\ searchThread' = FALSE
  /\ searchPc' = (IF searchThread THEN "none" ELSE searchPc)
  /\ UNCHANGED <<hasResultFlag, searchLimits>>

StopJoin ==
  /\ uciPc = "joinStopped"
  /\ JoinSearch
  /\ UciGoto("waitRunning")
  /\ UNCHANGED <<sems, stopSearchFlag, timerVars, tableVars, process, goVars>>

(* waitWhileSearching: getOrWait() then release(). *)
WaitRunningGet ==
  /\ uciPc = "waitRunning"
  /\ isRunning > 0
  /\ isRunning' = isRunning - 1
  /\ UciGoto("releaseRunning")
  /\ UNCHANGED <<initSem, stopSearchFlag, startVars, timerVars, tableVars, process, goVars>>

(* Seeded fault: waitWhileSearching keeps the permit. *)
WaitRunningReleaseLeak ==
  /\ uciPc = "releaseRunning"
  /\ UciGoto(AfterStop)
  /\ UNCHANGED <<sems, stopSearchFlag, startVars, timerVars, tableVars, process, goVars>>

WaitRunningRelease ==
  /\ uciPc = "releaseRunning"
  /\ isRunning' = isRunning + 1
  /\ UciGoto(AfterStop)
  /\ UNCHANGED <<initSem, stopSearchFlag, startVars, timerVars, tableVars, process, goVars>>

(* Seeded faults: ponderhit does not look at the limits, or starts no timer. *)
PonderTestAnySearch ==
  /\ uciPc = "ponderTest"
  /\ StartTimer
  /\ told' = TRUE
  /\ UciGoto("read")
  /\ UNCHANGED <<sems, stopSearchFlag, startVars, tableVars, accepted>>
PonderTestNoTimer ==
  /\ uciPc = "ponderTest"
  /\ told' = (told \/ searchLimits.ponder)
  /\ UciGoto("read")
  /\ UNCHANGED <<sems, stopSearchFlag, startVars, timerVars, tableVars, process, accepted>>

(***************************************************************************)
(* Search::ponderhit, clearTT and resizeTT after isSearching().            *)
(***************************************************************************)
PonderTest ==
  /\ uciPc = "ponderTest"
  /\ IF searchLimits.ponder
     THEN /\ StartTimer
          /\ told' = TRUE
     ELSE UNCHANGED <<timerVars, process, told>>
  /\ UciGoto("read")
  /\ UNCHANGED <<sems, stopSearchFlag, startVars, tableVars, accepted>>

ClearTable ==
  /\ uciPc = "clear"
  /\ ReplaceTable(ttSized)
  /\ UciGoto("read")
  /\ UNCHANGED <<sems, stopSearchFlag, startVars, timerVars, process, goVars>>

(* resizeTT installs an empty table and calls initialize(). *)
ResizeTable ==
  /\ uciPc = "resize"
  /\ ReplaceTable(HasEntries)
  /\ UciGoto("read")
  /\ UNCHANGED <<sems, stopSearchFlag, startVars, timerVars, process, goVars>>

-----------------------------------------------------------------------------
(***************************************************************************)
(* The end of goCommand and Search::startSearch.                           *)
(***************************************************************************)
PonderOption ==
  /\ uciPc = "ponderOption"
  /\ UciGoto(IF newLimits.ponder /\ ~usePonder THEN "read" ELSE "getInit")
  /\ UNCHANGED <<sems, stopSearchFlag, startVars, timerVars, tableVars, process, goVars>>

(* A failed get() is only logged. *)
GetInit ==
  /\ uciPc = "getInit"
  /\ initSem' = (IF initSem > 0 THEN initSem - 1 ELSE initSem)
  /\ UciGoto("setLimits")
  /\ UNCHANGED <<isRunning, stopSearchFlag, startVars, timerVars, tableVars, process, goVars>>

(* The limits are stored before the previous thread is joined. *)
SetLimits ==
  /\ Alive /\ uciPc = "setLimits"
  /\ searchLimits' = newLimits
  /\ uciPc' = "joinPrevious"
  /\ hits' = 0
  /\ accepted' = accepted + 1
  /\ told' = FALSE
  /\ UNCHANGED <<cmd, newLimits, usePonder, useTT, hashSize, probing, sems, flags,
                 searchThread, searchPc, timerVars, tableVars, process, answered>>

JoinPrevious ==
  /\ uciPc = "joinPrevious"
  /\ JoinSearch
  /\ UciGoto("spawn")
  /\ UNCHANGED <<sems, stopSearchFlag, timerVars, tableVars, process, goVars>>

(* Seeded fault: startSearch does not wait for the setup of run(). *)
SpawnNoWait ==
  /\ uciPc = "spawn"
  /\ searchThread' = TRUE
  /\ searchPc' = "getRunning"
  /\ UciGoto("read")
  /\ UNCHANGED <<sems, stopSearchFlag, searchLimits, timerVars, tableVars, process, goVars>>

Spawn ==
  /\ uciPc = "spawn"
  /\ searchThread' = TRUE
  /\ searchPc' = "getRunning"
  /\ UciGoto("waitInit")
  /\ UNCHANGED <<sems, stopSearchFlag, searchLimits, timerVars, tableVars, process, goVars>>

WaitInit ==
  /\ uciPc = "waitInit"
  /\ initSem > 0
  /\ initSem' = initSem - 1
  /\ UciGoto("releaseInit")
  /\ UNCHANGED <<isRunning, stopSearchFlag, startVars, timerVars, tableVars, process, goVars>>

ReleaseInit ==
  /\ uciPc = "releaseInit"
  /\ initSem' = initSem + 1
  /\ UciGoto("read")
  /\ UNCHANGED <<isRunning, stopSearchFlag, startVars, timerVars, tableVars, process, goVars>>

(***************************************************************************)
(* After quit: Search::~Search joins the search thread, then the member    *)
(* timerThread is destroyed; destroying a joinable thread terminates.      *)
(***************************************************************************)
DtorJoin ==
  /\ uciPc = "dtorJoin"
  /\ JoinSearch
  /\ UciGoto("dtorMembers")
  /\ UNCHANGED <<sems, stopSearchFlag, timerVars, tableVars, process, goVars>>

DtorMembers ==
  /\ Alive /\ uciPc = "dtorMembers"
  /\ process' = (IF timerThread THEN "terminated" ELSE "exited")
  /\ UNCHANGED <<uciVars, sems, flags, startVars, timerVars, tableVars, goVars, answered>>

UciStep ==
  \/ IsSearchingTake \/ IsSearchingFalse \/ IsSearchingTrue
  \/ StopSetFlag \/ StopJoin \/ WaitRunningGet \/ WaitRunningRelease
  \/ PonderTest \/ ClearTable \/ ResizeTable
  \/ PonderOption \/ GetInit \/ SetLimits \/ JoinPrevious \/ Spawn
  \/ WaitInit \/ ReleaseInit
  \/ DtorJoin \/ DtorMembers

ReadStep ==
  \/ \E l \in Limits : ReadGo(l)
  \/ ReadStop \/ ReadPonderhit \/ ReadNewGame
  \/ ReadClearHash \/ ReadIsReady \/ ReadQuit
  \/ \E size \in HashSizes : ReadSetHash(size)
  \/ \E o \in Options : ReadSetOption(o)

-----------------------------------------------------------------------------
(***************************************************************************)
(* Search::run.                                                            *)
(***************************************************************************)
RunGetRunning ==
  /\ IF isRunning > 0
     THEN SearchGoto("getRunning", "reset") /\ isRunning' = isRunning - 1
     ELSE SearchGoto("getRunning", "done") /\ UNCHANGED isRunning
  /\ UNCHANGED <<initSem, flags, timerVars, tableVars, process, answered>>

(* Seeded fault: the result flag of the previous search survives. *)
RunResetKeepsResult ==
  /\ SearchGoto("reset", "initialize")
  /\ stopSearchFlag' = FALSE
  /\ UNCHANGED <<sems, hasResultFlag, timerVars, tableVars, process, answered>>

RunReset ==
  /\ SearchGoto("reset", "initialize")
  /\ stopSearchFlag' = FALSE
  /\ hasResultFlag' = FALSE
  /\ UNCHANGED <<sems, timerVars, tableVars, process, answered>>

(* Seeded fault: initialize() runs only before the first search. *)
RunInitializeOnce ==
  /\ SearchGoto("initialize", "startTimer")
  /\ IF accepted = 1 THEN Initialize ELSE UNCHANGED tableVars
  /\ UNCHANGED <<sems, flags, timerVars, process, answered>>

RunInitialize ==
  /\ SearchGoto("initialize", "startTimer")
  /\ Initialize
  /\ UNCHANGED <<sems, flags, timerVars, process, answered>>

(* Seeded fault: no timer for a search under time control. *)
RunStartTimerNever ==
  /\ SearchGoto("startTimer", "age")
  /\ UNCHANGED <<sems, flags, timerVars, tableVars, process, answered>>

RunStartTimer ==
  /\ SearchGoto("startTimer", "age")
  /\ IF searchLimits.timed /\ ~searchLimits.ponder
     THEN StartTimer
     ELSE UNCHANGED <<timerVars, process>>
  /\ UNCHANGED <<sems, flags, tableVars, answered>>

(* Ageing the table and resetting the ply data; see TranspositionTable. *)
RunAge ==
  /\ SearchGoto("age", "releaseInit")
  /\ UNCHANGED <<sems, flags, timerVars, tableVars, process, answered>>

RunReleaseInit ==
  /\ SearchGoto("releaseInit", "search")
  /\ initSem' = initSem + 1
  /\ UNCHANGED <<isRunning, flags, timerVars, tableVars, process, answered>>

(* Search::stopConditions once the node limit has been reached. *)
NodesReached ==
  /\ SearchGoto("search", "search")
  /\ searchLimits.nodes /\ ~stopSearchFlag
  /\ stopSearchFlag' = TRUE
  /\ UNCHANGED <<sems, hasResultFlag, timerVars, tableVars, process, answered>>

(* iterativeDeepening returns, or a book move was found. *)
SearchReturns ==
  /\ SearchGoto("search", "waitTold")
  /\ UNCHANGED <<sems, flags, timerVars, tableVars, process, answered>>

(* The busy wait that holds back the result of a ponder or infinite search. *)
RunWaitTold ==
  /\ SearchGoto("waitTold", "setStop")
  /\ UntilTold(searchLimits) => stopSearchFlag
  /\ UNCHANGED <<sems, flags, timerVars, tableVars, process, answered>>

RunSetStop ==
  /\ SearchGoto("setStop", "result")
  /\ stopSearchFlag' = TRUE
  /\ UNCHANGED <<sems, hasResultFlag, timerVars, tableVars, process, answered>>

RunResult ==
  /\ SearchGoto("result", "send")
  /\ hasResultFlag' = TRUE
  /\ UNCHANGED <<sems, stopSearchFlag, timerVars, tableVars, process, answered>>

(* sendResult: the bestmove line leaves before the thread has ended. *)
RunSend ==
  /\ SearchGoto("send", "checkTimer")
  /\ answered' = answered + 1
  /\ UNCHANGED <<sems, flags, timerVars, tableVars, process>>

(* Seeded fault: the timer thread is not joined. *)
RunCheckTimerSkip ==
  /\ SearchGoto("checkTimer", "releaseRunning")
  /\ UNCHANGED <<sems, flags, timerVars, tableVars, process, answered>>

RunCheckTimer ==
  /\ \/ timerThread /\ SearchGoto("checkTimer", "joinTimer")
     \/ ~timerThread /\ SearchGoto("checkTimer", "releaseRunning")
  /\ UNCHANGED <<sems, flags, timerVars, tableVars, process, answered>>

RunJoinTimer ==
  /\ SearchGoto("joinTimer", "releaseRunning")
  /\ timerPc = "done"
  /\ timerPc' = "none"
  /\ timerThread' = FALSE
  /\ UNCHANGED <<sems, flags, tableVars, process, answered>>

RunReleaseRunning ==
  /\ SearchGoto("releaseRunning", "done")
  /\ isRunning' = isRunning + 1
  /\ UNCHANGED <<initSem, flags, timerVars, tableVars, process, answered>>

SearchStep ==
  \/ RunGetRunning \/ RunReset \/ RunInitialize \/ RunStartTimer \/ RunAge
  \/ RunReleaseInit \/ NodesReached \/ SearchReturns \/ RunWaitTold
  \/ RunSetStop \/ RunResult \/ RunSend \/ RunCheckTimer \/ RunJoinTimer
  \/ RunReleaseRunning

-----------------------------------------------------------------------------
(***************************************************************************)
(* The thread created by Search::startTimer.                               *)
(***************************************************************************)
TimerGoto(from, to) ==
  /\ Alive
  /\ timerPc = from
  /\ timerPc' = to
  /\ UNCHANGED <<uciVars, sems, hasResultFlag, startVars, timerThread, tableVars,
                 process, goVars, answered>>

(* The polling loop ends: the time is over or the stop flag was seen. *)
TimerLeavesLoop == TimerGoto("poll", "check") /\ UNCHANGED stopSearchFlag

(* Seeded fault: the timer goes on polling after it saw the stop flag. *)
TimerCheckIgnoresStop ==
  /\ TimerGoto("check", IF stopSearchFlag THEN "poll" ELSE "store")
  /\ UNCHANGED stopSearchFlag

TimerCheck ==
  /\ TimerGoto("check", IF stopSearchFlag THEN "done" ELSE "store")
  /\ UNCHANGED stopSearchFlag

TimerStore == TimerGoto("store", "done") /\ stopSearchFlag' = TRUE

TimerStep == TimerLeavesLoop \/ TimerCheck \/ TimerStore

-----------------------------------------------------------------------------
(* The process is over: nothing moves any more. *)
Gone == ~Alive /\ UNCHANGED vars

Next == ReadStep \/ UciStep \/ SearchStep \/ TimerStep \/ Gone

Spec == Init /\ [][Next]_vars

(***************************************************************************)
(* Every thread that can move does, except that the GUI need not send      *)
(* anything and an unbounded search need not end before it is stopped.     *)
(* SearchReturns is fair once the stop flag is set (every node tests it)   *)
(* or when a depth or mate limit makes the search finite.                  *)
(***************************************************************************)
Fairness ==
  /\ WF_vars(UciStep)
  /\ WF_vars(TimerStep)
  /\ WF_vars(SearchStep /\ searchPc # "search")
  /\ WF_vars(NodesReached)
  /\ WF_vars(SearchReturns /\ (stopSearchFlag \/ searchLimits.bounded))

FairSpec == Spec /\ Fairness
-----------------------------------------------------------------------------
(***************************************************************************)
(* Properties.                                                             *)
(***************************************************************************)
UciTypeOK ==
  /\ uciPc \in UciLabels
  /\ cmd \in {"none", "go", "stop", "ponderhit", "ucinewgame", "setoption", "quit"}
  /\ newLimits \in LimitsType
  /\ usePonder \in BOOLEAN /\ useTT \in BOOLEAN /\ probing \in BOOLEAN
  /\ hashSize \in Nat

CountersTypeOK ==
  /\ isRunning \in {0, 1} /\ initSem \in {0, 1}
  /\ hits \in Nat /\ accepted \in Nat /\ answered \in Nat

ThreadsTypeOK ==
  /\ searchPc \in SearchLabels /\ timerPc \in TimerLabels
  /\ searchThread \in BOOLEAN /\ timerThread \in BOOLEAN
  /\ searchLimits \in LimitsType
  /\ process \in {"running", "exited", "terminated"}

FlagsTypeOK ==
  /\ stopSearchFlag \in BOOLEAN /\ hasResultFlag \in BOOLEAN
  /\ ttSized \in BOOLEAN /\ ttVersion \in {0, 1} /\ told \in BOOLEAN

TypeOK == UciTypeOK /\ CountersTypeOK /\ ThreadsTypeOK /\ FlagsTypeOK

AtRest == searchPc \in {"none", "done"}
Startup == {"getRunning", "reset", "initialize", "startTimer", "age", "releaseInit"}
Count(b) == IF b THEN 1 ELSE 0

(* The running semaphore is conserved: its one permit is free, or held by  *)
(* the search thread inside run(), by the probe of isSearching(), or by    *)
(* waitWhileSearching(), and never by two of them.                         *)
RunningSemaphore ==
  isRunning + Count(searchPc \in Owning) + Count(probing)
            + Count(uciPc = "releaseRunning") = 1

(* The startup handshake: the permit of initSemaphore is away exactly while *)
(* startSearch hands a search over to its thread, so that startSearch never *)
(* finds it taken and never returns before run() finished its setup.        *)
InitHandshake ==
  initSem = Count(~ \/ uciPc \in {"setLimits", "joinPrevious", "spawn", "releaseInit"}
                    \/ uciPc = "waitInit" /\ searchPc \in Startup)

(* run() never takes its early return "Search already running": there       *)
(* initSemaphore would not be released and startSearch would wait forever.  *)
RunAdmitted == searchPc = "getRunning" => isRunning = 1

(* When goCommand goes on to start a search, the previous one is over: its  *)
(* thread has left run() and its bestmove was sent, although the limits are *)
(* stored before that thread is joined.                                     *)
StartsFromRest ==
  uciPc \in {"ponderOption", "getInit", "setLimits", "joinPrevious", "spawn"} =>
    /\ AtRest
    /\ accepted = answered + Count(uciPc \in {"joinPrevious", "spawn"})

(* A timer thread exists only inside the search it was started for: run()   *)
(* joins it before it gives the running semaphore back, so no timer of an   *)
(* old search can stop a new one.                                           *)
TimerScoped == timerThread => searchPc \in Owning

(* No std::thread is overwritten or destroyed while it is joinable.         *)
NeverTerminated == process # "terminated"

(* A caller that polls hasResult() after startSearch sees the result of     *)
(* that search and never the one that the previous search has left.         *)
FreshResult ==
  uciPc = "read" =>
    (hasResultFlag <=> accepted > 0 /\ searchPc \in
       {"none", "send", "checkTimer", "joinTimer", "releaseRunning", "done"})

(* Unless the option Hash is 0, the search probes a table that has entries: *)
(* probe() and prefetch() do not look at the capacity, and what setoption,  *)
(* isready and the searches before have left (with other sizes, with the    *)
(* table switched off) is not always what the options now ask for.  With    *)
(* Hash 0 the search does probe a table without entries: run() reports "Not *)
(* using TT", but search() looks at USE_TT only.                            *)
ProbedTableSized == searchPc = "search" /\ useTT => ttSized \/ hashSize = 0

(* No stop request is lost: run() clears the stop flag only while the UCI   *)
(* thread is blocked in startSearch, so the stop that a command has set is  *)
(* never wiped out by the start of the search it was meant for.             *)
StopNotLost ==
  [][stopSearchFlag /\ ~stopSearchFlag' => uciPc = "waitInit"]_vars

(* The limits of a search do not change under the running search.           *)
LimitsStable == [][searchLimits' # searchLimits => AtRest]_vars

(* The UCI thread never replaces or clears a transposition table while the  *)
(* search thread may be probing or filling it, whatever the options were    *)
(* before; with the table switched off the search does neither.  A table    *)
(* without entries is left alone only if Hash is not 0: with Hash 0 isready *)
(* does replace it under a search that probes it.                           *)
TableSafe ==
  [][ttVersion' # ttVersion /\ useTT /\ UNCHANGED searchPc =>
       searchPc \notin UsingTable \/ (~ttSized /\ hashSize = 0)]_vars

(* The engine implements the session that the GUI relies on.                *)
Session == INSTANCE UciSession WITH
  phase <- (IF answered = accepted THEN "idle"
            ELSE IF told THEN "told" ELSE "thinking"),
  free <- ~UntilTold(searchLimits)

SessionFair == Session!FairSpec

(* Every command handler returns to reading commands: stop, go on top of a  *)
(* running search, ucinewgame and startSearch never block for good.         *)
HandlersReturn ==
  (uciPc # "read") ~> (uciPc = "read" \/ process # "running")

(* A search with a clock, a node limit or a depth limit is answered without *)
(* any further command, unless it ponders or is infinite.                   *)
LimitedIsAnswered ==
  (searchPc = "getRunning" /\ ~UntilTold(searchLimits)) ~> (searchPc = "done")

(* The quit command ends the process.                                       *)
QuitEnds == (uciPc = "dtorJoin") ~> (process # "running")
-----------------------------------------------------------------------------
(***************************************************************************)
(* The inductive invariant behind the theorems of SearchControlProofs.     *)
(***************************************************************************)
ProbeInv == probing => uciPc \in Probes

ThreadInv == searchThread <=> searchPc # "none"

(* While the thread is in its startup the UCI thread is in startSearch. *)
StartupInv == searchPc \in Startup => uciPc = "waitInit"

(* Where the UCI thread relies on there being no search. *)
RestInv ==
  /\ uciPc \in {"waitRunning", "releaseRunning", "clear", "resize",
                "ponderOption", "getInit", "setLimits", "joinPrevious"} => AtRest
  /\ uciPc = "spawn" => searchPc = "none"

(* A bestmove is owed from storing the limits until run() has sent it. *)
Owed == \/ uciPc \in {"joinPrevious", "spawn"}
        \/ searchPc \in Startup \cup {"search", "waitTold", "setStop", "result", "send"}

OwedInv == accepted = answered + Count(Owed)

(* From initialize() on, the table has entries if the options ask for some. *)
TableInv ==
  searchPc \in {"startTimer", "age", "releaseInit", "search"} /\ useTT =>
    ttSized \/ hashSize = 0

IInv ==
  /\ TypeOK
  /\ RunningSemaphore
  /\ InitHandshake
  /\ ProbeInv /\ ThreadInv /\ StartupInv /\ RestInv /\ OwedInv

(* The result flag is down from the setup of run() until the result of the  *)
(* search is stored, and up from there to the next setup.                   *)
ResultInv ==
  /\ searchPc \in (Startup \ {"getRunning", "reset"}) \cup {"search", "waitTold", "setStop", "result"} =>
       ~hasResultFlag
  /\ searchPc \in {"send", "checkTimer", "joinTimer", "releaseRunning", "done"} => hasResultFlag
  /\ searchPc \in {"checkTimer", "joinTimer", "releaseRunning", "done"} => answered > 0
  /\ searchPc = "none" => (hasResultFlag <=> answered > 0)

(***************************************************************************)
(* What the timer and the answers held back need of the GUI: at most one   *)
(* ponderhit for a search, and no limit of its own (nodes, or a clock that *)
(* runs from the start) for a search that waits for the GUI.               *)
(***************************************************************************)
Held(l) == UntilTold(l) /\ ~l.nodes /\ (l.timed => l.ponder)
PoliteGui == PonderhitsPerGo <= 1 /\ \A l \in Limits : l.ponder => Held(l)
WaitsAreHeld == \A l \in Limits : UntilTold(l) => Held(l)

LimitsInv == newLimits \in Limits \cup {NoLimits} /\ searchLimits \in Limits \cup {NoLimits}

(* A timer exists only between its start and its join in run(). *)
TimerInv ==
  /\ timerThread <=> timerPc # "none"
  /\ timerThread => searchPc \in Owning \ {"reset", "initialize", "startTimer", "releaseRunning"}
  /\ uciPc = "dtorMembers" => searchPc = "none"
  /\ process # "terminated"

(* How a pondering search came to be told: by a stop that waits for its end, *)
(* or by the ponderhit of this search, after which there is no other one.    *)
HitsInv ==
  /\ hits <= 1
  /\ uciPc \in {"ponderhit", "ponderTest"} => hits = 1
  /\ uciPc \in {"joinPrevious", "spawn"} \/ searchPc = "getRunning" => ~told
  /\ searchLimits.ponder /\ told /\ searchPc \in Owning =>
       uciPc = "joinStopped" \/ (hits = 1 /\ uciPc \notin {"ponderhit", "ponderTest"})
  /\ uciPc = "ponderTest" /\ searchLimits.ponder => ~told /\ searchPc \in {"search", "waitTold"}

(* Until it is told, nothing stops a search that waits for the GUI. *)
ToldInv ==
  Held(searchLimits) /\ ~told /\ searchPc \in Owning =>
    /\ searchPc \in Startup \cup {"search", "waitTold"}
    /\ searchPc # "reset" => ~stopSearchFlag
    /\ ~timerThread

PoliteInv == LimitsInv /\ TimerInv /\ HitsInv /\ ToldInv
=============================================================================
