# A TLA+ model of FrankyCPP

FrankyCPP is a UCI chess engine in C++. This directory holds TLA+ models of
its components, TLC configurations that check them on small instances, and
proofs that TLAPS checks for every value of the constants. `PROJECT.json` maps
every definition to the source lines it models and lists the components, the
runs, the seeded faults, the hazards, the findings and the theorems.

## 1. The system

| Part | State | Operations | What makes it correct |
|---|---|---|---|
| UCI handler (`engine/UciHandler`, `UciOptions`) | none of its own; runs on the main thread | `loop`, one handler per command | every command returns; commands at odd moments do no harm |
| Search control (`engine/Search`: public part, `run`, `startTimer`) | `isRunningSemaphore`, `initSemaphore`, `stopSearchFlag`, `hasResultFlag`, `searchLimits`, the threads `searchThread` and `timerThread` | `startSearch`, `stopSearch`, `isSearching`, `waitWhileSearching`, `ponderhit`, `isReady`, `clearTT`, `resizeTT` | one bestmove per go; searches do not overlap; no stop is lost; threads are joined exactly once |
| Iterations (`engine/Search`: `iterativeDeepening`, `aspirationSearch`, `rootSearch`) | root moves, `pv[0]`, `pv[1]`, windows | one search of the root per window and depth | the best move is in front; a stop keeps the last good answer |
| Alpha-beta search (`engine/Search`: `search`, `qsearch`) | arrays per ply | one node | the value of a node is the minimax value, or a bound of it; an interrupted search leaves no trace |
| Time control (`engine/Search`) | `timeLimit`, `extraTime` | `setupTimeControl`, `addExtraTime` | never more time than the clock has |
| Transposition table (`engine/TT`) | array of entries, statistics | `put`, `probe`, `ageEntries`, `clear`, `resize` | what is found is what was stored last for that position |
| Pawn cache and evaluator (`engine/PawnTT`, `Evaluator`) | cached pawn scores | `put`, `getEntryPtr`, `evaluate` | a cached score equals the computed one |
| Position (`chesscore/Position`) | board, bitboards, keys, material, history | `doMove`, `undoMove`, null moves, checks, repetitions | undo restores everything; all redundant state matches the board |
| Move generator (`chesscore/MoveGenerator`) | stage, lists, PV move | `generateLegalMoves`, `getNextPseudoLegalMove`, `hasLegalMove` | the legal moves are those of the rules, each exactly once, whatever the stage |
| Static exchange evaluation (`engine/See`) | none | `see` | a capture counts as good exactly if the exchange wins something |
| Opening book (`openingbook/`) | map of positions, cache file | `initialize`, `getRandomMove`, `reset` | the book is the one of the file whatever the threads do; every edge leads to a position of the book |
| Semaphore, thread pool, Fifo (`common/`) | counter or queue, mutex, condition variable | `get`, `getOrWait...`, `release`; `enqueue`, `stop`; `push`, `pop_wait`, `close` | no lost wakeup, nothing lost or doubled |
| Types and bitboards (`types/`) | precomputed tables | | each table is what its name says |
| Perft (`chesscore/Perft`) | counters, stop flag | `perft`, `stop`, on a detached thread | stops when told |
| Test tools, logging | reports | | sequential users and output |

How they interact. The main thread reads a command and calls `Search`. A `go`
ends in `startSearch`, which creates the search thread and blocks on
`initSemaphore` until `run` has finished its setup. `run` holds
`isRunningSemaphore` from its first to its last line; `isSearching()` finds out
by taking that semaphore and giving it back. The search polls
`stopSearchFlag`, which the main thread (`stop`), the timer thread (time over),
the search itself (node limit) and the end of `run` raise. The timer thread is
started by `run`, or by the main thread on `ponderhit`. All of them may touch
the transposition table: the search thread reads and writes it without locks,
the main thread clears, resizes and replaces it. Inside the search thread
`run` asks the book for a move, or lets `iterativeDeepening` search the root
at one depth after the other; `rootSearch` and `search` make and take back
moves on one `Position`, take them from a `MoveGenerator` per ply, evaluate
leaves through the pawn cache and share results through the table. The book is
built at startup by threads of its own, or by the workers of a `ThreadPool`.

What is hard here is, first, the order of these steps: a stop that meets the
start of the search or an iteration at any moment, a command between the
bestmove line and the end of the thread, a timer that outlives its search, a
table replaced under a search, threads that add the same position to the book.
Second, state kept twice: keys, bitboards, material and flags of a position
that every `doMove` and `undoMove` must keep in step; caches that must not
tell more than they were told. Third, results of half-finished work: bounds that pass
for values, a line appended to the wrong move, a cache file not written to its
end. `PROJECT.json` lists the hazards, each at its line.

## 2. The modules

| Modules | Models |
|---|---|
| `SearchControl`, `UciSession`, `MCSearchControl`, `SearchControlProofs` | UCI thread, search thread, timer thread |
| `IterativeDeepening`, `TimeControl`, `MCIterativeDeepening`, `IterativeDeepeningProofs` | the iterations and the time they earn |
| `SearchNode`, `SearchValues`, `MCSearchNode`, `SearchNodeProofs` | `search`, `qsearch` |
| `TranspositionTable`, `MCTranspositionTable`, `TranspositionTableProofs` | `TT` |
| `Chessboard`, `Position`, `MoveGenerator`, `Evaluator`, `See`, `Rules`, `Game`, `MCGame`, `GameProofs`, `RulesProofs` | the chess core |
| `ThreadPool`, `OpeningBook`, `MCOpeningBook`, `OpeningBookProofs` | the pool, the book on top of it |
| `Semaphore`, `CountingSemaphore`, `SemaphoreProofs` | `basic_semaphore` |

Abstract specifications and what implements them: `SearchControl` implements
`UciSession`, `Semaphore` implements `CountingSemaphore`, `OpeningBook`
implements `ThreadPool` (on the variables of the pool). `Rules` is the
reference for `Position` and `MoveGenerator`.

### SearchControl

The main thread, the search thread and the timer thread as three program
counters (`uciPc`, `searchPc`, `timerPc`). One action is one access to the
shared state: each call of a semaphore, each access to a flag, each
creation, join or test of a thread. A label is named after the statement the
thread is about to execute; `done` is a thread that has returned and is not
joined yet. Straight-line code that touches nothing shared is part of the
neighbouring action.

- `ReadGo`, `ReadStop`, ... are the commands; `OnBusy` and `OnIdle` say where a
  caller of `isSearching()` continues with either answer, so the eight callers
  share the three steps of that function.
- `IsSearchingTake` and `IsSearchingFalse` are the two halves of
  `isSearching()`: in between it holds the permit that `run` needs.
- `RunGetRunning` ... `RunReleaseRunning` are the statements of `run` in their
  order, the early return included.
- `StartTimer` is the assignment to `timerThread`: on a joinable thread it
  calls `std::terminate`, modelled by `process = "terminated"`.
- The table is a capacity bit (`ttSized`) and a version that flips whenever the
  main thread or `initialize` replaces or clears it. `hashSize` is the option
  `Hash`, whose minimum is 0 (UciOptions.cpp:47): a new table has entries if
  that is not 0 and `Use Hash` is on (`HasEntries`). The option is stored even
  when `resizeTT` refuses because `run` has not ended yet, so the table may have
  another size than the option says until `initialize` or the next `Hash`.
- What the search computes is abstracted: it may return at any time, a node
  limit may be reached and a time limit may pass at any time. A depth or mate
  limit is the field `bounded`.

The environment is a GUI that sends `stop`, `ponderhit`, `isready`,
`ucinewgame` and `go` whenever it likes, `setoption` only while no bestmove is
owed (as the protocol demands), and `quit` either likewise or at any time
(`QuitAnytime`). It switches `Use Hash` and gives `Hash` any of `HashSizes`.

`UciSession` is what the GUI relies on: each go gets one bestmove, a new search
starts after the previous answer, ponder and infinite searches answer only when
told, and once told the answer comes. `SearchControl` implements it under
`phase` := idle, thinking or told, computed from the history variables
`accepted`, `answered` and `told`.

### IterativeDeepening and TimeControl

The search thread between the setup of a search and its result. The state is
what the three functions share: the root moves with their values, the first
entry of `pv[0]` with the move whose line follows it, `pv[1]` by the root move
it belongs to, and the locals that live across a search of a child. A step is
the code between two children or two tests of the stop flag. `search()` below
the root is external here: `search` answers for a child any value on the right
side of the window (fail-soft), on the side where the worth of the move lies,
and -VALUE_NONE = 15001 once the search is stopped. `RaiseStop` may come
between any two steps. Searches of a move at the same depth are assumed to be
consistent with one worth; `SearchNode` checks this of a single node.

`TimeControl` has the integer arithmetic of `setupTimeControl` and
`addExtraTime`, whose floating-point factors cut off as divisions do.
`timeLimit` and `extraTime` are variables of `IterativeDeepening`.

### SearchNode and SearchValues

`search` and `qsearch` as a stack of frames. A frame holds the locals of a
call; its `pc` says which statement it will execute: `enter`, `prune` (after
the table and the evaluation), `nullMoved` and `iidSearched` (a reduced search
has returned), `moves`, `probed` (the null window search has returned),
`searched` and `end`. One action is the code between two calls or two reads of
the stop flag, so `RaiseStop` can come between any two of them. `pv` and `mg`
are the arrays per ply, shared by all nodes of the ply; `result` is the last
value returned and the call it answers.

- `EnterQuiescence` ... `EnterQsearch` are the early returns in their order:
  horizon, stop, mate distance pruning, table, standing pat.
- `Razor` ... `StartMovesAfterIid` are what `search` tries before its moves:
  razoring, reverse futility, the null move, internal iterative deepening.
- `SkipMove` is a turn of the loop that ends in `continue`: futility, late
  moves, bad captures, illegal moves. `MoveSearched`, `MoveProbed` and
  `MoveResearched` are the principal variation search; `MoveStopped` ...
  `BetaCut` take the value; `Leave` recognises mate and stalemate and stores.
- A game is data (`IsGame`): a graph of positions, finite and acyclic in the runs, with moves, captures,
  checks, evaluations and draws (a property of the position, so repetitions
  that depend on the path are left out). The generator returns the PV move
  first and the others in any order, which covers killers, history counters
  and sorting; `OnDemandComplete` of `Game` shows that it returns each once.
  The piece a capture wins is worth the same everywhere (`gain`), and a
  promotion is not told from a capture.
- The margins and depths of `SearchConfig` are constants and its switches the
  set `features`; the table of late move reductions is one number.
- The caller is any sequence of calls of non-decreasing depth, with the windows
  in `roots`; the next search starts with the table of the one before.

`QuiescenceValue` and `MinimaxValue` define by recursive functions what the
values mean, and `Answers` what a window allows: a value below it is an upper
bound, one above it a lower bound, one inside it the value itself.
`SearchValues` holds the value constants and the conversion of mate scores for
the table.

### TranspositionTable

`TT`: `put` with its three cases, `probe`, `ageEntries`, `clear`, `resize` and
`setThreads`. The widths of `depth` (signed, 7 bits) and `age` (3 bits) are
kept: a depth above 63 comes back negative, as the run with depths 63, 64 and
127 shows. `DepthKept`, a part of `NeverStale`, says both what the field keeps
and that what it does not keep never looks deeper than it is; `clear` and `ageEntries` act on the union of the ranges of their threads,
so an entry that no thread visits stays as it was. `latest` is a history
variable: what `put` was given last for each position, merged in the way the
callers rely on (a result without a move does not erase the move). The search
thread calls put and probe one after the other; that nobody else touches the
table meanwhile is `TableSafe` of SearchControl.

### The chess core

`Chessboard` has squares, pieces, moves and the tables of `bitboard.cpp`; a
bitboard is the set of its squares. `Position` is a record with all the
redundant state of the class, and an operation maps one to the next. A Zobrist
key is the set of the features XORed into it and XOR is the symmetric
difference, so two keys are equal exactly if the same features went in an odd
number of times. `MoveGenerator` has every generator, at once, as evasions and
on demand in its stages; `Evaluator` the pawn terms, material, the score and
the pawn cache; `See` the exchange. `Game` puts them together: moves, legal or
not (an illegal one is taken back at once, as the search does), null moves,
undos, `hasCheck` calls and evaluations in any order from a given start.
`Rules` states the moves of chess by geometry on a bare placement of pieces.

Abstracted: values of squares (`putPiece` treats them as it treats material,
and `USE_POSITIONAL` is off); a FEN is a record of its six parts; sort values
with killers and history counters (a stage is a set, the PV move first or last
in its stage; with quiet moves only it is skipped at once and returned in its
stage, as in the code); the value of a position is not divided by
`GAME_PHASE_MAX` and not rounded; the hash of the pawn cache is any function
that maps key 0 to entry 0. Not modelled: the end of the history array
(`MAX_MOVES`), and that `generatePseudoLegalMoves` leaves a trace in
`onDemandEvasionTargets`.

What the model shows of the code besides the properties: the game phase is
clamped and not part of the history, so it comes back from an undo only if it
stayed within 24 (`UndoRestores` says so);
`setupBoard` does not XOR the en passant file, which `doMove` does, so that a
position set up with an en passant square has another key than the same
position reached by moves (no start of the run `Game` has one); king, bishop and knight against king, a forced mate,
count as insufficient material; `TEMPO` is added to White's
score whoever is to move; the lazy exit is taken on positive values only; the
comment in `See.cpp`, "pruning if defended - will not change final see score",
holds for the sign only, which is all that `goodCapture` asks for
(`SeeTellsWinners`).

### ThreadPool and OpeningBook

`ThreadPool`: each critical section of the mutex is an action, and a
notification comes after the section it belongs to; workers wake without
reason if they like. `finished` counts the tasks whose future is ready.

`OpeningBook` extends it. `initialize` reads the file, looks for a cache,
splits the lines over `NumberOfThreads` threads of its own (SIMPLE, SAN) or
enqueues the games of a PGN file as tasks; each of them plays its moves and calls
`writeToBook`, one action per critical section of `bookMutex`. Then the cache
file is written, and a crash may leave it torn: `Restart` begins a new process,
which has nothing but that file. A torn cache makes `initialize` throw. A line
is its kind and its words, positions are nodes of a graph (`After`), which is
external. The variant with parallel algorithms (`HAS_EXECUTION_LIB`) is not
modelled.

### Semaphore

`basic_semaphore`: one action per critical section of the mutex. A caller of a
waiting operation sleeps, is woken by a notification or for no reason, or
passes its deadline, and then competes for the mutex to test the counter.
`mCv.notify_one` wakes some sleeper. `CountingSemaphore` is the abstract
specification: a permit is taken only when there is one, a waiting operation
gives up only when there is none, and permits do not lie around while callers
wait for them. `SearchControl` uses its semaphores as atomic counters, which is
what this refinement justifies.

## 3. The runs

| Run | Question | Result |
|---|---|---|
| `SearchControl` | Do permits, flags, limits, threads and the table stay consistent over three searches, with every kind of limits, every command at every moment and the table switched on and off and given a size or none; is every behaviour a UCI session; does every handler return and every search that has a limit or was told to stop answer? | holds, 578,948 states |
| `Semaphore` | Is it a counting semaphore, does no permit lie around while somebody waits, do deadlines hold? | holds, 588 states |
| `TranspositionTable` | Are entries and statistics consistent, hits never stale and no depth greater than searched? | holds, 594,318 states |
| `SearchNode` | Does the search return minimax values or bounds of them, does its table tell the truth, are its mates real, its lines playable, and does a stop leave no trace? | holds, 162,173 states |
| `IterativeDeepening` | Is the best move always in front, is a finished iteration the best of its depth, does a stop never make the answer worse, does the time fit the clock? | holds, 279,249 states |
| `Game` | Does incremental state match the board, does undo restore, do check flags, legal moves, repetitions, cached evaluations and exchanges agree with the rules? | holds, 3,791 states |
| `OpeningBook` | Is the book the one of the file in every order of the threads and after every crash, a tree of legal moves, and does `initialize` end with no task lost? | holds, 143,804 states |
| `QuitInfinite` | Does quit end the process? | no: the destructor waits for a search nobody stops |
| `FalseStalemate` | Is what looks like stalemate a stalemate? | no: moves pruned as futile are not counted as searched |
| `PawnlessCache` | Does a position without pawns get no pawn score? | no: its key 0 finds free entries, whose scores are VALUE_NONE |
| `BookGames` | Is a PGN file divided into its games? | not if its last line is not blank, as in `books/ecoe.pgn` |
| `PonderOnDraw` | Is there no move to ponder on after the game has ended in a draw? | there is one: the reply to another move |

The last five find a state or a behaviour that contradicts a sentence of the
protocol description or a comment; `PROJECT.json` quotes it under "findings".

**Bounds.** Each run is small, but made so that its interesting cases happen.

- `SearchControl`: three searches, since the shortest interplay is between a
  search and its predecessor, and the third shows the state the second leaves
  behind. `UsualLimits` holds each kind of go command, and "go" without
  arguments, which is refused. One ponderhit per search, which is what the
  protocol allows. `Hash` is set to 0 and to its default 64; all that counts is
  whether it is 0.
- `Semaphore`: three callers are the least with which a notification can go to
  one sleeper while another sleeps and a third takes the permit.
- `TranspositionTable`: keys 1, 3 and 5 with capacities 1 and 4 make two
  positions share a slot (1 and 5), all three share one, and none share; three
  threads on one entry and on four give empty ranges and a rest. The results
  are an evaluation without a value, a value without a move, a move without an
  evaluation, and complete ones, with the depths 0, 1, 63, 64 and 127 on both
  sides of what the field can hold. Four puts allow to fill, collide, replace
  and update.
- `SearchNode`: `Diamond` has a transposition at the horizon, met with wide and
  narrow windows by two calls of one search and, in `Again`, by a second search
  after a stop; `Mates` one mating position two and four plies from the root;
  `Captures` good and bad captures, a check with evasions, a mate and a
  stalemate at the horizon; `Passes` a position that seems won and one that
  seems lost if the mover passes. They are searched with four settings: nothing
  but alpha-beta, the sound cuts, everything that prunes or reduces, and
  everything. `NMP_DEPTH`, `IID_DEPTH` and the reductions are small, so that
  they take effect within a few plies; `MAX_DEPTH` = 8 is above every depth
  that is searched.
- `IterativeDeepening`: three root moves, so that the best one can be
  overtaken in the middle and there is one left; six depths, three of them with
  aspiration windows (they begin at depth 4); 17 games whose values fall below
  the window, rise above it, cross, repeat, mate or are mated, with and without
  clocks.
- `Game`: nine starts of a handful of pieces, each around one difficulty:
  castling with rooks that take each other; en passant captures that uncover a
  rank or a diagonal; promotion by taking a rook in its corner; pins, blocks
  and double checks; knights to and fro until positions repeat; check flags
  asked for or not; pawn structures that meet in a cache of two entries;
  exchanges with pieces behind pieces. Moves stay in an `arena` of squares for
  up to `plies` plies; but the properties look at every move of a position, not
  only those in the arena.
- `OpeningBook`: two threads, five files of all three formats with games that
  transpose, return to the start, break off, or have no result; two processes
  and two calls of `initialize`.

The theorems of section 4 do not depend on any of these bounds.

**What the properties leave out.** `ReturnsMinimax` and `TableTellsTruth` speak
of the settings whose cuts are exact; the others prune by guessing and have no
such contract. Of them `MatesAreReal` says what is left: a mate they announce
exists. Late move pruning is excepted, because a node whose late moves were
dropped announces the mate of the moves it looked at. `PvPlayable` leaves out
the children that return without a line of their own: for them the code appends
the line of another node. `CacheTellsTruth` leaves out positions without
pawns (`PawnlessCache`). `StopKeepsBest` excepts a stop between a fail low and
the end of the repeated search, see below.

**Deadlock** is checked in every run but the two of the opening book, where
the last process may have done all it is allowed to. A process of
`SearchControl` that has ended stutters (`Gone`).

**Fairness.** The operating system runs every thread that can move: weak
fairness of `UciStep`, `TimerStep`, and of the search thread outside the search
itself. Inside it, `SearchReturns` is fair once the stop flag is set, because
every node tests it, or when a depth or mate limit makes the search finite, and
`NodesReached` because the nodes are counted. Time limits elapse
(`TimerLeavesLoop` belongs to `TimerStep`). Nothing is assumed of the GUI. For
the semaphore: a woken thread gets the mutex eventually and deadlines pass. For
the book: the thread in `initialize` and each worker. Wakeups without reason,
calls and restarts need not happen.

**Seeded faults.** Each property of a passing run has a faulty variant of one
definition (marked as a fault in the modules) under which TLC finds the
property violated.

**Divergences without a run.** Observed while modelling, but outside the runs
above (the first five were seen with TLC):

- A second `ponderhit` for one search assigns to a joinable `timerThread` and
  terminates the process (Search.cpp:1571). A ponderhit that comes between the
  end of a search with a node limit and its cleanup leaves its timer behind.
- `isready` with `Use Hash` off replaces the table object while a search may be
  using it (Search.cpp:1463, 1654).
- With `Hash` 0 and `Use Hash` on, `initialize` installs a table without entries
  (Search.cpp:1458, TT.cpp:48). `run` then logs "Not using TT" (line 191), but
  `search` looks at `USE_TT` only and probes it, behind the end of the array; and
  every `isready` replaces it, although the comment at line 1457 says "only
  initialize once", during a search too. `ProbedTableSized` and `TableSafe`
  without their exception for this case do not hold; with it, they say that
  there is no other.
- A depth above 63 comes back negative from a signed 7-bit field (TT.h:76 says
  "0-127", TT.h:144 documents the depth of `put` as "0-DEPTH_MAX"): `NeverStale`
  with `stored = given` for every depth does not hold. Such a result does not
  answer `search`, and any other position may replace it.
- A mated node that is interrupted stores `VALUE_NONE` as an upper bound, which
  `validValue` admits.
- A node limit ends a ponder or infinite search without waiting for the GUI, as
  does a clock of an infinite one: the loop that waits for `stop` or
  `ponderhit` (Search.cpp:236) tests the stop flag that the limit has raised.
- A stop during depth 1 makes 15001 the value of the best move (the comment at
  Search.cpp:563 expects the old best). After a fail low, a stop may leave
  `pv[0]` ranked by upper bounds only (comment at 515).
- After two missed windows the aspiration ends; a double fail high leaves a
  lower bound as the value of the iteration (comment at 500). If the values of
  children are inconsistent, the assertion at line 400 can fail.
- `searchmoves` is parsed (UciHandler.cpp:231) and ignored.
- With increments, or when `movestogo` is 1 and a search fails low, or after
  many iterations that fail low, `timeLimit + extraTime` exceeds the clock (the
  guard of `ClockHolds`). A factor below 1 in `addExtraTime` would convert a
  negative number to an unsigned one; no caller passes one.
- `readFile` drops the last character of a file that does not end with a
  newline. `loadFromCache` leaves `isInitialized` false, so a second
  `initialize` loads the book again. A torn cache makes every later
  `initialize` with the cache throw until it is recreated.
- `PawnTT::clear` does not reset `numberOfPuts` and `numberOfCollisions`
  (PawnTT.cpp:94), so that the assertion in `put` can fail after it; only its
  unit tests call it on a used table.
- Plies run to `MAX_DEPTH` = 128, the arrays at Search.cpp:605 have `DEPTH_MAX`
  = 127 elements. `qsearch` stores its results with depth 1 (Search.cpp:1353).

## 4. The theorems

TLAPS proves, for every value of the constants allowed by the assumptions named
in the modules (typing assumptions, `Sizes` and `ThreadCounts` without 0, keys
other than 0, workers numbered by the threads of the book, evaluations that are
not those of a mate, calls of the root with a window that is not empty, margins and
depth reductions that are not negative, as `SearchConfig.h` and the UCI options
have them):

**SearchControlProofs.** Everything follows from `IInv`. The semaphore equations
alone are not inductive: that `run` is admitted, say, needs that nobody is
inside `isSearching()` when it starts, which holds because `startSearch`, on the
only thread that could be, waits for the setup to end (`StartupInv`). `IInv`
therefore adds to `TypeOK`, `RunningSemaphore` and `InitHandshake` which labels
the threads can be at together (`StartupInv`, `RestInv`), when `searchThread` is
joinable (`ThreadInv`), and that a bestmove is owed exactly from storing the
limits to sending it (`OwedInv`). There is one lemma per thread, with a step per
action. From it: `RunAlwaysAdmitted`, `RunningSemaphoreConserved`,
`HandshakeKept`, `SearchesDoNotOverlap`, `LimitsNeverChange`, `StopNeverLost`,
`TypeCorrect`, and with `TableInv`, `ProbesSizedTable` and `TableLeftAlone`,
for any sizes that `Hash` is set to; a probed table without entries is what
`Hash` 0 leads to and nothing else.
With `ResultInv`, which says at which labels of `run` the result flag is up,
`ResultIsFresh`. These hold even for a GUI that quits or sends ponderhit
whenever it likes, for in these theorems a terminated process is a process that
no longer moves.

`TimerEndsWithSearch`, `NoThreadOverwritten` and `ImplementsSession` assume a
GUI that keeps to the protocol (`PoliteGui`, `WaitsAreHeld`): one ponderhit for
a search, and no node limit, nor a clock that runs from the start, for a search
that waits for the GUI; without it they are false (see the first divergences
above). `PoliteInv` says why that is enough. A timer exists from its start to
its join in `run` (`TimerInv`), so the only place that could overwrite one is
`ponderhit`; that one finds the search before its end and without a timer,
because nothing has stopped a search that nobody told anything (`ToldInv`), and
a pondering search was told by this ponderhit only (`HitsInv`).
`ImplementsSession` is the refinement of `UciSession` without its fairness: one
lemma for each of go, told and answer, and one for the steps that stutter.

**IterativeDeepeningProofs.** `ClockNeverOverdrawn`: without increments the
planned time and all that fail lows and the book add to it fit into the clock,
for every game, as long as the moves left to play allow for one fail low in
every iteration. The bound rests on two facts. `PlanFits` is
arithmetic: the moves a time is planned for take at most nine tenths of what
the player has. And an iteration fails low at most once: the window after a
fail low reaches down to `VALUE_MIN`, and the value of an unstopped search lies
above it. The second needs to know the value at every point of the aspiration,
so `IInv` adds to the types that the root moves are those of the game
(`RootsOK`), how window and attempt hang together (`BoundsOK`), that the values
found so far lie in range unless the search is stopped (`ValuesOK`), and what
has been earned at most by each depth (`EarnedOK`). `TypeCorrect` is a part of it.

`BestMoveAlwaysFirst`, `IterationsFindBest` and `StopNeverLosesBest` need to
know more of an iteration: `BestInv`. Every value found so far is a bound of
what its move is worth, and those found in the loop are at most `node.best`
(`LoopOK`); what a call returned answers for its window (`ChildOK`); after a
missed window some move lies above the new lower end (`WindowOK`), so the
repeated search does not fail low again. The difficulty is a loop that is left
early: the moves behind the cut keep values of older searches, and the sort that
follows must not put one of them first. It cannot, because they lie below the
window (`StaleOK`, `CutAt`): it was raised above the values of the iteration
before, or the move that cuts was the only one to reach it. `KeptOK` carries
the best move of the last iteration through the next one for a stop. That drawn
moves are worth `VALUE_DRAW` at every depth (`GameAssumption`) is needed: they
are not searched.

**OpeningBookProofs.** First of the pool alone, `NoTaskLost`: tasks are executed
once each, in their order, all of them before the pool is gone; the invariant
counts the tasks queued, running and finished, and says that workers end only
with the queue empty. `UsesPool`: every step of the book builder is a step of
the pool or leaves the pool alone; hence `GamesKept`. `BookConnected`: at any
time, for every number of threads, file and graph, the book holds legal moves
into entries of its own, exactly one into each entry and none into the root.
It rests on the entry and its edge being written in one critical section.
`BookAlwaysTree` adds that every entry can be reached from the root, so that
`getLevelStr` comes to an end although games transpose and return: `Ordered`
ranks the entries by the order in which they came, and a move of an older one
leads to each. The recursive `Reached` is linked to it by ways through the book
(`IsWay`, `ReachedUnfolds`) and induction over the rank.

**SemaphoreProofs.** `TypeCorrect`; `WakeupsAreNotLost`, where the counting
argument is that every step that frees a permit wakes a sleeper or there is
none, and every step that puts a thread to sleep happens with no free permit;
and `ImplementsCounting`, the refinement of `CountingSemaphore`.

**TranspositionTableProofs.** `IInv` is the conjunction of the invariants:
`NeverStale` needs `InItsSlot`, because only a key that can be in one slot only
leaves no older result of the same position behind. Of the depth it says what is
true of the code for every depth that `put` documents: kept up to 63, negative
above (`Widths`). `EveryEntrySweptOnce` is
arithmetic: the quotient of the index by the length of a range names the
thread, and the last thread takes the rest. `ClearStep` needs it, since an entry
that no thread visits would survive a clear. `EntriesCounted` counts with the
library's theorems on finite sets.

**SearchNodeProofs.** `AlphaBetaIsMinimax`: for every graph of positions, with
cycles and transpositions, every depth limit, call of the root and order of
the moves, what `search` and `qsearch` return is the minimax value of the node
or the bound of it that the window allows, with null windows and repeated
searches, mate distance pruning, killers, internal iterative deepening, a table
that orders the moves and serves evaluations, and a stop between any two reads
of the flag. `Thorough` says for which settings: the switches that guess are
off, `ALPHABETA` is on (without the cut the loop goes on with alpha above beta,
and the next window is turned round), and the table does not answer calls. It may
have looked deeper than it is asked to, and a value made of answers for different
depths is the minimax value of no single depth; whether what it answers is
true is `TableTellsTruth`, which only the runs check, as they check
`ReturnsMinimax` with such a table on games in which looking deeper changes
nothing.

The inductive invariant `SInv` speaks of every frame of the stack:
- `FrameOK`: a frame is a call with a window that is not empty, narrowed by mate
  distance pruning and then only raised. Its best value is at most what the node
  is worth as soon as it lies above the lower end (`BestOK`), and every move that
  is done, so neither in the generator nor under way, is worth at most
  the best value, unless that one cuts. This is where a move left out, by a
  stale generator or by a `continue` too many, would show.
- `NestedOK`: a frame that waits has asked the one above it for what the move
  under way is worth, with its own window turned round (`Asked`), and plies grow
  along the stack, so that no frame disturbs the generator of one below. The
  exception is internal iterative deepening, which searches the same node at the
  same ply: it waits at `iidSearched`, before the generator starts.
- `AnsweredOK`, `ResultOK`: what comes back while the flag is down is an answer
  to what was asked. While the flag is up nothing of the kind is known, and
  `MoveStopped` takes care that nobody uses it.

The reference is recursive, and what it says of a node in terms of its
children comes from unfolding it once (`MinimaxUnfolds` and its like). That the
recursive functions exist at all, and that their values lie in range, is
induction over the depth. It is done with sets: `SetInduction` follows from the
library's theorem that the natural numbers are well-founded, which takes no
operator.

`RoundTrip` and `MateDistanceKept`: a value that a node at some ply can have
comes back from the table unchanged at that ply, and a mate is equally far from
the position at every other ply.

In the second part, `InterruptionsContained`: for every game, depth limit,
order of the moves, moment of the stop and set of switches, those that guess and
the table that answers included, neither `VALUE_NONE` nor its negation gets into
a window, into the best value of a node, into the table or to a caller that goes
on. `Guarded` names what it needs. `ALPHABETA` and `MDP` are on: without the cut
alpha passes beta, and without mate distance pruning windows are not confined to
what a node at their ply can be worth. And it is the first search of a game, the
one whose table starts empty: a mated node that is interrupted leaves
`VALUE_NONE` in the table as an upper bound, and a later search may answer a call
with it. Runs cover later searches, in games where nobody is mated.

`CInv` is the invariant. The property itself is not inductive: that a returned
value lies between `-VALUE_CHECKMATE` and `VALUE_CHECKMATE` does not keep the
conversion for the table in this range. `InsideOK` therefore confines windows and
best values to the reach of a ply, which gets narrower with every ply
(`NegatedReach`), so that a mate comes out of the table in reach again
(`ToTable`, `FromTable`). A node has a best value as soon as it has searched a
move, or from the start where it may stand pat: so a node left with `VALUE_NONE`
has been stopped (`EndedFacts`). `SafeEntry` says that until a stop an entry
without a value carries an evaluation only and answers no call; after a stop
nobody looks any more, since the flag is read before the table.

In the third part, `LinesPlayable`: for every game, order of the moves, moment of
the stop and number of searches that keep the table, the line of a node whose
value lies inside its window can be played from that node. `ALPHABETA` is on:
without the cut alpha passes beta and no window is left to speak of. The other
cases in which the code appends the line of another node are left out by the
property itself, as above. One array serves all nodes of a ply, so what has
to be shown is that a line is read before another node of its ply overwrites it.
Of the invariant `LInv`:
- `LineFrame`: a node in its loop whose best value lies inside its window has a
  line in `pv` at its ply that can be played from it. `TakesLine`, `HasLine`: a
  child that answers with a value inside the window it was given leaves such a
  line one ply further, where `savePV` takes it from.
- `Awaits`, `AskedFor`: plies grow along the stack, and a frame that waits for
  its child has handed on its own window or a part of it (razoring and null
  windows), so the child's line is of use only where its value counts.
- `Inside`, `Within`, `LeafValue`, `LeafBest`: mate distance pruning narrows the
  window, so a value at the narrowed edge has no line although it may lie inside
  the window that was handed on. What `qsearch` returns without a stop stays away
  from that edge.
- `TableHasMoves`: the moves in the table are legal in the position of their
  key. It holds across searches, and makes the line that `getPvLine` collects from
  the table playable (`TableLine`).
- The array stays empty at `MAX_DEPTH`, where nodes are evaluated only.

`Playable` is recursive. `LineIsPlayable` links it by induction on the length
to paths (`Path`), with which the steps work: `LongerLine` puts a move before one.

**GameProofs.** What a position keeps besides its board stays right for games of
any length from any proper FEN (`StartsAssumption`: at most one piece on a
square, one king for each colour, kings and rooks at home where the castling
rights have them, an en passant square behind a pawn that can have gone over
it), for every arena, number of cache slots, order of moves, null moves, undos,
`hasCheck` calls and evaluations:
- `BoardsMatch`: bitboards, king squares, castling rights, pawn key and material
  are those of the board; the Zobrist key is if the game did not start with an
  en passant square. That condition is not for the sake of the proof: with such
  a square the key is wrong from the start: `setupBoard` leaves the file out, and
  the next move takes it out of the key once more.
- `CoherentAlways`: all of `Coherent`, the game phase included, under the
  hypothesis `[]PhaseFits`: the pieces on the board never exceed the maximum of the
  phase. Without it the theorem is false: with all pieces on
  the board and a pawn about to promote, the phase stays at 24, and taking the
  promotion back makes it 20. Every game
  from the usual start in which nobody promotes is of this kind.
- `MovesAreUndone`: `undoMove` after `doMove` of any pseudo-legal move gives
  back the whole position but, possibly, its phase; `UndoAlways`: and the phase,
  under `[]PhaseFits`.
- `FlagsAreKnown`: a check flag that is not `FLAG_TBD` is what `isAttacked`
  answers for the king of the side to move.
- `RepetitionsAlways`: `countRepetitions` counts every earlier occurrence of the
  position, with the side to move, although it stops where the half move clock
  does not rise (`RepetitionExact`).
- `CacheAlways`: evaluating through the pawn cache gives the value computed
  from the board, for any hash that maps keys to slots and 0 to 0.

`Coherent` alone is not inductive, because `undoMove` takes half of the older
position from the history and computes the other half backwards: nothing about
the current position says that this gives a sound one. The invariant `Reached`
therefore says that the history stands for a game: there is a sequence of
positions, each well formed (`Good`, `Sane`), of which the next is what `doMove`
or `doNullMove` made of the last (`Joined`), the current position being the
last. It comes with the phase or without (`GamesAreRecorded`,
`PhasesAreRecorded`). An undo steps back to the position before
(`UndoLinked`, `UndoNull`); the moves themselves need a geometry of the board
(`MoveShape`: a pseudo-legal move starts at a piece of the side to move, does
not take an own piece, castles between empty squares, and an en passant capture
finds the pawn it takes). `setupBoard` is a fold over the pieces of the FEN, and
`SetupGood` an induction on how many of them stand already. Of the cache,
`CacheTrue` says that an entry holds the score of every set of pawns with its key;
`PawnsOfKey` shows that there is one only, since the key of the model tells
sets of pawns apart (a collision of 64-bit keys is not modelled).

For repetitions, a board has a reserve (`Reserve`, the size of a finite set): one
for each piece, for a pawn the squares still before it. Moves put pieces on
squares that other pieces came from (`CameFrom`), so nothing is ever added
(`Lessens`), and a move that resets the clock loses something, because pawns
only advance (`PawnsAdvance`, which goes back to the generators). Where the
position recurs the reserve is the same, so nothing was lost in between, and the
clock has risen with every move; with a null move it stands still, but two of them
never follow each other, which is why the comparison two entries apart is strict
(`ClockRises`). `KeyTells` is what
the proof needs of the key: the pieces and the player, which the key tells from any
start, the wrong en passant file of some starts notwithstanding.

**RulesProofs.** `ChecksAlways`: what the code says of checks is what the rules of
chess say (`ChecksAreKnown`). Where `Rules` looks at the board and the files and
ranks of two squares, `isAttacked` and `givesCheck` look up tables, cut rays at the
first piece behind a mask, and reckon with an occupancy of their own.

To compare the code with `Rules`, `LineIs` and `LineFound` show that steps in one of
the eight directions, within the board, are the lines of the rules;
`MaskedSlides` that the edges missing from a mask change no attack;
`AttackIs` that a piece attacks by the rules what it strikes by the tables. Then
`KingChecked`: `isAttacked` of a king is check by the rules. For `givesCheck`,
`BoardCheckForeseen` follows a piece of the board after the move back to
before it: it is the piece that has moved, or a slider whose line the move has opened;
a slider that `givesCheck` sees on the square just left would have given check
before the move. `givesCheck` leaves the castled king out of the
occupancy and the castled rook in its corner: `CornerHides`, `RookSees` and
`CastledSliders` show that this makes no difference, the first because nothing
lies behind a corner, the others because king and rook are neighbours on a rank whose
other squares were free.

`LegalityAlways`: the moves the generator calls legal are those of the rules
(`LegalityAgrees`). `generateLegalMoves` lists exactly them, `isLegalMove` before
and `wasLegalMove` after a pseudo-legal move say whether it is one, and
`hasLegalMove` knows whether there is one. Bitboard by bitboard, `SinglesAre`,
`DoublesAre`, `TakesReach`, `PassingReach` and `PieceMovesAre` give the moves of the
rules, and so `PseudoAre` all that is listed. What is left are the shortcuts:
- castling: `isLegalMove` asks of the king's way before the move and of its end
  after it, `wasLegalMove` of all of it after it, where the rook stands elsewhere
  and the king no longer hides a line; `PathAttackers` shows that whoever attacks
  the way of the castled king attacked it, or the king, before.
- evasions: in check only captures of the attacker, interpositions, en passant
  captures and moves of the king to squares that `attacksTo` finds unattacked are
  listed. `EvasionsSuffice` shows that nothing legal is missed: a move that leaves
  the king safe takes each attacker or stands on its line (`AttackerMet`), one
  square lies on the open line of one attacker only (`OneAttacker`), so there
  is one, and a king never gains by shortening a line (`SlidesStill`).
- `hasLegalMove` does not try castling, and tries promotions as plain pawn moves:
  who may castle may also step aside (`StepsAside`), and what a pawn becomes is
  no matter to the own king (`PromotionTried`).

The theorem has a hypothesis on the first position, `EnPassantSafe`. `attacksTo`
counts, for the square a pawn left with a double step, the enemy pawns beside that
square as attackers, which they are not. A king in check that could go there would
lose this evasion. After a double step in the game this cannot happen, since a king
next to that square is in check through it (`EnPassantLeft`); a FEN may name an
en passant square in a position no double step leads to. The invariant carries
it with the rest (`Sane`); without an en passant square it holds at once.

The type invariants of `SearchControl`, `Semaphore`, `TranspositionTable` and
`IterativeDeepening` are proved and not checked by a run a second time; so are
`RunningSemaphore`, `InitHandshake`, `LimitsStable` and `PutsAccounted`.

Only model-checked: of the chess core what is said of staged generation, the
text of moves included (`getMoveFromUci` walks the stages), and of exchanges
(`OnDemandComplete`, `SeeTellsWinners`; they are computed step by step, recursively
or by a fold); of `SearchNode` what the table holds (`TableTellsTruth`), interruptions in later searches (`InterruptionContained`) and what
is true with the switches that guess (`MatesAreReal`); `BookExact`, which counts
over the games of a file and holds only for files of the usual form; and
everything that needs fairness (the liveness of `SessionFair`, whose safety is
proved, `HandlersReturn`, `LimitedIsAnswered`, `PermitsAreTaken`,
`DeadlinesHold`, `InitializeEnds`).

## 5. The plan

Done: the life cycle of a search; the semaphore; the table; values and nodes
of the search; iterations and time control; thread pool and opening book;
position, move generator, evaluator and exchanges. Left, in this order:

1. `TableTellsTruth` as a theorem. It needs a bound on the depths: where the
   ply and the depth of a call pass `MAX_DEPTH`, the stored depth promises more
   than was searched.
2. `Perft` and its thread beside the UCI thread; `Fifo`.

## 6. What is not modelled

Logging, formatting and parsing (no property is about them), the SAN parser
among them; the bit tricks and magic numbers of the bitboard tables (their
results are modelled); terms of the evaluation that are switched off; the test
tools and the command line (sequential users of `Search`); `Perft`, which
counts the moves of `MoveGenerator` on a thread of its own; `Fifo`, which only its unit
tests use. Of the search, statistics and history counters are left out (they
are printed or order moves). Undefined behaviour other than the effects above
(data races on plain fields such as `extraTime`) is listed under hazards.
