----------------------------- MODULE OpeningBook -----------------------------
(***************************************************************************)
(* OpeningBook: a map from positions to book entries, built by several     *)
(* threads from the games of a file, saved to a cache file and loaded from *)
(* it.                                                                     *)
(*                                                                         *)
(* The lines of a SIMPLE or SAN file are split among threads of their own, *)
(* the games of a PGN file are tasks of a ThreadPool.  Each critical       *)
(* section of bookMutex is one action.  A line is a record of its kind     *)
(* (blank, tag or text) and the words on it: moves, "junk" (no move), or   *)
(* "result" (a result of a PGN game).  Positions are known by their keys;  *)
(* After, a constant, tells what the moves of the file do to them.         *)
(***************************************************************************)
EXTENDS ThreadPool, FiniteSets, FiniteSetsExt, SequencesExt

CONSTANTS
  Key, Root,        \* keys of positions, that of the start position
  Moves,            \* words that are moves
  After,            \* After[k][m]: the key after the legal move m in k
  Files,            \* the book files: [format, lines]
  NumberOfThreads,
  MaxProcesses,     \* bound on the processes that use the book in turn
  MaxCalls          \* bound on the calls of initialize() in a process

ASSUME ThreadsAssumption == NumberOfThreads \in Nat \ {0} /\ Workers = 1 .. NumberOfThreads
ASSUME GraphAssumption ==
  /\ Root \in Key
  /\ \A k \in Key : DOMAIN After[k] \subseteq Moves /\ \A m \in DOMAIN After[k] : After[k][m] \in Key

None     == "none"                                  \* no position, no move
NoFile   == [state |-> "none", book |-> <<>>]
Torn     == [state |-> "torn", book |-> <<>>]       \* not written to its end
Whole(b) == [state |-> "whole", book |-> b]

VARIABLES
  file,                      \* the book file
  bookMap, isInitialized,
  useCache, recreateCache,
  cacheFile,                 \* the only thing that outlives the process
  owner,                     \* where the thread in initialize() is
  lineNumber, gameStart, lastEmpty,   \* locals of readGamesPgn
  results,                   \* its games, from line to line, by ticket
  failed,                    \* futures that hold an exception
  unread,                    \* the lines left to a thread
  game, lastKey,             \* locals of a thread in addGameToBook
  processes, calls

bookVars  == <<bookMap, isInitialized>>
cacheVars == <<useCache, recreateCache, cacheFile>>
scanVars  == <<lineNumber, gameStart, lastEmpty, results>>
gameVars  == <<unread, game, lastKey>>
countVars == <<processes, calls>>
vars == <<file, bookVars, cacheVars, owner, scanVars, failed, gameVars, countVars, poolVars>>

(* idle: no book; scanning, waiting, leaving, unwinding: in readGamesPgn;  *)
(* reading: in readGamesSimple or readGamesSan; built, saving: after       *)
(* readGames; ready: initialize() has returned; thrown: it has thrown.     *)
OwnerStates == {"idle", "scanning", "waiting", "leaving", "unwinding", "reading",
                "built", "saving", "ready", "thrown"}

-----------------------------------------------------------------------------
(* The text of the games. *)

Words(lines) == FlattenSeq([i \in DOMAIN lines |-> IF lines[i].kind = "text" THEN lines[i].text ELSE <<>>])

(* Words that look like moves, up to the first that does not. *)
readOneGameSimple(line) ==
  LET other == {i \in DOMAIN line.text : line.text[i] \notin Moves}
  IN IF other = {} THEN line.text ELSE SubSeq(line.text, 1, Min(other) - 1)

readOneGameSan(line) == IF line.kind = "text" THEN SelectSeq(line.text, LAMBDA word : word # "result") ELSE <<>>

(* Everything from the last result on is cut off. *)
cleanUpPgnMoveSection(words) ==
  SubSeq(words, 1, Max({0} \cup {i \in DOMAIN words : words[i] = "result"}) - 1)

(* Without a result the string is resized to the length -1, which throws   *)
(* std::length_error.                                                      *)
Fails(words) == words # <<>> /\ "result" \notin Range(words)

readOneGamePgn(lines) == IF Fails(Words(lines)) THEN <<>> ELSE cleanUpPgnMoveSection(Words(lines))

OneGame(line) == IF file.format = "SIMPLE" THEN readOneGameSimple(line) ELSE readOneGameSan(line)

-----------------------------------------------------------------------------
(* The book. *)

BookEntry(n) == [counter |-> n, moves |-> <<>>, nextPosition |-> <<>>]

Counted(map, k) == [map EXCEPT ![k].counter = @ + 1]

WithEntry(map, k, n) == [q \in DOMAIN map \cup {k} |-> IF q = k THEN BookEntry(n) ELSE map[q]]

WithMove(map, last, move, k) ==
  [map EXCEPT ![last].moves = Append(@, move), ![last].nextPosition = Append(@, k)]

(* Seeded fault: the predecessor gets the move also when the position is   *)
(* known already.                                                          *)
writeToBookAlways(map, move, current, last) ==
  WithMove(IF current \in DOMAIN map THEN Counted(map, current) ELSE WithEntry(map, current, 1),
           last, move, current)

writeToBook(map, move, current, last) ==
  IF current \in DOMAIN map
  THEN Counted(map, current)
  ELSE WithMove(WithEntry(map, current, 1), last, move, current)

(* What getRandomMove may return. *)
getRandomMove(k) ==
  IF k \in DOMAIN bookMap /\ bookMap[k].moves # <<>> THEN Range(bookMap[k].moves) ELSE {None}

-----------------------------------------------------------------------------
(* A new object in a new process, with any choice of setUseCache and       *)
(* setRecreateCache.                                                       *)
NewProcess(map, initialized, use, recreate, own, line, start, empty, res, fail, rest, g, last, n) ==
  /\ map = [k \in {} |-> BookEntry(0)]
  /\ initialized = FALSE
  /\ use \in BOOLEAN /\ recreate \in BOOLEAN
  /\ own = "idle"
  /\ line = 1 /\ start = 1 /\ empty = TRUE /\ res = <<>> /\ fail = {}
  /\ rest = [w \in Workers |-> <<>>]
  /\ g = [w \in Workers |-> <<>>]
  /\ last = [w \in Workers |-> None]
  /\ n = 0

Init ==
  /\ file \in Files
  /\ NewProcess(bookMap, isInitialized, useCache, recreateCache, owner, lineNumber, gameStart,
                lastEmpty, results, failed, unread, game, lastKey, calls)
  /\ cacheFile = NoFile
  /\ processes = 1
  /\ PoolInit

(* The process ends, by a crash or after an exception, and a new one comes. *)
Restart ==
  /\ processes < MaxProcesses /\ pool = "none"
  /\ NewProcess(bookMap', isInitialized', useCache', recreateCache', owner', lineNumber', gameStart',
                lastEmpty', results', failed', unread', game', lastKey', calls')
  /\ processes' = processes + 1
  /\ UNCHANGED <<file, cacheFile, poolVars>>

-----------------------------------------------------------------------------
(* initialize() and reset(). *)

Callable == owner \in {"idle", "ready"} /\ ~isInitialized /\ calls < MaxCalls /\ calls' = calls + 1

FromCache == useCache /\ ~recreateCache /\ cacheFile # NoFile

(* Seeded fault: what can be read of a torn file is taken for the book. *)
loadWhatThereIs ==
  /\ Callable /\ FromCache
  /\ owner' = "ready"
  /\ bookMap' = IF cacheFile = Torn THEN [k \in {Root} |-> BookEntry(0)] ELSE cacheFile.book
  /\ UNCHANGED <<file, isInitialized, cacheVars, scanVars, failed, gameVars, processes, poolVars>>

(* A load leaves isInitialized as it is; the archive of a torn file throws. *)
loadFromCache ==
  /\ Callable /\ FromCache
  /\ IF cacheFile = Torn
     THEN owner' = "thrown" /\ UNCHANGED bookMap
     ELSE owner' = "ready" /\ bookMap' = cacheFile.book
  /\ UNCHANGED <<file, isInitialized, cacheVars, scanVars, failed, gameVars, processes, poolVars>>

RootEntry == bookMap' = [(IF Root \in DOMAIN bookMap THEN bookMap ELSE WithEntry(bookMap, Root, 1))
                           EXCEPT ![Root].counter = 0]

(* Seeded fault: the last thread gets as many lines as the others. *)
ShareEqually(t) ==
  LET n == Len(file.lines)
      range == n \div NumberOfThreads
  IN SubSeq(file.lines, (t - 1) * range + 1, t * range)

(* The lines of thread t: the last one takes what the division leaves. *)
Share(t) ==
  LET n == Len(file.lines)
      range == n \div NumberOfThreads
  IN SubSeq(file.lines, (t - 1) * range + 1, IF t = NumberOfThreads THEN n ELSE t * range)

readLines ==
  /\ Callable /\ ~FromCache /\ file.format # "PGN"
  /\ RootEntry
  /\ owner' = "reading"
  /\ unread' = [t \in Workers |-> Share(t)]
  /\ game' = [t \in Workers |-> <<>>]
  /\ lastKey' = [t \in Workers |-> None]
  /\ UNCHANGED <<file, isInitialized, cacheVars, scanVars, failed, processes, poolVars>>

readGamesPgn ==
  /\ Callable /\ ~FromCache /\ file.format = "PGN"
  /\ RootEntry
  /\ owner' = "scanning"
  /\ lineNumber' = 1 /\ gameStart' = 1 /\ lastEmpty' = TRUE /\ results' = <<>> /\ failed' = {}
  /\ Construct
  /\ UNCHANGED <<file, isInitialized, cacheVars, gameVars, processes>>

reset ==
  /\ owner = "ready"
  /\ bookMap' = [k \in {} |-> BookEntry(0)]
  /\ isInitialized' = FALSE
  /\ owner' = "idle"
  /\ UNCHANGED <<file, cacheVars, scanVars, failed, gameVars, countVars, poolVars>>

-----------------------------------------------------------------------------
(* readGamesPgn, in the owner's thread, while the workers are at it: a     *)
(* game ends before a tag that follows a blank line, before the last line  *)
(* of the file unless that is blank, and at the end of the file.           *)

Lines == Len(file.lines)
Scanning == owner = "scanning" /\ pool = "open"

SkipBlank ==
  /\ Scanning /\ lineNumber <= Lines
  /\ file.lines[lineNumber].kind = "blank"
  /\ lineNumber' = lineNumber + 1
  /\ lastEmpty' = TRUE
  /\ UNCHANGED <<file, bookVars, cacheVars, owner, gameStart, results, failed, gameVars, countVars, poolVars>>

EndsGame(n) == \/ lastEmpty /\ file.lines[n].kind = "tag"
               \/ n = Lines

GoOn ==
  /\ Scanning /\ lineNumber <= Lines
  /\ file.lines[lineNumber].kind # "blank" /\ ~EndsGame(lineNumber)
  /\ lineNumber' = lineNumber + 1
  /\ lastEmpty' = FALSE
  /\ UNCHANGED <<file, bookVars, cacheVars, owner, gameStart, results, failed, gameVars, countVars, poolVars>>

EnqueueGame ==
  /\ Scanning /\ lineNumber <= Lines
  /\ file.lines[lineNumber].kind # "blank" /\ EndsGame(lineNumber)
  /\ results' = Append(results, [first |-> gameStart, last |-> lineNumber - 1])
  /\ gameStart' = lineNumber
  /\ lineNumber' = lineNumber + 1
  /\ lastEmpty' = FALSE
  /\ Enqueue
  /\ UNCHANGED <<file, bookVars, cacheVars, owner, failed, gameVars, countVars>>

EnqueueLast ==
  /\ Scanning /\ lineNumber > Lines
  /\ results' = Append(results, [first |-> gameStart, last |-> Lines])
  /\ owner' = "waiting"
  /\ Enqueue
  /\ UNCHANGED <<file, bookVars, cacheVars, lineNumber, gameStart, lastEmpty, failed, gameVars, countVars>>

Notify ==
  /\ NotifyOne
  /\ UNCHANGED <<file, bookVars, cacheVars, owner, scanVars, failed, gameVars, countVars>>

(* The futures are asked in their order; the first exception ends that.    *)
(* Either way the destructor of the pool stops it.                         *)
AwaitResults ==
  /\ owner = "waiting" /\ pool = "open"
  /\ \/ DOMAIN results \subseteq finished \ failed /\ owner' = "leaving"
     \/ /\ \E t \in failed \cap finished : 1 .. (t - 1) \subseteq finished
        /\ owner' = "unwinding"
  /\ Stop
  /\ UNCHANGED <<file, bookVars, cacheVars, scanVars, failed, gameVars, countVars>>

StopNotify ==
  /\ NotifyAll
  /\ UNCHANGED <<file, bookVars, cacheVars, owner, scanVars, failed, gameVars, countVars>>

DestroyPool ==
  /\ Join
  /\ owner' = IF owner = "unwinding" THEN "thrown" ELSE "built"
  /\ UNCHANGED <<file, bookVars, cacheVars, scanVars, failed, gameVars, countVars>>

(* lastKey is the position of a game in addGameToBook, and None before the *)
(* root is counted.                                                        *)
Legal(w) == lastKey[w] # None /\ game[w] # <<>> /\ Head(game[w]) \in DOMAIN After[lastKey[w]]

(* The thread is through with its game, or the next word is no move here. *)
GameOver(w) == game[w] = <<>> \/ (lastKey[w] # None /\ ~Legal(w))

(* readGamesSimple, readGamesSan: every thread has joined. *)
JoinThreads ==
  /\ owner = "reading"
  /\ \A t \in Workers : unread[t] = <<>> /\ GameOver(t)
  /\ owner' = "built"
  /\ UNCHANGED <<file, bookVars, cacheVars, scanVars, failed, gameVars, countVars, poolVars>>

-----------------------------------------------------------------------------
(* The rest of initialize(). *)

Saves == useCache /\ Cardinality(DOMAIN bookMap) > 1

(* Opening the stream truncates the file. *)
OpenCache ==
  /\ owner = "built" /\ Saves
  /\ owner' = "saving"
  /\ cacheFile' = Torn
  /\ UNCHANGED <<file, bookVars, useCache, recreateCache, scanVars, failed, gameVars, countVars, poolVars>>

saveToCache ==
  /\ owner = "saving"
  /\ owner' = "ready"
  /\ cacheFile' = Whole(bookMap)
  /\ recreateCache' = FALSE
  /\ isInitialized' = TRUE
  /\ UNCHANGED <<file, bookMap, useCache, scanVars, failed, gameVars, countVars, poolVars>>

NoCache ==
  /\ owner = "built" /\ ~Saves
  /\ owner' = "ready"
  /\ isInitialized' = TRUE
  /\ UNCHANGED <<file, bookMap, cacheVars, scanVars, failed, gameVars, countVars, poolVars>>

-----------------------------------------------------------------------------
(* The threads that read games. *)

BeginGame(w, words) ==
  /\ game' = [game EXCEPT ![w] = words]
  /\ lastKey' = [lastKey EXCEPT ![w] = None]

TakeGame(w) ==
  /\ Take(w)
  /\ LET t == Head(mTasks)
         lines == SubSeq(file.lines, results[t].first, results[t].last)
     IN /\ BeginGame(w, readOneGamePgn(lines))
        /\ failed' = IF Fails(Words(lines)) THEN failed \cup {t} ELSE failed
  /\ UNCHANGED <<file, bookVars, cacheVars, owner, scanVars, unread, countVars>>

FinishGame(w) ==
  /\ Finish(w) /\ GameOver(w)
  /\ UNCHANGED <<file, bookVars, cacheVars, owner, scanVars, failed, gameVars, countVars>>

SleepWorker(w) ==
  /\ Sleep(w)
  /\ UNCHANGED <<file, bookVars, cacheVars, owner, scanVars, failed, gameVars, countVars>>

WakeWorker(w) ==
  /\ Wake(w)
  /\ UNCHANGED <<file, bookVars, cacheVars, owner, scanVars, failed, gameVars, countVars>>

EndWorker(w) ==
  /\ End(w)
  /\ UNCHANGED <<file, bookVars, cacheVars, owner, scanVars, failed, gameVars, countVars>>

ReadLine(w) ==
  /\ owner = "reading" /\ GameOver(w) /\ unread[w] # <<>>
  /\ BeginGame(w, OneGame(Head(unread[w])))
  /\ unread' = [unread EXCEPT ![w] = Tail(@)]
  /\ UNCHANGED <<file, bookVars, cacheVars, owner, scanVars, failed, countVars, poolVars>>

Working(w) == owner = "reading" \/ worker[w] = "running"

(* addGameToBook: once for the root, *)
CountRoot(w) ==
  /\ Working(w) /\ game[w] # <<>> /\ lastKey[w] = None
  /\ bookMap' = Counted(bookMap, Root)
  /\ lastKey' = [lastKey EXCEPT ![w] = Root]
  /\ UNCHANGED <<file, isInitialized, cacheVars, owner, scanVars, failed, unread, game, countVars, poolVars>>

(* then once per legal move. *)
AddMove(w) ==
  /\ Working(w) /\ Legal(w)
  /\ LET move == Head(game[w])
         current == After[lastKey[w]][move]
     IN /\ bookMap' = writeToBook(bookMap, move, current, lastKey[w])
        /\ lastKey' = [lastKey EXCEPT ![w] = current]
  /\ game' = [game EXCEPT ![w] = Tail(@)]
  /\ UNCHANGED <<file, isInitialized, cacheVars, owner, scanVars, failed, unread, countVars, poolVars>>

-----------------------------------------------------------------------------
Call == loadFromCache \/ readLines \/ readGamesPgn \/ reset

OwnerStep ==
  \/ SkipBlank \/ GoOn \/ EnqueueGame \/ EnqueueLast \/ Notify
  \/ AwaitResults \/ StopNotify \/ DestroyPool \/ JoinThreads
  \/ OpenCache \/ saveToCache \/ NoCache

WorkerStep(w) ==
  \/ TakeGame(w) \/ FinishGame(w) \/ SleepWorker(w) \/ EndWorker(w)
  \/ ReadLine(w) \/ CountRoot(w) \/ AddMove(w)

Next == Call \/ Restart \/ OwnerStep \/ \E w \in Workers : WorkerStep(w) \/ WakeWorker(w)

Spec == Init /\ [][Next]_vars

(* Threads run, and a worker that is notified gets the mutex.  Nobody      *)
(* promises calls, restarts, or wakeups without a notification.            *)
FairSpec == Spec /\ WF_vars(OwnerStep) /\ \A w \in Workers : WF_vars(WorkerStep(w))

-----------------------------------------------------------------------------
(* What the file says, independently of how it is read: a PGN game begins  *)
(* with a tag that opens the file or follows a blank line.                 *)

GameBegins ==
  {i \in DOMAIN file.lines : file.lines[i].kind = "tag" /\ (i = 1 \/ file.lines[i - 1].kind = "blank")}

GameRanges ==
  {[first |-> b, last |-> Min({c \in GameBegins : c > b} \cup {Lines + 1}) - 1] : b \in GameBegins}

LineRanges == {[first |-> i, last |-> i] : i \in DOMAIN file.lines}

GameWords(r) == SelectSeq(Words(SubSeq(file.lines, r.first, r.last)), LAMBDA word : word # "result")

(* The position after the first n words, None if one of them is no move. *)
PositionAfter(words, n) ==
  LET at[i \in 0 .. n] ==
        IF i = 0 THEN Root
        ELSE IF at[i - 1] # None /\ words[i] \in DOMAIN After[at[i - 1]] THEN After[at[i - 1]][words[i]]
        ELSE None
  IN at[n]

(* A line of a SIMPLE file that begins with no move holds no game. *)
Counts(words) == words # <<>> /\ (file.format = "SIMPLE" => words[1] \in Moves)

(* How often the games of the file come to position k. *)
Visits(k) ==
  LET inGame(words) == Cardinality({n \in 0 .. Len(words) : PositionAfter(words, n) = k})
  IN MapThenSumSet(LAMBDA r : IF Counts(GameWords(r)) THEN inGame(GameWords(r)) ELSE 0,
                   IF file.format = "PGN" THEN GameRanges ELSE LineRanges)

(* Whatever the order in which the threads got the lock, wherever the book *)
(* comes from (the file, or a cache that an earlier process may have been  *)
(* writing when it ended): the book that initialize() leaves holds exactly *)
(* the positions of the games, with the number of times they occur.        *)
BookExact ==
  owner = "ready" => /\ DOMAIN bookMap = {k \in Key : k = Root \/ Visits(k) > 0}
                     /\ \A k \in DOMAIN bookMap : bookMap[k].counter = Visits(k)

-----------------------------------------------------------------------------
(* The two vectors of an entry go together, and tell of legal moves into   *)
(* entries of the book.                                                    *)
EdgesLegal(map) ==
  \A k \in DOMAIN map :
    /\ Len(map[k].moves) = Len(map[k].nextPosition)
    /\ \A i \in 1 .. Len(map[k].moves) :
         /\ map[k].moves[i] \in DOMAIN After[k]
         /\ map[k].nextPosition[i] = After[k][map[k].moves[i]]
         /\ map[k].nextPosition[i] \in DOMAIN map

Leads(map, p, i, k) == map[p].nextPosition[i] = k

(* Exactly one move of the book leads to an entry, that of the thread that *)
(* came first, and none to the root.                                       *)
OneWayIn(map) ==
  /\ \A k \in DOMAIN map \ {Root} : \E p \in DOMAIN map : \E i \in 1 .. Len(map[p].nextPosition) : Leads(map, p, i, k)
  /\ \A p, q \in DOMAIN map, k \in DOMAIN map :
       \A i \in 1 .. Len(map[p].nextPosition), j \in 1 .. Len(map[q].nextPosition) :
         Leads(map, p, i, k) /\ Leads(map, q, j, k) => k # Root /\ p = q /\ i = j

Children(S) == UNION {Range(bookMap[k].nextPosition) : k \in S}

Reached[n \in Nat] == IF n = 0 THEN {Root} ELSE Children(Reached[n - 1]) \cup {Root}

(* At any time, while several threads write to it, the book is a tree of   *)
(* legal moves below the start position: getRandomMove finds legal moves   *)
(* only, every entry can be played to, and getLevelStr comes to an end     *)
(* although the games transpose and return to positions.                   *)
BookIsTree ==
  bookMap # <<>> => EdgesLegal(bookMap) /\ OneWayIn(bookMap) /\ Reached[Cardinality(DOMAIN bookMap)] = DOMAIN bookMap

(* Once begun, initialize() comes to an end, by a return or an exception:  *)
(* the workers of the pool find the tasks, the owner its results, and stop *)
(* wakes everybody.                                                        *)
InitializeEnds ==
  owner \notin {"idle", "ready", "thrown"} ~> owner \in {"idle", "ready", "thrown"}

(* A comment in readGamesPgn: the last game ends with the last line of the *)
(* file.  So every task is a whole game, or empty (the first one).         *)
GamesAreWhole ==
  \A t \in DOMAIN results : results[t].first > results[t].last \/ results[t] \in GameRanges
=============================================================================
