------------------------- MODULE IterativeDeepening -------------------------
(***************************************************************************)
(* The search thread from the setup of a search to its result: the choice  *)
(* of a book move, iterativeDeepening(), aspirationSearch() and            *)
(* rootSearch(), with the root moves and the line of best moves that they  *)
(* share, and the time they earn.                                          *)
(*                                                                         *)
(* search() below the root is external (SearchNode models it): its value   *)
(* lies on the same side of the window as what the move is worth at that   *)
(* depth, and it is VALUE_NONE once the search is stopped.  The stop flag  *)
(* is raised from outside at any moment: by stop, the timer or the limit   *)
(* of nodes.                                                               *)
(***************************************************************************)
EXTENDS TimeControl, SearchValues, Sequences, FiniteSets

CONSTANTS
  Games,       \* the positions with their limits (see GameAssumption)
  DEPTH_MAX,   \* the deepest iteration
  MOVE_NONE

(***************************************************************************)
(* A game: moves are the legal root moves in the order of the generator;   *)
(* truth[d][m] is what m is worth at depth d; drawn are the moves after    *)
(* which the game is a draw by repetition or by the rule of 50 moves, and  *)
(* final those after whose expected reply the game is over; draw, check:   *)
(* of the root; book: the book knows the root; depth, mate: limits of go,  *)
(* 0 if absent.                                                            *)
(***************************************************************************)
Moves(g) == {g.moves[i] : i \in DOMAIN g.moves}

ASSUME GameAssumption ==
  \A g \in Games :
    /\ g.clock \in Clock
    /\ g.moves \in Seq(Moves(g))
    /\ g.depth \in 0 .. DEPTH_MAX
    /\ \A d \in 1 .. DEPTH_MAX, m \in Moves(g) :
         g.truth[d][m] \in VALUE_MIN + 1 .. VALUE_MAX - 1
    /\ \A d \in 1 .. DEPTH_MAX, m \in Moves(g) : m \in g.drawn => g.truth[d][m] = VALUE_DRAW
ASSUME IterationAssumption == DEPTH_MAX \in Nat \ {0}

VARIABLES
  game, pc, stopSearchFlag,
  rootMoves,       \* <<[move |-> m, value |-> v], ...>>
  pv,              \* pv[0]: its first move with its value, and whose line follows
  line,            \* pv[1]: the root move whose line it is, or MOVE_NONE if empty
  search,          \* depth, bestValue; the window and the attempt of the aspiration
  node,            \* locals of rootSearch: index, alpha, best, value
  timeLimit, extraTime, hadBookMove,
  result           \* move, value and, as the move it answers, the ponder move

boardVars == <<game, rootMoves, pv, line>>
clockVars == <<timeLimit, extraTime, hadBookMove>>
vars == <<game, pc, stopSearchFlag, rootMoves, pv, line, search, node, timeLimit,
          extraTime, hadBookMove, result>>

Least(a, b) == IF a < b THEN a ELSE b
Greatest(a, b) == IF a < b THEN b ELSE a

NoPv == [move |-> MOVE_NONE, value |-> VALUE_NONE, line |-> MOVE_NONE]
NoSearch == [depth |-> 0, bestValue |-> VALUE_NONE, alpha |-> VALUE_MIN, beta |-> VALUE_MAX,
             attempt |-> 0]
NoNode == [index |-> 0, alpha |-> VALUE_MIN, best |-> VALUE_NONE, value |-> VALUE_NONE]
NoResult == [move |-> MOVE_NONE, value |-> VALUE_NONE, ponder |-> MOVE_NONE]

Init ==
  /\ game \in Games
  /\ pc = "idle" /\ stopSearchFlag = TRUE
  /\ rootMoves = <<>> /\ pv = NoPv /\ line = MOVE_NONE
  /\ search = NoSearch /\ node = NoNode
  /\ timeLimit = 0 /\ extraTime = 0 /\ hadBookMove = FALSE
  /\ result = NoResult

-----------------------------------------------------------------------------
(* run(): the setup of a search.  hadBookMove is of the engine and stays. *)
StartSearch ==
  /\ pc \in {"idle", "done"}
  /\ game' \in Games
  /\ stopSearchFlag' = FALSE
  /\ timeLimit' = IF game'.clock.timeControl THEN setupTimeControl(game'.clock) ELSE 0
  /\ extraTime' = 0
  /\ rootMoves' = <<>> /\ pv' = NoPv /\ line' = MOVE_NONE
  /\ search' = NoSearch /\ node' = NoNode /\ result' = NoResult
  /\ pc' = "begin"
  /\ UNCHANGED hadBookMove

HasBookMove == game.book /\ game.clock.timeControl

PlayBook ==
  /\ pc = "begin" /\ HasBookMove
  /\ \E m \in Moves(game) : result' = [NoResult EXCEPT !.move = m]
  /\ hadBookMove' = TRUE
  /\ pc' = "done"
  /\ UNCHANGED <<boardVars, stopSearchFlag, search, node, timeLimit, extraTime>>

(* Nothing to search: a draw, a mate or a stalemate. *)
GameIsOver ==
  /\ pc = "begin" /\ ~HasBookMove
  /\ game.draw \/ game.moves = <<>>
  /\ result' = [NoResult EXCEPT !.value =
                  IF ~game.draw /\ game.check THEN -VALUE_CHECKMATE ELSE VALUE_DRAW]
  /\ pc' = "done"
  /\ UNCHANGED <<boardVars, stopSearchFlag, search, node, clockVars>>

(* The values the generator sorts by are all replaced before they are used. *)
BeginDeepening ==
  /\ pc = "begin" /\ ~HasBookMove
  /\ ~game.draw /\ game.moves # <<>>
  /\ rootMoves' = [i \in DOMAIN game.moves |-> [move |-> game.moves[i], value |-> VALUE_NONE]]
  /\ IF hadBookMove /\ AddsExtraTime(game.clock)
     THEN extraTime' = extraTime + BookBonus(timeLimit) /\ hadBookMove' = FALSE
     ELSE UNCHANGED <<extraTime, hadBookMove>>
  /\ pc' = "deepen"
  /\ UNCHANGED <<game, stopSearchFlag, pv, line, search, node, timeLimit, result>>

-----------------------------------------------------------------------------
(* The next iteration, with its first call of rootSearch(). *)
maxDepth == IF game.depth # 0 THEN game.depth ELSE DEPTH_MAX

Aspires(depth) == depth > 3

(* Attempt n of an iteration: a call of rootSearch() with this window. *)
Attempt(n, depth, lower, upper) ==
  /\ search' = [depth |-> depth, bestValue |-> search.bestValue,
                alpha |-> lower, beta |-> upper, attempt |-> n]
  /\ node' = [index |-> 1, alpha |-> lower, best |-> VALUE_NONE, value |-> VALUE_NONE]

Deepen ==
  /\ pc = "deepen" /\ search.depth < maxDepth
  /\ IF Aspires(search.depth + 1)
     THEN Attempt(1, search.depth + 1, Greatest(search.bestValue - 50, VALUE_MIN),
                                       Least(search.bestValue + 50, VALUE_MAX))
     ELSE Attempt(1, search.depth + 1, VALUE_MIN, VALUE_MAX)
  /\ pc' = "move"
  /\ UNCHANGED <<boardVars, stopSearchFlag, clockVars, result>>

DeepEnough ==
  /\ pc = "deepen" /\ search.depth = maxDepth
  /\ pc' = "finish"
  /\ UNCHANGED <<boardVars, stopSearchFlag, search, node, clockVars, result>>

-----------------------------------------------------------------------------
(* rootSearch(): the move loop. *)
Move == rootMoves[node.index].move

(* A search with this window may stop at the bound or go on to the truth. *)
FailSoft(truth, alpha, beta) ==
  {truth} \cup (IF truth <= alpha THEN {alpha} ELSE IF truth >= beta THEN {beta} ELSE {})

Searched(alpha, beta) ==
  /\ node' \in {[node EXCEPT !.value = v] :
                  v \in IF stopSearchFlag THEN {-VALUE_NONE}
                        ELSE FailSoft(game.truth[search.depth][Move], alpha, beta)}
  (* A child leaves its own line, none, or does not come to touch pv[1]. *)
  /\ line' \in {Move, MOVE_NONE, line}
  /\ UNCHANGED <<game, stopSearchFlag, rootMoves, pv, search, clockVars, result>>

DrawnMove ==
  /\ pc = "move" /\ Move \in game.drawn
  /\ node' = [node EXCEPT !.value = VALUE_DRAW]
  /\ pc' = "searched"
  /\ UNCHANGED <<boardVars, stopSearchFlag, search, clockVars, result>>

FullWindow ==
  /\ pc = "move" /\ Move \notin game.drawn /\ node.index = 1
  /\ Searched(node.alpha, search.beta)
  /\ pc' = "searched"

NullWindow ==
  /\ pc = "move" /\ Move \notin game.drawn /\ node.index > 1
  /\ Searched(node.alpha, node.alpha + 1)
  /\ pc' = "probed"

(* Seeded fault: a value just above alpha is taken for exact. *)
ImprovesWell == node.alpha + 1 < node.value /\ node.value < search.beta /\ ~stopSearchFlag

Improves == node.alpha < node.value /\ node.value < search.beta /\ ~stopSearchFlag

Research ==
  /\ pc = "probed" /\ Improves
  /\ pc' = "research"
  /\ UNCHANGED <<boardVars, stopSearchFlag, search, node, clockVars, result>>

FullWindowAgain ==
  /\ pc = "research"
  /\ Searched(node.alpha, search.beta)
  /\ pc' = "searched"

ProbeSuffices ==
  /\ pc = "probed" /\ ~Improves
  /\ pc' = "searched"
  /\ UNCHANGED <<boardVars, stopSearchFlag, search, node, clockVars, result>>

(* Seeded fault: the stop is left to the callers. *)
NeverStopped == FALSE

(* The stop check after a move: no result of a stopped search is stored, *)
(* except at depth 1.                                                    *)
Stopped == stopSearchFlag /\ search.depth > 1

StopRoot ==
  /\ pc = "searched" /\ Stopped
  /\ node' = [node EXCEPT !.value = VALUE_NONE]
  /\ pc' = "returned"
  /\ UNCHANGED <<boardVars, stopSearchFlag, search, clockVars, result>>

savePV == [move |-> Move, value |-> node.value, line |-> line]

IsBest == node.value > node.best
Cuts == IsBest /\ node.value > node.alpha /\ node.value >= search.beta

StoreMove ==
  /\ pc = "searched" /\ ~Stopped
  /\ rootMoves' = [rootMoves EXCEPT ![node.index].value = node.value]
  /\ pv' = IF IsBest THEN savePV ELSE pv
  /\ IF Cuts \/ node.index = Len(rootMoves)
     THEN /\ node' = [node EXCEPT !.value = IF IsBest THEN @ ELSE node.best]
          /\ pc' = "returned"
     ELSE /\ node' = [index |-> node.index + 1, value |-> VALUE_NONE,
                      alpha |-> Greatest(node.alpha, node.value),
                      best |-> Greatest(node.best, node.value)]
          /\ pc' = "move"
  /\ UNCHANGED <<game, stopSearchFlag, line, search, clockVars, result>>

-----------------------------------------------------------------------------
(* aspirationSearch(): at most two attempts; node.value is what rootSearch() *)
(* returned.                                                                 *)
FailsLow == node.value <= search.alpha
FailsHigh == node.value >= search.beta

Accept(value) ==
  /\ search' = [search EXCEPT !.bestValue = value]
  /\ pc' = "iterated"
  /\ UNCHANGED <<boardVars, stopSearchFlag, node, clockVars, result>>

InsideWindow ==
  /\ pc = "returned"
  /\ Aspires(search.depth) => ~FailsLow /\ ~FailsHigh
  /\ Accept(node.value)

StoppedOutside ==
  /\ pc = "returned" /\ Aspires(search.depth)
  /\ stopSearchFlag /\ (FailsLow \/ FailsHigh)
  /\ Accept(VALUE_NONE)

(* After a missed window: the second attempt, or the end of the loop. *)
Again(lower, upper) ==
  IF search.attempt = 1
  THEN /\ Attempt(2, search.depth, lower, upper)
       /\ pc' = "move"
  ELSE /\ search' = [search EXCEPT !.bestValue = node.value]
       /\ pc' = "iterated"
       /\ UNCHANGED node

FailLow ==
  /\ pc = "returned" /\ Aspires(search.depth)
  /\ ~stopSearchFlag /\ FailsLow
  /\ extraTime' = extraTime + IF AddsExtraTime(game.clock) THEN FailLowBonus(timeLimit) ELSE 0
  /\ Again(VALUE_MIN, search.beta)
  /\ UNCHANGED <<boardVars, stopSearchFlag, timeLimit, hadBookMove, result>>

FailHigh ==
  /\ pc = "returned" /\ Aspires(search.depth)
  /\ ~stopSearchFlag /\ FailsHigh /\ ~FailsLow
  /\ Again(search.alpha, Least(search.bestValue + 200, VALUE_MAX))
  /\ UNCHANGED <<boardVars, stopSearchFlag, clockVars, result>>

-----------------------------------------------------------------------------
(* The end of an iteration. *)
MateFound ==
  /\ game.mate # 0
  /\ pv.value >= VALUE_CHECKMATE_THRESHOLD \/ -pv.value >= VALUE_CHECKMATE_THRESHOLD
  /\ game.mate * 2 - 1 = VALUE_CHECKMATE - pv.value

StopDeepening ==
  /\ pc = "iterated"
  /\ MateFound \/ stopSearchFlag \/ Len(rootMoves) = 1
  /\ pc' = "finish"
  /\ UNCHANGED <<boardVars, stopSearchFlag, search, node, clockVars, result>>

(* Seeded fault: of equal values the later one comes first. *)
PrecedesUnstable(i, j) ==
  LET v == rootMoves[i].value
      w == rootMoves[j].value
  IN  v > w \/ (v = w /\ i > j)

(* std::stable_sort by the values, the greatest first. *)
Precedes(i, j) ==
  LET v == rootMoves[i].value
      w == rootMoves[j].value
  IN  v > w \/ (v = w /\ i < j)

SortRootMoves ==
  \E p \in [DOMAIN rootMoves -> DOMAIN rootMoves] :
    /\ \A i, j \in DOMAIN rootMoves : i < j => Precedes(p[i], p[j])
    /\ rootMoves' = [i \in DOMAIN rootMoves |-> rootMoves[p[i]]]

NextIteration ==
  /\ pc = "iterated"
  /\ ~MateFound /\ ~stopSearchFlag /\ Len(rootMoves) > 1
  /\ SortRootMoves
  /\ pc' = "deepen"
  /\ UNCHANGED <<game, stopSearchFlag, pv, line, search, node, clockVars, result>>

(* The result is the head of pv[0]; the ponder move is its second move or, *)
(* without one, what the hash table knows.  It is dropped when the game is *)
(* over after it, as it may be when it answers another move than the best. *)
Reply == IF pv.line # MOVE_NONE THEN {pv.line} ELSE {MOVE_NONE, pv.move}

Ponder(reply) ==
  CASE reply # pv.move                         -> {MOVE_NONE, reply}
    [] reply = pv.move /\ reply \in game.final -> {MOVE_NONE}
    [] OTHER                                   -> {reply}

Finish ==
  /\ pc = "finish"
  /\ \E reply \in Reply : \E ponder \in Ponder(reply) :
       result' = [move |-> pv.move, value |-> pv.value, ponder |-> ponder]
  /\ pc' = "done"
  /\ UNCHANGED <<boardVars, stopSearchFlag, search, node, clockVars>>

(* stopSearch(), the timer, or the limit of nodes in stopConditions(). *)
RaiseStop ==
  /\ pc \notin {"idle", "done"}
  /\ ~stopSearchFlag
  /\ stopSearchFlag' = TRUE
  /\ UNCHANGED <<boardVars, pc, search, node, clockVars, result>>

RootStep ==
  \/ DrawnMove \/ FullWindow \/ NullWindow
  \/ Research \/ FullWindowAgain \/ ProbeSuffices
  \/ StopRoot \/ StoreMove

AspirationStep == InsideWindow \/ StoppedOutside \/ FailLow \/ FailHigh

Next ==
  \/ StartSearch \/ PlayBook \/ GameIsOver \/ BeginDeepening
  \/ Deepen \/ DeepEnough \/ RootStep \/ AspirationStep
  \/ StopDeepening \/ NextIteration \/ Finish
  \/ RaiseStop

Spec == Init /\ [][Next]_vars

-----------------------------------------------------------------------------
RootLabels == {"move", "probed", "research", "searched"}
Labels == RootLabels \cup {"idle", "begin", "deepen", "returned", "iterated", "finish", "done"}

(* Where each variable ranges. *)
RootMove == Moves(game) \cup {MOVE_NONE}

ControlTyped == pc \in Labels /\ stopSearchFlag \in BOOLEAN

BoardTyped ==
  /\ game \in Games
  /\ rootMoves \in Seq([move : Moves(game), value : Int])
  /\ pv \in [move : RootMove, value : Int, line : RootMove]
  /\ line \in RootMove

SearchTyped ==
  /\ search \in [depth : 0 .. DEPTH_MAX, bestValue : Int, alpha : Int, beta : Int, attempt : 0 .. 2]
  /\ node \in [index : Nat, alpha : Int, best : Int, value : Int]

ClockTyped == timeLimit \in Nat /\ extraTime \in Nat /\ hadBookMove \in BOOLEAN

ResultTyped == result \in [move : RootMove, value : Int, ponder : RootMove]

TypeOK == ControlTyped /\ BoardTyped /\ SearchTyped /\ ClockTyped /\ ResultTyped

Truth(m) == game.truth[search.depth][m]

(***************************************************************************)
(* The assertions of iterativeDeepening(): an iteration that was not       *)
(* stopped returns the value of the head of pv[0], and after the sort this *)
(* is the first root move, with which the next iteration begins.  Root     *)
(* moves keep values of earlier attempts and iterations when rootSearch()  *)
(* returns early, and none of them may come first.                         *)
(***************************************************************************)
BestMoveIsFirst ==
  /\ pc = "iterated" /\ ~stopSearchFlag => search.bestValue = pv.value
  /\ pc = "deepen" /\ search.depth > 0 =>
       rootMoves[1] = [move |-> pv.move, value |-> pv.value]

(***************************************************************************)
(* A finished iteration has found the best move and its value, whatever    *)
(* windows were missed on the way (rootSearch, aspirationSearch); only     *)
(* when the second window is beaten too, the value is a lower bound.       *)
(***************************************************************************)
FinishedIsBest ==
  pc = "deepen" /\ search.depth > 0 =>
    IF pv.value < search.beta
    THEN /\ pv.value = Truth(pv.move)
         /\ \A i \in DOMAIN rootMoves : Truth(rootMoves[i].move) <= pv.value
    ELSE Truth(pv.move) >= pv.value

(***************************************************************************)
(* A search that is stopped in a later iteration, at any moment, answers   *)
(* with the best move of the iteration before or with a move that is       *)
(* really better (comment of rootSearch), and with a value a search can    *)
(* have.  The exception is a stop while the old best move fails low: then  *)
(* moves have been ranked by upper bounds only.                            *)
(***************************************************************************)
FailingLow(old) ==
  \/ Truth(old) <= search.alpha
  \/ search.attempt = 2 /\ search.alpha = VALUE_MIN /\ node.index = 1

StopKeepsBest ==
  pc = "finish" /\ search.depth > 1 =>
    LET old == rootMoves[1].move
    IN  /\ \/ pv.move = old
           \/ Truth(pv.move) > Truth(old)
           \/ FailingLow(old)
        /\ pv.value <= VALUE_MAX

(***************************************************************************)
(* Without increments, the time of one move never exceeds the clock, as    *)
(* long as the moves left to play allow for what the iterations can earn   *)
(* (setupTimeControl, addExtraTime): the limit counts once more after the  *)
(* book, a fail low earns three tenths of it, and an iteration has at most *)
(* one fail low.                                                           *)
(***************************************************************************)
Earning(depth) == IF depth > 3 THEN depth - 3 ELSE 0

ClockHolds ==
  (/\ game.clock.timeControl /\ game.clock.moveTime = 0 /\ game.clock.inc = 0
   /\ 9 * (20 + 3 * Earning(search.depth)) <= 100 * movesLeft(game.clock))
  => timeLimit + extraTime <= game.clock.time

(***************************************************************************)
(* A game that is over after the best move leaves nothing to ponder on     *)
(* (the comment in iterativeDeepening: "to avoid a ponder search on mate   *)
(* or draw position").                                                     *)
(***************************************************************************)
NoPonderOnDraw == result.ponder # MOVE_NONE => result.move \notin game.drawn
=============================================================================
