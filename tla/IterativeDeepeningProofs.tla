---------------------- MODULE IterativeDeepeningProofs ----------------------
(***************************************************************************)
(* That no search spends more than its clock holds (ClockHolds), for all   *)
(* games, clocks and depths.  The time earned in an iteration is bounded   *)
(* because its window fails low at most once: the second window has no     *)
(* lower end, and every value that rootSearch() returns from a search that *)
(* was not stopped lies above it.  The invariant says so step by step.     *)
(*                                                                         *)
(* And that iterations find the best move, keep it in front, and survive a *)
(* stop: BestInv says at every point of an unstopped iteration what the    *)
(* values found so far tell about the worth of the moves.                  *)
(***************************************************************************)
EXTENDS IterativeDeepening, FiniteSetTheorems, TLAPS

InLoop == pc \in RootLabels \cup {"returned"}

RootsOK ==
  /\ pc \in RootLabels \cup {"returned", "deepen", "iterated"} => Len(rootMoves) >= 1
  /\ InLoop => node.index \in 1 .. Len(rootMoves) /\ search.depth >= 1
  /\ pc \in {"idle", "begin"} => search.depth = 0 /\ extraTime = 0

(* The windows never reach below VALUE_MIN. *)
BoundsOK ==
  /\ pc = "iterated" => search.bestValue > VALUE_MIN \/ stopSearchFlag
  /\ pc = "deepen" /\ search.depth > 0 => search.bestValue > VALUE_MIN
  /\ InLoop => /\ search.alpha >= VALUE_MIN /\ node.alpha >= VALUE_MIN
               /\ search.beta > VALUE_MIN
               /\ Aspires(search.depth) => search.bestValue > VALUE_MIN

(* The values lie above it, unless the search was stopped. *)
ValuesOK ==
  /\ pc \in {"probed", "searched"} => node.value > VALUE_MIN
  /\ pc \in RootLabels => node.best > VALUE_MIN \/ (node.best = VALUE_NONE /\ node.index = 1)
  /\ pc = "returned" => node.value > VALUE_MIN \/ stopSearchFlag

(* An iteration that can still fail low has not earned anything yet. *)
Earned ==
  IF InLoop /\ Aspires(search.depth) /\ search.alpha # VALUE_MIN
  THEN search.depth - 4 ELSE Earning(search.depth)

EarnedOK ==
  /\ timeLimit \in {0, setupTimeControl(game.clock)}
  /\ extraTime <= timeLimit + FailLowBonus(timeLimit) * Earned

IInv == TypeOK /\ RootsOK /\ BoundsOK /\ ValuesOK /\ EarnedOK

(***************************************************************************)
(* What an unstopped iteration knows of the moves.  Values found are bounds *)
(* of what the moves are worth (Bound); the move of pv[0] is the first of   *)
(* those with the greatest value (Leader); and when a move is good enough   *)
(* to end the loop early, the moves behind it keep values of earlier        *)
(* searches that lie below the window (StaleOK).                            *)
(***************************************************************************)
ValueAt(i) == rootMoves[i].value
WorthAt(i) == Truth(rootMoves[i].move)

Bound(v, worth, alpha, beta) ==
  /\ v <= alpha => worth <= v
  /\ alpha < v /\ v < beta => worth = v
  /\ v >= beta => worth >= v

InRange(v) == VALUE_MIN < v /\ v < VALUE_MAX

Leader(f) ==
  /\ rootMoves[f] = [move |-> pv.move, value |-> pv.value]
  /\ \A j \in 1 .. f - 1 : ValueAt(j) < pv.value

FirstOfBest ==
  /\ \E f \in DOMAIN rootMoves : Leader(f)
  /\ \A j \in DOMAIN rootMoves : ValueAt(j) <= pv.value

IsBestMove ==
  IF pv.value < search.beta
  THEN /\ pv.value = Truth(pv.move)
       /\ \A j \in DOMAIN rootMoves : WorthAt(j) <= pv.value
  ELSE Truth(pv.move) >= pv.value

WindowOK ==
  ~stopSearchFlag /\ InLoop =>
    /\ VALUE_MIN <= search.alpha /\ search.alpha < search.beta /\ search.beta <= VALUE_MAX
    /\ Aspires(search.depth) => InRange(search.bestValue)
    /\ Aspires(search.depth) /\ search.attempt = 1 => search.beta = Least(search.bestValue + 50, VALUE_MAX)
    /\ ~Aspires(search.depth) => search.beta = VALUE_MAX
    /\ ~Aspires(search.depth) \/ search.attempt # 1 =>
         \E j \in DOMAIN rootMoves : WorthAt(j) > search.alpha

StaleOK ==
  ~stopSearchFlag /\ pc \in RootLabels =>
    \A i \in node.index .. Len(rootMoves) : WorthAt(i) >= search.beta =>
      \A j \in i + 1 .. Len(rootMoves) : ValueAt(j) < search.beta

LoopOK ==
  ~stopSearchFlag /\ pc \in RootLabels =>
    /\ node.alpha = Greatest(search.alpha, node.best)
    /\ node.alpha < search.beta
    /\ node.index = 1 => node.best = VALUE_NONE
    /\ \A j \in 1 .. node.index - 1 : WorthAt(j) <= ValueAt(j) /\ ValueAt(j) <= node.best
    /\ node.index > 1 =>
         /\ pv.value = node.best
         /\ pv.value > search.alpha => Truth(pv.move) = pv.value
         /\ \E f \in 1 .. node.index - 1 : Leader(f)

ChildOK ==
  ~stopSearchFlag =>
    /\ pc = "probed" => Bound(node.value, Truth(Move), node.alpha, node.alpha + 1)
    /\ pc = "searched" => /\ Bound(node.value, Truth(Move), node.alpha, search.beta)
                          /\ InRange(node.value)

(* Where the loop was left early, if it was. *)
CutAt(k) ==
  /\ WorthAt(k) >= search.beta
  /\ \A j \in 1 .. k - 1 : WorthAt(j) < search.beta
  /\ \A j \in k + 1 .. Len(rootMoves) : ValueAt(j) < search.beta

ReturnedOK ==
  ~stopSearchFlag /\ pc = "returned" =>
    /\ node.value = pv.value /\ InRange(pv.value) /\ FirstOfBest
    /\ pv.value < search.beta =>
         /\ \A j \in DOMAIN rootMoves : WorthAt(j) <= pv.value
         /\ pv.value > search.alpha => Truth(pv.move) = pv.value
    /\ pv.value >= search.beta =>
         /\ Truth(pv.move) >= pv.value
         /\ \E k \in DOMAIN rootMoves : CutAt(k)

IteratedOK ==
  ~stopSearchFlag /\ pc = "iterated" =>
    search.bestValue = pv.value /\ InRange(pv.value) /\ FirstOfBest /\ IsBestMove

DeepenOK ==
  pc = "deepen" /\ search.depth > 0 =>
    /\ search.bestValue = pv.value /\ InRange(pv.value) /\ IsBestMove
    /\ rootMoves[1] = [move |-> pv.move, value |-> pv.value]
    /\ \A j \in DOMAIN rootMoves : ValueAt(j) <= pv.value

(* What a stop in a later iteration would answer. *)
KeptOK ==
  pc \in RootLabels \cup {"returned", "iterated", "finish"} /\ search.depth > 1 =>
    /\ \/ pv.move = rootMoves[1].move
       \/ Truth(pv.move) > WorthAt(1)
       \/ FailingLow(rootMoves[1].move)
    /\ pv.value <= VALUE_MAX

BestInv ==
  WindowOK /\ StaleOK /\ LoopOK /\ ChildOK /\ ReturnedOK /\ IteratedOK /\ DeepenOK /\ KeptOK

-----------------------------------------------------------------------------
LEMMA GameFacts ==
  ASSUME NEW g \in Games
  PROVE  /\ g.clock \in Clock
         /\ g.moves \in Seq(Moves(g))
         /\ \A d \in 1 .. DEPTH_MAX, m \in Moves(g) :
              g.truth[d][m] \in VALUE_MIN + 1 .. VALUE_MAX - 1
BY GameAssumption

LEMMA ValueFacts ==
  /\ VALUE_NONE = -15001 /\ VALUE_MIN = -10000 /\ VALUE_MAX = 10000 /\ VALUE_DRAW = 0
  /\ VALUE_CHECKMATE = 10000
BY DEF VALUE_NONE, VALUE_MIN, VALUE_MAX, VALUE_DRAW, VALUE_CHECKMATE

LEMMA ElementOfSeq ==
  ASSUME NEW S, NEW s \in Seq(S), NEW i \in 1 .. Len(s)
  PROVE  i \in DOMAIN s /\ s[i] \in S
OBVIOUS

Valued(s, v) == [i \in DOMAIN s |-> [move |-> s[i], value |-> v]]

LEMMA ValuedSeq ==
  ASSUME NEW S, NEW s \in Seq(S), NEW v \in Int
  PROVE  Valued(s, v) \in Seq([move : S, value : Int]) /\ Len(Valued(s, v)) = Len(s)
<1> DEFINE R == [move : S, value : Int]
           r == Valued(s, v)
<1>1. \A i \in 1 .. Len(s) : s[i] \in S
  BY ElementOfSeq
<1>2. \A i \in 1 .. Len(s) : [move |-> s[i], value |-> v] \in R
  BY <1>1
<1>3. DOMAIN s = 1 .. Len(s) /\ Len(s) \in Nat
  OBVIOUS
<1>4. r \in [1 .. Len(s) -> R]
  BY <1>2, <1>3 DEF Valued
<1> HIDE DEF R, r
<1>5. r \in Seq(R) /\ Len(r) = Len(s)
  BY <1>3, <1>4
<1> QED BY <1>5 DEF R, r

(* What is searched (move loop of rootSearch) is a legal root move. *)
LEMMA MoveIsLegal ==
  ASSUME TypeOK, RootsOK, InLoop
  PROVE  Move \in Moves(game) /\ node.index \in DOMAIN rootMoves
<1>1. node.index \in 1 .. Len(rootMoves)
  BY DEF RootsOK
<1>2. rootMoves \in Seq([move : Moves(game), value : Int])
  BY DEF TypeOK, BoardTyped
<1>3. node.index \in DOMAIN rootMoves /\ rootMoves[node.index] \in [move : Moves(game), value : Int]
  BY <1>1, <1>2, ElementOfSeq
<1> QED BY <1>3 DEF Move

(* The value of a child lies in the range of values, or is that of a stop. *)
LEMMA ChildValue ==
  ASSUME TypeOK, RootsOK, InLoop, NEW alpha \in Int, NEW beta \in Int, beta > VALUE_MIN,
         Searched(alpha, beta)
  PROVE  /\ node' = [node EXCEPT !.value = node'.value]
         /\ node'.value \in Int /\ node'.value > VALUE_MIN
         /\ line' \in RootMove
<1> DEFINE t == game.truth[search.depth][Move]
           values == IF stopSearchFlag THEN {-VALUE_NONE} ELSE FailSoft(t, alpha, beta)
<1>1. t \in Int /\ t > VALUE_MIN
  <2>1. search.depth \in 1 .. DEPTH_MAX
    BY IterationAssumption DEF RootsOK, TypeOK, SearchTyped
  <2>2. t \in VALUE_MIN + 1 .. VALUE_MAX - 1
    BY <2>1, MoveIsLegal, GameFacts DEF TypeOK, BoardTyped
  <2> HIDE DEF t
  <2> QED BY <2>2, ValueFacts
<1> HIDE DEF t
<1>2. PICK v \in values : node' = [node EXCEPT !.value = v]
  BY DEF Searched, t
<1>3. v \in Int /\ v > VALUE_MIN
  <2>1. CASE stopSearchFlag
    BY <2>1, <1>2, ValueFacts
  <2>2. CASE ~stopSearchFlag
    <3>1. v \in FailSoft(t, alpha, beta)
      BY <1>2, <2>2
    <3>2. v = t \/ (t <= alpha /\ v = alpha) \/ (t >= beta /\ v = beta)
      BY <3>1 DEF FailSoft
    <3> QED BY <3>2, <1>1, ValueFacts
  <2> QED BY <2>1, <2>2
<1>4. node'.value = v
  BY <1>2 DEF TypeOK, SearchTyped
<1>5. line' \in RootMove
  BY MoveIsLegal DEF Searched, TypeOK, BoardTyped, RootMove
<1> QED BY <1>2, <1>3, <1>4, <1>5

-----------------------------------------------------------------------------
(***************************************************************************)
(* The time that is planned: setupTimeControl().                           *)
(***************************************************************************)
LEMMA QuotientBound ==
  ASSUME NEW a \in Nat, NEW b \in Nat, b >= 1
  PROVE  a \div b \in Nat /\ b * (a \div b) <= a
OBVIOUS

LEMMA ReducedBound ==
  ASSUME NEW ms \in Nat
  PROVE  Reduced(ms) \in Nat /\ 10 * Reduced(ms) <= 9 * ms
BY DEF Reduced

LEMMA MovesLeftPositive ==
  ASSUME NEW c \in Clock
  PROVE  movesLeft(c) \in Nat /\ movesLeft(c) >= 1
<1> DEFINE m == c.movesToGo
           p == c.phase
<1>1. m \in Nat /\ p \in Nat
  BY DEF Clock, GAME_PHASE_MAX
<1>2. (25 * p) \div 24 \in Nat
  BY <1>1
<1>3. movesLeft(c) = IF m # 0 THEN m ELSE 15 + (25 * p) \div 24
  BY DEF movesLeft, GAME_PHASE_MAX
<1> HIDE DEF m, p
<1> QED BY <1>1, <1>2, <1>3

(***************************************************************************)
(* The time planned for a move (setupTimeControl) is never negative; with  *)
(* a time per move it stays within it, and otherwise the moves it is       *)
(* planned for take, with a tenth to spare, no more than the player has    *)
(* and gets meanwhile.                                                     *)
(***************************************************************************)
THEOREM PlanFits ==
  ASSUME NEW c \in Clock
  PROVE  /\ setupTimeControl(c) \in Nat
         /\ c.moveTime # 0 => setupTimeControl(c) <= c.moveTime
         /\ c.moveTime = 0 =>
              10 * movesLeft(c) * setupTimeControl(c) <= 9 * (c.time + movesLeft(c) * c.inc)
<1> DEFINE n == movesLeft(c)
           total == c.time + n * c.inc
<1>1. c.moveTime \in Nat /\ c.time \in Nat /\ c.inc \in Nat
  BY DEF Clock
<1>2. n \in Nat /\ n >= 1
  BY MovesLeftPositive
<1>3. CASE c.moveTime # 0
  <2>1. setupTimeControl(c) = TimeForMove(c)
    BY <1>3 DEF setupTimeControl
  <2> DEFINE t == c.moveTime
  <2>2. TimeForMove(c) = IF t < 20 THEN t ELSE t - 20
    BY DEF TimeForMove
  <2>3. t \in Nat
    BY <1>1
  <2> HIDE DEF t
  <2>4. TimeForMove(c) \in Nat /\ TimeForMove(c) <= t
    BY <2>2, <2>3
  <2> QED BY <1>3, <2>1, <2>4 DEF t
<1>4. CASE c.moveTime = 0
  <2>1. setupTimeControl(c) = Reduced(total \div n)
    BY <1>4 DEF setupTimeControl, ShareOfClock
  <2>2. total \in Nat
    <3> DEFINE t == c.time
               i == c.inc
    <3>1. t \in Nat /\ i \in Nat
      BY <1>1
    <3> HIDE DEF t, i, n
    <3>2. n * i \in Nat
      BY <1>2, <3>1
    <3>3. t + n * i \in Nat
      BY <3>1, <3>2
    <3> QED BY <3>3 DEF t, i
  <2> HIDE DEF total, n
  <2> DEFINE q == total \div n
  <2>3. q \in Nat /\ n * q <= total
    BY <1>2, <2>2, QuotientBound
  <2> HIDE DEF q
  <2> DEFINE r == Reduced(q)
  <2>4. r \in Nat /\ 10 * r <= 9 * q
    BY <2>3, ReducedBound
  <2>5. setupTimeControl(c) = r
    BY <2>1 DEF q
  <2> HIDE DEF r
  <2>6. 10 * n * r <= 9 * total
    <3>1. n * (10 * r) <= n * (9 * q)
      BY <1>2, <2>3, <2>4
    <3>2. n * (10 * r) = 10 * n * r /\ n * (9 * q) = 9 * (n * q)
      BY <1>2, <2>3, <2>4
    <3>3. n * q \in Nat /\ 9 * (n * q) <= 9 * total
      BY <1>2, <2>2, <2>3
    <3>4. 10 * n * r \in Nat
      BY <1>2, <2>4
    <3> QED BY <2>2, <3>1, <3>2, <3>3, <3>4
  <2> QED BY <1>4, <2>4, <2>5, <2>6 DEF n, total
<1> QED BY <1>3, <1>4

-----------------------------------------------------------------------------
(* Type correctness. *)
LEMMA TypeInit == Init => TypeOK
<1> SUFFICES ASSUME Init PROVE TypeOK
  OBVIOUS
<1> USE DEF Init
<1>1. ControlTyped
  BY DEF ControlTyped, Labels
<1>2. BoardTyped
  BY ValueFacts DEF BoardTyped, NoPv, RootMove
<1>3. SearchTyped
  BY ValueFacts, IterationAssumption DEF SearchTyped, NoSearch, NoNode
<1>4. ClockTyped
  BY DEF ClockTyped
<1>5. ResultTyped
  BY ValueFacts DEF ResultTyped, NoResult, RootMove
<1> QED BY <1>1, <1>2, <1>3, <1>4, <1>5 DEF TypeOK

(* The parts that an action leaves alone. *)
LEMMA BoardKept == BoardTyped /\ UNCHANGED boardVars => BoardTyped'
BY DEF BoardTyped, boardVars, RootMove, Moves

LEMMA SearchKept == SearchTyped /\ UNCHANGED <<search, node>> => SearchTyped'
BY DEF SearchTyped

LEMMA ClockKept == ClockTyped /\ UNCHANGED clockVars => ClockTyped'
BY DEF ClockTyped, clockVars

LEMMA ResultKept == ResultTyped /\ UNCHANGED <<game, result>> => ResultTyped'
BY DEF ResultTyped, RootMove, Moves

LEMMA BonusIsNat ==
  ASSUME NEW n \in Nat
  PROVE  BookBonus(n) \in Nat /\ FailLowBonus(n) \in Nat
BY DEF BookBonus, FailLowBonus

(* The setup of a search and its early ends. *)
LEMMA TypeStart == TypeOK /\ StartSearch => TypeOK'
<1> SUFFICES ASSUME TypeOK, StartSearch PROVE TypeOK'
  OBVIOUS
<1>1. ControlTyped'
  BY DEF StartSearch, ControlTyped, Labels
<1>2. BoardTyped'
  BY ValueFacts DEF StartSearch, BoardTyped, NoPv, RootMove
<1>3. SearchTyped'
  BY ValueFacts, IterationAssumption DEF StartSearch, SearchTyped, NoSearch, NoNode
<1>4. ClockTyped'
  <2>1. game' \in Games
    BY DEF StartSearch
  <2>2. setupTimeControl(game'.clock) \in Nat
    BY <2>1, GameFacts, PlanFits
  <2>3. timeLimit' \in Nat /\ extraTime' = 0
    BY <2>2 DEF StartSearch
  <2>4. hadBookMove' \in BOOLEAN
    BY DEF StartSearch, TypeOK, ClockTyped
  <2> QED BY <2>3, <2>4 DEF ClockTyped
<1>5. ResultTyped'
  BY ValueFacts DEF StartSearch, ResultTyped, NoResult, RootMove
<1> QED BY <1>1, <1>2, <1>3, <1>4, <1>5 DEF TypeOK

LEMMA TypeBegin == TypeOK /\ (PlayBook \/ GameIsOver \/ BeginDeepening) => TypeOK'
<1>1. ASSUME TypeOK, PlayBook PROVE TypeOK'
  <2>1. ControlTyped'
    BY <1>1 DEF PlayBook, TypeOK, ControlTyped, Labels
  <2>2. BoardTyped'
    BY <1>1, BoardKept DEF PlayBook, TypeOK
  <2>3. SearchTyped'
    BY <1>1, SearchKept DEF PlayBook, TypeOK
  <2>4. ClockTyped'
    BY <1>1 DEF PlayBook, TypeOK, ClockTyped
  <2>5. ResultTyped'
    BY <1>1, ValueFacts DEF PlayBook, TypeOK, ResultTyped, NoResult, RootMove, boardVars, Moves
  <2> QED BY <2>1, <2>2, <2>3, <2>4, <2>5 DEF TypeOK
<1>2. ASSUME TypeOK, GameIsOver PROVE TypeOK'
  <2>1. ControlTyped'
    BY <1>2 DEF GameIsOver, TypeOK, ControlTyped, Labels
  <2>2. BoardTyped'
    BY <1>2, BoardKept DEF GameIsOver, TypeOK
  <2>3. SearchTyped'
    BY <1>2, SearchKept DEF GameIsOver, TypeOK
  <2>4. ClockTyped'
    BY <1>2, ClockKept DEF GameIsOver, TypeOK
  <2>5. ResultTyped'
    BY <1>2, ValueFacts DEF GameIsOver, TypeOK, ResultTyped, NoResult, RootMove, boardVars, Moves
  <2> QED BY <2>1, <2>2, <2>3, <2>4, <2>5 DEF TypeOK
<1>3. ASSUME TypeOK, BeginDeepening PROVE TypeOK'
  <2>1. ControlTyped'
    BY <1>3 DEF BeginDeepening, TypeOK, ControlTyped, Labels
  <2>2. BoardTyped'
    <3>1. game.moves \in Seq(Moves(game))
      BY <1>3, GameFacts DEF TypeOK, BoardTyped
    <3>2. rootMoves' \in Seq([move : Moves(game), value : Int])
      <4>1. rootMoves' = Valued(game.moves, VALUE_NONE)
        BY <1>3 DEF BeginDeepening, Valued
      <4>2. VALUE_NONE \in Int
        BY ValueFacts
      <4> QED BY <3>1, <4>1, <4>2, ValuedSeq
    <3> QED BY <1>3, <3>2 DEF BeginDeepening, TypeOK, BoardTyped, RootMove, Moves
  <2>3. SearchTyped'
    BY <1>3, SearchKept DEF BeginDeepening, TypeOK
  <2>4. ClockTyped'
    <3>1. timeLimit' \in Nat /\ extraTime' \in Nat
      <4>1. timeLimit \in Nat /\ extraTime \in Nat
        BY <1>3 DEF TypeOK, ClockTyped
      <4>2. timeLimit' = timeLimit /\ extraTime' \in {extraTime, extraTime + BookBonus(timeLimit)}
        BY <1>3 DEF BeginDeepening
      <4> QED BY <4>1, <4>2 DEF BookBonus
    <3>2. hadBookMove' \in BOOLEAN
      BY <1>3 DEF BeginDeepening, TypeOK, ClockTyped
    <3> QED BY <3>1, <3>2 DEF ClockTyped
  <2>5. ResultTyped'
    BY <1>3, ResultKept DEF BeginDeepening, TypeOK
  <2> QED BY <2>1, <2>2, <2>3, <2>4, <2>5 DEF TypeOK
<1> QED BY <1>1, <1>2, <1>3

LEMMA TypeFrame ==
  ASSUME TypeOK, UNCHANGED <<boardVars, clockVars, result>>, ControlTyped', SearchTyped'
  PROVE  TypeOK'
<1>1. BoardTyped'
  BY BoardKept DEF TypeOK
<1>2. ClockTyped'
  BY ClockKept DEF TypeOK
<1>3. ResultTyped'
  BY ResultKept DEF TypeOK, boardVars
<1> QED BY <1>1, <1>2, <1>3 DEF TypeOK

LEMMA TypeQuiet ==
  TypeOK /\ (DeepEnough \/ Research \/ ProbeSuffices \/ StopDeepening \/ RaiseStop) => TypeOK'
<1> SUFFICES ASSUME TypeOK, DeepEnough \/ Research \/ ProbeSuffices \/ StopDeepening \/ RaiseStop
             PROVE  TypeOK'
  OBVIOUS
<1> USE DEF DeepEnough, Research, ProbeSuffices, StopDeepening, RaiseStop
<1>1. UNCHANGED <<boardVars, clockVars, result, search, node>>
  OBVIOUS
<1>2. ControlTyped'
  BY DEF TypeOK, ControlTyped, Labels, RootLabels
<1>3. SearchTyped'
  BY <1>1, SearchKept DEF TypeOK
<1> QED BY <1>1, <1>2, <1>3, TypeFrame

LEMMA AttemptTyped ==
  ASSUME TypeOK, NEW n \in 0 .. 2, NEW depth \in 0 .. DEPTH_MAX, NEW lower \in Int, NEW upper \in Int,
         Attempt(n, depth, lower, upper)
  PROVE  SearchTyped'
<1>1. VALUE_NONE \in Int /\ search.bestValue \in Int
  BY ValueFacts DEF TypeOK, SearchTyped
<1>2. search' \in [depth : 0 .. DEPTH_MAX, bestValue : Int, alpha : Int, beta : Int, attempt : 0 .. 2]
  BY <1>1 DEF Attempt
<1>3. node' \in [index : Nat, alpha : Int, best : Int, value : Int]
  BY <1>1 DEF Attempt
<1> QED BY <1>2, <1>3 DEF SearchTyped

LEMMA TypeDeepen == TypeOK /\ Deepen => TypeOK'
<1> SUFFICES ASSUME TypeOK, Deepen PROVE TypeOK'
  OBVIOUS
<1>1. UNCHANGED <<boardVars, clockVars, result>>
  BY DEF Deepen
<1>2. ControlTyped'
  BY DEF Deepen, TypeOK, ControlTyped, Labels, RootLabels
<1>3. PICK lower \in Int, upper \in Int : Attempt(1, search.depth + 1, lower, upper)
  BY ValueFacts DEF Deepen, TypeOK, SearchTyped, Greatest, Least
<1>4. search.depth + 1 \in 0 .. DEPTH_MAX
  <2>1. search.depth \in Nat /\ search.depth < maxDepth
    BY DEF Deepen, TypeOK, SearchTyped
  <2>2. game.depth \in 0 .. DEPTH_MAX
    BY GameAssumption DEF TypeOK, BoardTyped
  <2>3. maxDepth \in Nat /\ maxDepth <= DEPTH_MAX
    BY <2>2, IterationAssumption DEF maxDepth
  <2> QED BY <2>1, <2>3, IterationAssumption
<1>5. SearchTyped'
  <2>1. 1 \in 0 .. 2
    OBVIOUS
  <2> QED BY <1>3, <1>4, <2>1, AttemptTyped
<1> QED BY <1>1, <1>2, <1>5, TypeFrame

LEMMA TypeSearched ==
  ASSUME TypeOK, RootsOK, BoundsOK, FullWindow \/ NullWindow \/ FullWindowAgain
  PROVE  TypeOK'
<1>1. PICK alpha \in Int, beta \in Int : beta > VALUE_MIN /\ Searched(alpha, beta)
  BY ValueFacts
  DEF FullWindow, NullWindow, FullWindowAgain, TypeOK, SearchTyped, BoundsOK, InLoop, RootLabels
<1>2. InLoop
  BY DEF FullWindow, NullWindow, FullWindowAgain, InLoop, RootLabels
<1>3. /\ node' = [node EXCEPT !.value = node'.value]
      /\ node'.value \in Int
      /\ line' \in RootMove
  BY <1>1, <1>2, ChildValue
<1>4. UNCHANGED <<game, stopSearchFlag, rootMoves, pv, search, clockVars, result>>
  BY <1>1 DEF Searched
<1>5. ControlTyped'
  BY <1>4 DEF FullWindow, NullWindow, FullWindowAgain, TypeOK, ControlTyped, Labels, RootLabels
<1>6. BoardTyped'
  BY <1>3, <1>4 DEF TypeOK, BoardTyped, RootMove, Moves
<1>7. SearchTyped'
  BY <1>3, <1>4 DEF TypeOK, SearchTyped
<1>8. ClockTyped' /\ ResultTyped'
  BY <1>4, ClockKept, ResultKept DEF TypeOK
<1> QED BY <1>5, <1>6, <1>7, <1>8 DEF TypeOK

LEMMA TypeNoValue == TypeOK /\ (DrawnMove \/ StopRoot) => TypeOK'
<1> SUFFICES ASSUME TypeOK, DrawnMove \/ StopRoot PROVE TypeOK'
  OBVIOUS
<1>1. UNCHANGED <<boardVars, clockVars, result>>
  BY DEF DrawnMove, StopRoot
<1>2. ControlTyped'
  BY DEF DrawnMove, StopRoot, TypeOK, ControlTyped, Labels, RootLabels
<1>3. SearchTyped'
  BY ValueFacts DEF DrawnMove, StopRoot, TypeOK, SearchTyped
<1> QED BY <1>1, <1>2, <1>3, TypeFrame

LEMMA RevaluedSeq ==
  ASSUME NEW S, NEW s \in Seq([move : S, value : Int]), NEW i \in 1 .. Len(s), NEW v \in Int
  PROVE  /\ [s EXCEPT ![i].value = v] \in Seq([move : S, value : Int])
         /\ Len([s EXCEPT ![i].value = v]) = Len(s)
<1> DEFINE R == [move : S, value : Int]
           e == [s[i] EXCEPT !.value = v]
<1>1. s[i] \in R
  BY ElementOfSeq
<1>2. e \in R
  BY <1>1
<1>3. [s EXCEPT ![i].value = v] = [s EXCEPT ![i] = e]
  OBVIOUS
<1> HIDE DEF R, e
<1>4. s \in Seq(R)
  BY DEF R
<1>5. [s EXCEPT ![i] = e] \in Seq(R) /\ Len([s EXCEPT ![i] = e]) = Len(s)
  BY <1>2, <1>4
<1> QED BY <1>3, <1>5 DEF R

LEMMA TypeStore == TypeOK /\ RootsOK /\ StoreMove => TypeOK'
<1> SUFFICES ASSUME TypeOK, RootsOK, StoreMove PROVE TypeOK'
  OBVIOUS
<1>1. InLoop
  BY DEF StoreMove, InLoop, RootLabels
<1>2. Move \in Moves(game) /\ node.index \in 1 .. Len(rootMoves)
  BY <1>1, MoveIsLegal DEF RootsOK
<1>3. node.index \in Nat /\ node.alpha \in Int /\ node.best \in Int /\ node.value \in Int
  BY DEF TypeOK, SearchTyped
<1>4. ControlTyped'
  BY DEF StoreMove, TypeOK, ControlTyped, Labels, RootLabels
<1>5. BoardTyped'
  <2>1. UNCHANGED <<game, line>>
    BY DEF StoreMove
  <2>2. rootMoves' \in Seq([move : Moves(game), value : Int])
    <3>1. rootMoves \in Seq([move : Moves(game), value : Int])
      BY DEF TypeOK, BoardTyped
    <3> QED BY <1>2, <1>3, <3>1, RevaluedSeq DEF StoreMove
  <2>3. pv' \in [move : RootMove, value : Int, line : RootMove]
    BY <1>2, <1>3 DEF StoreMove, savePV, TypeOK, BoardTyped, RootMove
  <2> QED BY <2>1, <2>2, <2>3 DEF TypeOK, BoardTyped, RootMove, Moves
<1>6. SearchTyped'
  <2>1. node' \in [index : Nat, alpha : Int, best : Int, value : Int]
    BY <1>3, ValueFacts DEF StoreMove, TypeOK, SearchTyped, Greatest
  <2>2. UNCHANGED search
    BY DEF StoreMove
  <2> QED BY <2>1, <2>2 DEF TypeOK, SearchTyped
<1>7. ClockTyped' /\ ResultTyped'
  BY ClockKept, ResultKept DEF StoreMove, TypeOK
<1> QED BY <1>4, <1>5, <1>6, <1>7 DEF TypeOK

LEMMA TypeAccept == TypeOK /\ (InsideWindow \/ StoppedOutside) => TypeOK'
<1> SUFFICES ASSUME TypeOK, InsideWindow \/ StoppedOutside PROVE TypeOK'
  OBVIOUS
<1>1. PICK value \in Int : Accept(value)
  BY ValueFacts DEF InsideWindow, StoppedOutside, TypeOK, SearchTyped
<1>2. UNCHANGED <<boardVars, clockVars, result>>
  BY <1>1 DEF Accept
<1>3. ControlTyped'
  BY <1>1 DEF Accept, TypeOK, ControlTyped, Labels
<1>4. SearchTyped'
  BY <1>1 DEF Accept, TypeOK, SearchTyped
<1> QED BY <1>2, <1>3, <1>4, TypeFrame

LEMMA TypeAgain ==
  ASSUME TypeOK, NEW lower \in Int, NEW upper \in Int, Again(lower, upper), UNCHANGED stopSearchFlag
  PROVE  ControlTyped' /\ SearchTyped'
<1>1. ControlTyped'
  BY DEF Again, TypeOK, ControlTyped, Labels, RootLabels
<1>2. CASE search.attempt = 1
  BY <1>1, <1>2, AttemptTyped DEF Again, TypeOK, SearchTyped
<1>3. CASE search.attempt # 1
  BY <1>1, <1>3 DEF Again, TypeOK, SearchTyped
<1> QED BY <1>2, <1>3

LEMMA TypeMissed == TypeOK /\ (FailLow \/ FailHigh) => TypeOK'
<1>1. ASSUME TypeOK, FailLow PROVE TypeOK'
  <2>1. ControlTyped' /\ SearchTyped'
    <3>1. VALUE_MIN \in Int /\ search.beta \in Int
      BY <1>1, ValueFacts DEF TypeOK, SearchTyped
    <3> QED BY <1>1, <3>1, TypeAgain DEF FailLow
  <2>2. BoardTyped'
    BY <1>1, BoardKept DEF FailLow, TypeOK
  <2>3. ClockTyped'
    <3>1. timeLimit \in Nat /\ extraTime \in Nat
      BY <1>1 DEF TypeOK, ClockTyped
    <3>2. timeLimit' = timeLimit /\ extraTime' \in {extraTime + 0, extraTime + FailLowBonus(timeLimit)}
      BY <1>1 DEF FailLow
    <3>3. timeLimit' \in Nat /\ extraTime' \in Nat
      BY <3>1, <3>2, BonusIsNat
    <3>4. hadBookMove' \in BOOLEAN
      BY <1>1 DEF FailLow, TypeOK, ClockTyped
    <3> QED BY <3>3, <3>4 DEF ClockTyped
  <2>4. ResultTyped'
    BY <1>1, ResultKept DEF FailLow, TypeOK, boardVars
  <2> QED BY <2>1, <2>2, <2>3, <2>4 DEF TypeOK
<1>2. ASSUME TypeOK, FailHigh PROVE TypeOK'
  <2>1. search.alpha \in Int /\ Least(search.bestValue + 200, VALUE_MAX) \in Int
    BY <1>2, ValueFacts DEF TypeOK, SearchTyped, Least
  <2>2. ControlTyped' /\ SearchTyped'
    BY <1>2, <2>1, TypeAgain DEF FailHigh
  <2> QED BY <1>2, <2>2, TypeFrame DEF FailHigh
<1> QED BY <1>1, <1>2

LEMMA PermutedSeq ==
  ASSUME NEW S, NEW s \in Seq(S), NEW p \in [DOMAIN s -> DOMAIN s]
  PROVE  /\ [i \in DOMAIN s |-> s[p[i]]] \in Seq(S)
         /\ Len([i \in DOMAIN s |-> s[p[i]]]) = Len(s)
<1>1. DOMAIN s = 1 .. Len(s) /\ Len(s) \in Nat
  OBVIOUS
<1>2. \A i \in 1 .. Len(s) : s[p[i]] \in S
  BY <1>1, ElementOfSeq
<1>3. [i \in DOMAIN s |-> s[p[i]]] \in [1 .. Len(s) -> S]
  BY <1>1, <1>2
<1> QED BY <1>1, <1>3

LEMMA RootsSorted ==
  ASSUME TypeOK, SortRootMoves
  PROVE  /\ rootMoves' \in Seq([move : Moves(game), value : Int])
         /\ Len(rootMoves') = Len(rootMoves)
<1>1. PICK p \in [DOMAIN rootMoves -> DOMAIN rootMoves] :
        rootMoves' = [i \in DOMAIN rootMoves |-> rootMoves[p[i]]]
  BY DEF SortRootMoves
<1>2. rootMoves \in Seq([move : Moves(game), value : Int])
  BY DEF TypeOK, BoardTyped
<1> QED BY <1>1, <1>2, PermutedSeq

LEMMA TypeSort == TypeOK /\ NextIteration => TypeOK'
<1> SUFFICES ASSUME TypeOK, NextIteration PROVE TypeOK'
  OBVIOUS
<1>1. ControlTyped'
  BY DEF NextIteration, TypeOK, ControlTyped, Labels
<1>2. BoardTyped'
  BY RootsSorted DEF NextIteration, TypeOK, BoardTyped, RootMove, Moves
<1>3. SearchTyped' /\ ClockTyped' /\ ResultTyped'
  BY SearchKept, ClockKept, ResultKept DEF NextIteration, TypeOK
<1> QED BY <1>1, <1>2, <1>3 DEF TypeOK

LEMMA TypeFinish == TypeOK /\ Finish => TypeOK'
<1> SUFFICES ASSUME TypeOK, Finish PROVE TypeOK'
  OBVIOUS
<1>1. ControlTyped'
  BY DEF Finish, TypeOK, ControlTyped, Labels
<1>2. BoardTyped' /\ SearchTyped' /\ ClockTyped'
  BY BoardKept, SearchKept, ClockKept DEF Finish, TypeOK
<1>3. pv.move \in RootMove /\ pv.value \in Int /\ pv.line \in RootMove
  BY DEF TypeOK, BoardTyped
<1>4. ResultTyped'
  <2>1. PICK reply \in Reply : \E ponder \in Ponder(reply) :
          result' = [move |-> pv.move, value |-> pv.value, ponder |-> ponder]
    BY DEF Finish
  <2>2. PICK ponder \in Ponder(reply) :
          result' = [move |-> pv.move, value |-> pv.value, ponder |-> ponder]
    BY <2>1
  <2>3. MOVE_NONE \in RootMove
    BY DEF RootMove
  <2>4. reply \in RootMove
    BY <1>3, <2>3 DEF Reply
  <2>5. ponder \in RootMove
    BY <2>3, <2>4 DEF Ponder
  <2>6. RootMove' = RootMove
    BY DEF Finish, boardVars, RootMove, Moves
  <2> QED BY <1>3, <2>2, <2>5, <2>6 DEF ResultTyped
<1> QED BY <1>1, <1>2, <1>4 DEF TypeOK

LEMMA TypeStep == IInv /\ [Next]_vars => TypeOK'
<1> SUFFICES ASSUME TypeOK, RootsOK, BoundsOK, [Next]_vars PROVE TypeOK'
  BY DEF IInv
<1>1. CASE Next
  BY <1>1, TypeStart, TypeBegin, TypeQuiet, TypeDeepen, TypeSearched, TypeNoValue, TypeStore,
     TypeAccept, TypeMissed, TypeSort, TypeFinish
  DEF Next, RootStep, AspirationStep
<1>2. CASE UNCHANGED vars
  <2>1. UNCHANGED <<boardVars, clockVars, result, pc, stopSearchFlag, search, node>>
    BY <1>2 DEF vars, boardVars, clockVars
  <2>2. ControlTyped'
    BY <2>1 DEF TypeOK, ControlTyped
  <2>3. SearchTyped'
    BY <2>1, SearchKept DEF TypeOK
  <2> QED BY <2>1, <2>2, <2>3, TypeFrame
<1> QED BY <1>1, <1>2

-----------------------------------------------------------------------------
(* The root moves that are left to search. *)
LEMMA RootsInit == Init => RootsOK
BY DEF Init, RootsOK, InLoop, RootLabels, NoSearch

LEMMA RootsStep == IInv /\ [Next]_vars => RootsOK'
<1> SUFFICES ASSUME TypeOK, RootsOK, [Next]_vars PROVE RootsOK'
  BY DEF IInv
<1> USE DEF RootLabels
<1>1. CASE StartSearch
  BY <1>1 DEF StartSearch, RootsOK, InLoop, NoSearch
<1>2. CASE PlayBook \/ GameIsOver
  BY <1>2 DEF PlayBook, GameIsOver, RootsOK, InLoop
<1>3. CASE BeginDeepening
  <2>1. game.moves \in Seq(Moves(game)) /\ game.moves # <<>>
    BY <1>3, GameFacts DEF BeginDeepening, TypeOK, BoardTyped
  <2>2. Len(game.moves) >= 1
    BY <2>1
  <2>3. rootMoves' = Valued(game.moves, VALUE_NONE)
    BY <1>3 DEF BeginDeepening, Valued
  <2>4. VALUE_NONE \in Int
    BY ValueFacts
  <2>5. Len(rootMoves') >= 1
    BY <2>1, <2>2, <2>3, <2>4, ValuedSeq
  <2> QED BY <1>3, <2>5 DEF BeginDeepening, RootsOK, InLoop
<1>4. CASE Deepen
  <2>1. PICK lower, upper : Attempt(1, search.depth + 1, lower, upper)
    BY <1>4 DEF Deepen
  <2>2. node'.index = 1 /\ search'.depth = search.depth + 1
    BY <2>1 DEF Attempt
  <2>3. Len(rootMoves) >= 1 /\ Len(rootMoves) \in Nat /\ rootMoves' = rootMoves
    BY <1>4 DEF Deepen, boardVars, RootsOK, TypeOK, BoardTyped
  <2>4. search.depth \in Nat
    BY DEF TypeOK, SearchTyped
  <2> QED BY <1>4, <2>2, <2>3, <2>4 DEF Deepen, RootsOK, InLoop
<1>5. CASE FullWindow \/ NullWindow \/ FullWindowAgain \/ DrawnMove \/ StopRoot
  <2>1. UNCHANGED <<rootMoves, search>> /\ node'.index = node.index
    <3>1. CASE DrawnMove \/ StopRoot
      BY <3>1 DEF DrawnMove, StopRoot, boardVars, TypeOK, SearchTyped
    <3>2. CASE FullWindow \/ NullWindow \/ FullWindowAgain
      <4>1. PICK alpha, beta : Searched(alpha, beta)
        BY <3>2 DEF FullWindow, NullWindow, FullWindowAgain
      <4>2. PICK v : node' = [node EXCEPT !.value = v]
        BY <4>1 DEF Searched
      <4> QED BY <4>1, <4>2 DEF Searched, TypeOK, SearchTyped
    <3> QED BY <1>5, <3>1, <3>2
  <2> QED BY <1>5, <2>1 DEF FullWindow, NullWindow, FullWindowAgain, DrawnMove, StopRoot, RootsOK, InLoop
<1>6. CASE StoreMove
  <2>1. node.index \in 1 .. Len(rootMoves) /\ search.depth >= 1 /\ Len(rootMoves) >= 1
    BY <1>6 DEF StoreMove, RootsOK, InLoop
  <2>2. rootMoves \in Seq([move : Moves(game), value : Int]) /\ node.value \in Int /\ node.index \in Nat
    BY DEF TypeOK, BoardTyped, SearchTyped
  <2>3. Len(rootMoves') = Len(rootMoves)
    BY <1>6, <2>1, <2>2, RevaluedSeq DEF StoreMove
  <2>4. node'.index \in 1 .. Len(rootMoves')
    <3>1. CASE Cuts \/ node.index = Len(rootMoves)
      BY <1>6, <2>1, <2>3, <3>1 DEF StoreMove, TypeOK, SearchTyped
    <3>2. CASE ~(Cuts \/ node.index = Len(rootMoves))
      <4>1. node'.index = node.index + 1
        BY <1>6, <3>2 DEF StoreMove
      <4>2. Len(rootMoves) \in Nat
        BY <2>2
      <4> QED BY <2>1, <2>2, <2>3, <3>2, <4>1, <4>2
    <3> QED BY <3>1, <3>2
  <2>5. pc' \in {"move", "returned"} /\ search' = search
    BY <1>6 DEF StoreMove
  <2> QED BY <2>1, <2>3, <2>4, <2>5 DEF RootsOK, InLoop
<1>7. CASE InsideWindow \/ StoppedOutside
  <2>1. PICK value : Accept(value)
    BY <1>7 DEF InsideWindow, StoppedOutside
  <2> QED BY <1>7, <2>1 DEF Accept, InsideWindow, StoppedOutside, boardVars, RootsOK, InLoop
<1>8. CASE FailLow \/ FailHigh
  <2>1. PICK lower, upper : Again(lower, upper)
    BY <1>8 DEF FailLow, FailHigh
  <2>2. pc = "returned" /\ rootMoves' = rootMoves
    BY <1>8 DEF FailLow, FailHigh, boardVars
  <2>3. Len(rootMoves) >= 1 /\ Len(rootMoves) \in Nat /\ search.depth >= 1
    BY <2>2 DEF RootsOK, InLoop, TypeOK, BoardTyped
  <2>4. CASE search.attempt = 1
    BY <2>1, <2>2, <2>3, <2>4 DEF Again, Attempt, RootsOK, InLoop
  <2>5. CASE search.attempt # 1
    BY <2>1, <2>2, <2>3, <2>5 DEF Again, RootsOK, InLoop
  <2> QED BY <2>4, <2>5
<1>9. CASE NextIteration
  <2>1. pc' = "deepen" /\ Len(rootMoves') = Len(rootMoves)
    BY <1>9, RootsSorted DEF NextIteration
  <2> QED BY <1>9, <2>1 DEF NextIteration, RootsOK, InLoop
<1>10. CASE DeepEnough \/ Research \/ ProbeSuffices \/ StopDeepening \/ Finish \/ RaiseStop
  BY <1>10 DEF DeepEnough, Research, ProbeSuffices, StopDeepening, Finish, RaiseStop, boardVars, clockVars,
     RootsOK, InLoop
<1>11. CASE UNCHANGED vars
  BY <1>11 DEF vars, RootsOK, InLoop
<1> QED BY <1>1, <1>2, <1>3, <1>4, <1>5, <1>6, <1>7, <1>8, <1>9, <1>10, <1>11
        DEF Next, RootStep, AspirationStep

-----------------------------------------------------------------------------
(* The windows. *)
LEMMA BoundsInit == Init => BoundsOK
BY DEF Init, BoundsOK, InLoop, RootLabels, NoSearch

LEMMA BoundsStep == IInv /\ [Next]_vars => BoundsOK'
<1> SUFFICES ASSUME TypeOK, RootsOK, BoundsOK, ValuesOK, [Next]_vars PROVE BoundsOK'
  BY DEF IInv
<1> USE DEF RootLabels
<1>0. /\ search.depth \in Nat /\ search.bestValue \in Int
      /\ search.alpha \in Int /\ search.beta \in Int
      /\ node.alpha \in Int /\ node.value \in Int
  BY DEF TypeOK, SearchTyped
<1>1. CASE StartSearch
  BY <1>1 DEF StartSearch, BoundsOK, InLoop
<1>2. CASE PlayBook \/ GameIsOver \/ DeepEnough \/ StopDeepening \/ Finish
  BY <1>2 DEF PlayBook, GameIsOver, DeepEnough, StopDeepening, Finish, BoundsOK, InLoop
<1>3. CASE BeginDeepening
  <2>1. search' = search /\ pc' = "deepen" /\ search.depth = 0
    BY <1>3 DEF BeginDeepening, RootsOK
  <2> QED BY <2>1 DEF BoundsOK, InLoop
<1>4. CASE Deepen
  <2>1. pc' = "move" /\ (Aspires(search.depth + 1) => search.bestValue > VALUE_MIN)
    BY <1>0, <1>4 DEF Deepen, BoundsOK, Aspires
  <2>2. PICK lower \in Int, upper \in Int :
          Attempt(1, search.depth + 1, lower, upper) /\ lower >= VALUE_MIN /\ upper > VALUE_MIN
    <3>1. CASE Aspires(search.depth + 1)
      <4>1. Greatest(search.bestValue - 50, VALUE_MIN) \in Int
            /\ Greatest(search.bestValue - 50, VALUE_MIN) >= VALUE_MIN
        BY <1>0, ValueFacts DEF Greatest
      <4>2. Least(search.bestValue + 50, VALUE_MAX) \in Int
            /\ Least(search.bestValue + 50, VALUE_MAX) > VALUE_MIN
        BY <1>0, <2>1, <3>1, ValueFacts DEF Least
      <4> QED BY <1>4, <3>1, <4>1, <4>2 DEF Deepen
    <3>2. CASE ~Aspires(search.depth + 1)
      BY <1>4, <3>2, ValueFacts DEF Deepen
    <3> QED BY <3>1, <3>2
  <2>3. /\ search'.alpha = lower /\ search'.beta = upper /\ node'.alpha = lower
        /\ search'.depth = search.depth + 1 /\ search'.bestValue = search.bestValue
    BY <2>2 DEF Attempt
  <2> QED BY <2>1, <2>2, <2>3 DEF BoundsOK, InLoop, Aspires
<1>5. CASE RootStep
  <2>1. search' = search /\ pc \in RootLabels /\ pc' \in RootLabels \cup {"returned"}
    BY <1>5
    DEF RootStep, DrawnMove, FullWindow, NullWindow, Research, FullWindowAgain, ProbeSuffices, StopRoot,
        StoreMove, Searched
  <2>2. node'.alpha >= VALUE_MIN
    <3>1. CASE StoreMove
      <4>1. node.alpha >= VALUE_MIN
        BY <2>1 DEF BoundsOK, InLoop
      <4>2. CASE Cuts \/ node.index = Len(rootMoves)
        BY <3>1, <4>1, <4>2 DEF StoreMove, TypeOK, SearchTyped
      <4>3. CASE ~(Cuts \/ node.index = Len(rootMoves))
        <5>1. node'.alpha = Greatest(node.alpha, node.value)
          BY <3>1, <4>3 DEF StoreMove
        <5> QED BY <1>0, <4>1, <5>1, ValueFacts DEF Greatest
      <4> QED BY <4>2, <4>3
    <3>2. CASE DrawnMove \/ StopRoot \/ Research \/ ProbeSuffices
      BY <2>1, <3>2
      DEF DrawnMove, StopRoot, Research, ProbeSuffices, TypeOK, SearchTyped, BoundsOK, InLoop
    <3>3. CASE FullWindow \/ NullWindow \/ FullWindowAgain
      <4>1. PICK v : node' = [node EXCEPT !.value = v]
        BY <3>3 DEF FullWindow, NullWindow, FullWindowAgain, Searched
      <4> QED BY <2>1, <4>1 DEF TypeOK, SearchTyped, BoundsOK, InLoop
    <3> QED BY <1>5, <3>1, <3>2, <3>3 DEF RootStep
  <2> QED BY <2>1, <2>2 DEF BoundsOK, InLoop
<1>6. CASE InsideWindow \/ StoppedOutside
  <2>1. pc = "returned" /\ pc' = "iterated" /\ stopSearchFlag' = stopSearchFlag
    BY <1>6 DEF InsideWindow, StoppedOutside, Accept
  <2>2. search'.bestValue = node.value \/ stopSearchFlag
    BY <1>6 DEF InsideWindow, StoppedOutside, Accept, TypeOK, SearchTyped
  <2>3. node.value > VALUE_MIN \/ stopSearchFlag
    BY <2>1 DEF ValuesOK
  <2> QED BY <2>1, <2>2, <2>3 DEF BoundsOK, InLoop
<1>7. CASE FailLow \/ FailHigh
  <2>1. pc = "returned" /\ Aspires(search.depth) /\ ~stopSearchFlag
    BY <1>7 DEF FailLow, FailHigh
  <2>2. /\ search.alpha >= VALUE_MIN /\ search.beta > VALUE_MIN /\ search.bestValue > VALUE_MIN
        /\ node.value > VALUE_MIN
    BY <2>1 DEF BoundsOK, InLoop, ValuesOK
  <2>3. PICK lower \in Int, upper \in Int :
          Again(lower, upper) /\ lower >= VALUE_MIN /\ upper > VALUE_MIN
    <3>1. Least(search.bestValue + 200, VALUE_MAX) \in Int
          /\ Least(search.bestValue + 200, VALUE_MAX) > VALUE_MIN
      BY <1>0, <2>2, ValueFacts DEF Least
    <3> QED BY <1>0, <1>7, <2>2, <3>1, ValueFacts DEF FailLow, FailHigh
  <2>4. CASE search.attempt = 1
    <3>1. /\ search'.alpha = lower /\ search'.beta = upper /\ node'.alpha = lower /\ pc' = "move"
          /\ search'.bestValue = search.bestValue
      BY <2>3, <2>4 DEF Again, Attempt
    <3> QED BY <2>2, <2>3, <3>1 DEF BoundsOK, InLoop
  <2>5. CASE search.attempt # 1
    <3>1. search'.bestValue = node.value /\ pc' = "iterated"
      BY <2>3, <2>5 DEF Again, TypeOK, SearchTyped
    <3> QED BY <2>2, <3>1 DEF BoundsOK, InLoop
  <2> QED BY <2>4, <2>5
<1>8. CASE NextIteration
  <2>1. pc = "iterated" /\ ~stopSearchFlag /\ search' = search /\ pc' = "deepen"
    BY <1>8 DEF NextIteration
  <2> QED BY <2>1 DEF BoundsOK, InLoop
<1>9. CASE RaiseStop
  <2>1. stopSearchFlag' = TRUE /\ UNCHANGED <<pc, search, node>>
    BY <1>9 DEF RaiseStop
  <2> QED BY <2>1 DEF BoundsOK, InLoop
<1>10. CASE UNCHANGED vars
  <2>1. UNCHANGED <<stopSearchFlag, pc, search, node>>
    BY <1>10 DEF vars
  <2> QED BY <2>1 DEF BoundsOK, InLoop
<1> QED BY <1>1, <1>2, <1>3, <1>4, <1>5, <1>6, <1>7, <1>8, <1>9, <1>10 DEF Next, AspirationStep
-----------------------------------------------------------------------------
(* The values. *)
LEMMA ValuesInit == Init => ValuesOK
BY DEF Init, ValuesOK, RootLabels

LEMMA ValuesStored ==
  ASSUME TypeOK, ValuesOK, StoreMove
  PROVE  ValuesOK'
<1> USE DEF RootLabels
<1>0. node.value \in Int /\ node.best \in Int /\ node.alpha \in Int /\ node.index \in Nat
  BY DEF TypeOK, SearchTyped
<1>1. node.value > VALUE_MIN /\ (node.best > VALUE_MIN \/ node.best = VALUE_NONE)
  BY DEF StoreMove, ValuesOK
<1>2. CASE Cuts \/ node.index = Len(rootMoves)
  <2>1. node' = [node EXCEPT !.value = IF IsBest THEN node.value ELSE node.best] /\ pc' = "returned"
    BY <1>2 DEF StoreMove
  <2>2. node'.value = IF IsBest THEN node.value ELSE node.best
    BY <2>1 DEF TypeOK, SearchTyped
  <2>3. ~IsBest => node.value <= node.best
    BY <1>0 DEF IsBest
  <2>4. node'.value > VALUE_MIN
    BY <1>0, <1>1, <2>2, <2>3, ValueFacts
  <2> QED BY <2>1, <2>4 DEF ValuesOK
<1>3. CASE ~(Cuts \/ node.index = Len(rootMoves))
  <2>1. node'.best = Greatest(node.best, node.value) /\ pc' = "move"
    BY <1>3 DEF StoreMove
  <2>2. node'.best > VALUE_MIN
    BY <1>0, <1>1, <2>1, ValueFacts DEF Greatest
  <2> QED BY <2>1, <2>2 DEF ValuesOK
<1> QED BY <1>2, <1>3

LEMMA ValuesStep == IInv /\ [Next]_vars => ValuesOK'
<1> SUFFICES ASSUME TypeOK, RootsOK, BoundsOK, ValuesOK, [Next]_vars PROVE ValuesOK'
  BY DEF IInv
<1> USE DEF RootLabels
<1>1. CASE \/ StartSearch \/ PlayBook \/ GameIsOver \/ BeginDeepening \/ DeepEnough
           \/ InsideWindow \/ StoppedOutside \/ StopDeepening \/ NextIteration \/ Finish
  BY <1>1 DEF StartSearch, PlayBook, GameIsOver, BeginDeepening, DeepEnough, InsideWindow, StoppedOutside,
              Accept, StopDeepening, NextIteration, Finish, ValuesOK
<1>2. CASE Deepen
  <2>1. PICK lower, upper : Attempt(1, search.depth + 1, lower, upper)
    BY <1>2 DEF Deepen
  <2>2. node'.best = VALUE_NONE /\ node'.index = 1 /\ pc' = "move"
    BY <1>2, <2>1 DEF Deepen, Attempt
  <2> QED BY <2>2 DEF ValuesOK
<1>3. CASE FullWindow \/ NullWindow \/ FullWindowAgain
  <2>1. InLoop
    BY <1>3 DEF FullWindow, NullWindow, FullWindowAgain, InLoop
  <2>2. PICK alpha \in Int, beta \in Int : beta > VALUE_MIN /\ Searched(alpha, beta)
    BY <1>3, <2>1, ValueFacts
    DEF FullWindow, NullWindow, FullWindowAgain, TypeOK, SearchTyped, BoundsOK
  <2>3. node' = [node EXCEPT !.value = node'.value] /\ node'.value > VALUE_MIN
    BY <2>1, <2>2, ChildValue
  <2>4. node'.best = node.best /\ node'.index = node.index
    BY <2>3 DEF TypeOK, SearchTyped
  <2>5. pc \in RootLabels /\ pc' \in {"probed", "searched"}
    BY <1>3 DEF FullWindow, NullWindow, FullWindowAgain
  <2> QED BY <2>3, <2>4, <2>5 DEF ValuesOK
<1>4. CASE DrawnMove
  <2>1. node' = [node EXCEPT !.value = VALUE_DRAW] /\ pc \in RootLabels /\ pc' = "searched"
    BY <1>4 DEF DrawnMove
  <2>2. node'.value > VALUE_MIN /\ node'.best = node.best /\ node'.index = node.index
    BY <2>1, ValueFacts DEF TypeOK, SearchTyped
  <2> QED BY <2>1, <2>2 DEF ValuesOK
<1>5. CASE StopRoot
  BY <1>5 DEF StopRoot, Stopped, ValuesOK
<1>6. CASE Research \/ ProbeSuffices
  BY <1>6 DEF Research, ProbeSuffices, ValuesOK
<1>7. CASE StoreMove
  BY <1>7, ValuesStored
<1>8. CASE FailLow \/ FailHigh
  <2>1. PICK lower, upper : Again(lower, upper)
    BY <1>8 DEF FailLow, FailHigh
  <2>2. CASE search.attempt = 1
    BY <2>1, <2>2 DEF Again, Attempt, ValuesOK
  <2>3. CASE search.attempt # 1
    BY <2>1, <2>3 DEF Again, ValuesOK
  <2> QED BY <2>2, <2>3
<1>9. CASE RaiseStop \/ UNCHANGED vars
  <2>1. UNCHANGED <<pc, node>> /\ (stopSearchFlag => stopSearchFlag')
    BY <1>9 DEF RaiseStop, vars
  <2> QED BY <2>1 DEF ValuesOK
<1> QED BY <1>1, <1>2, <1>3, <1>4, <1>5, <1>6, <1>7, <1>8, <1>9 DEF Next, RootStep, AspirationStep

-----------------------------------------------------------------------------
(* The time that has been earned. *)
LEMMA EarnedBounds ==
  ASSUME TypeOK
  PROVE  Earned \in Nat /\ Earned <= Earning(search.depth) /\ Earning(search.depth) \in Nat
<1>1. search.depth \in Nat
  BY DEF TypeOK, SearchTyped
<1> QED BY <1>1 DEF Earned, Earning, Aspires

LEMMA ProductGrows ==
  ASSUME NEW b \in Nat, NEW j \in Nat, NEW k \in Nat, j <= k
  PROVE  b * j <= b * k /\ b * j \in Nat /\ b * k \in Nat
OBVIOUS

LEMMA EarnedGrows ==
  ASSUME TypeOK, TypeOK', EarnedOK, UNCHANGED <<game, timeLimit, extraTime>>, Earned <= Earned'
  PROVE  EarnedOK'
<1>1. Earned \in Nat /\ Earned' \in Nat
  <2>1. search.depth \in Nat /\ search'.depth \in Nat
    BY DEF TypeOK, SearchTyped
  <2> QED BY <2>1 DEF Earned, Earning, Aspires
<1>2. timeLimit \in Nat /\ extraTime \in Nat /\ FailLowBonus(timeLimit) \in Nat
  BY BonusIsNat DEF TypeOK, ClockTyped
<1> DEFINE b == FailLowBonus(timeLimit)
           j == Earned
           k == Earned'
<1>3. extraTime <= timeLimit + b * j
  BY DEF EarnedOK
<1>4. j \in Nat /\ k \in Nat /\ b \in Nat /\ j <= k
  BY <1>1, <1>2
<1>5. FailLowBonus(timeLimit)' = b
  BY DEF FailLowBonus
<1> HIDE DEF b, j, k
<1>6. extraTime <= timeLimit + b * k
  BY <1>2, <1>3, <1>4, ProductGrows
<1>7. (extraTime <= timeLimit + FailLowBonus(timeLimit) * Earned)'
  BY <1>5, <1>6 DEF k
<1> QED BY <1>7 DEF EarnedOK

LEMMA EarnedInit == Init => EarnedOK
<1> SUFFICES ASSUME Init PROVE EarnedOK
  OBVIOUS
<1>1. timeLimit = 0 /\ extraTime = 0 /\ Earned \in Nat
  BY TypeInit, EarnedBounds DEF Init
<1>2. FailLowBonus(timeLimit) = 0
  BY <1>1 DEF FailLowBonus
<1>3. extraTime <= timeLimit + FailLowBonus(timeLimit) * Earned
  BY <1>1, <1>2
<1> QED BY <1>1, <1>3 DEF EarnedOK

LEMMA EarnedStep == IInv /\ [Next]_vars /\ TypeOK' => EarnedOK'
<1> SUFFICES ASSUME TypeOK, RootsOK, ValuesOK, EarnedOK, TypeOK', [Next]_vars PROVE EarnedOK'
  BY DEF IInv
<1> USE DEF RootLabels
<1>0. /\ search.depth \in Nat /\ search'.depth \in Nat
      /\ timeLimit \in Nat /\ extraTime \in Nat /\ FailLowBonus(timeLimit) \in Nat
  BY BonusIsNat DEF TypeOK, SearchTyped, ClockTyped
<1>1. CASE StartSearch
  <2>1. timeLimit' \in {0, setupTimeControl(game'.clock)} /\ extraTime' = 0
    BY <1>1 DEF StartSearch
  <2>2. Earned' = 0
    BY <1>1 DEF StartSearch, NoSearch, Earned, Earning, InLoop
  <2>3. timeLimit' \in Nat
    BY DEF TypeOK, ClockTyped
  <2>4. FailLowBonus(timeLimit') \in Nat
    BY <2>3, BonusIsNat
  <2>5. timeLimit' + FailLowBonus(timeLimit') * Earned' >= 0
    BY <2>2, <2>3, <2>4
  <2>6. (timeLimit \in {0, setupTimeControl(game.clock)})'
    BY <2>1
  <2>7. (extraTime <= timeLimit + FailLowBonus(timeLimit) * Earned)'
    BY <2>1, <2>5
  <2> QED BY <2>6, <2>7 DEF EarnedOK
<1>2. CASE BeginDeepening
  <2>1. extraTime = 0 /\ search.depth = 0
    BY <1>2 DEF BeginDeepening, RootsOK
  <2>2. UNCHANGED <<game, timeLimit, search>> /\ pc' = "deepen"
    BY <1>2 DEF BeginDeepening
  <2>3. extraTime' \in {extraTime, extraTime + BookBonus(timeLimit)}
    BY <1>2 DEF BeginDeepening
  <2>4. extraTime' <= timeLimit
    BY <1>0, <2>1, <2>3 DEF BookBonus
  <2>5. Earned' = 0
    BY <2>1, <2>2 DEF Earned, Earning, InLoop
  <2>6. extraTime' \in Nat
    BY DEF TypeOK, ClockTyped
  <2>7. FailLowBonus(timeLimit') = FailLowBonus(timeLimit)
    BY <2>2
  <2>8. (extraTime <= timeLimit + FailLowBonus(timeLimit) * Earned)'
    BY <1>0, <2>2, <2>4, <2>5, <2>6, <2>7
  <2>9. (timeLimit \in {0, setupTimeControl(game.clock)})'
    BY <2>2 DEF EarnedOK
  <2> QED BY <2>8, <2>9 DEF EarnedOK
<1>3. CASE Deepen
  <2>1. PICK lower, upper : Attempt(1, search.depth + 1, lower, upper)
    BY <1>3 DEF Deepen
  <2>2. search'.depth = search.depth + 1 /\ pc = "deepen"
    BY <1>3, <2>1 DEF Deepen, Attempt
  <2>3. Earned <= Earned'
    BY <1>0, <2>2 DEF Earned, Earning, Aspires, InLoop
  <2>4. UNCHANGED <<game, timeLimit, extraTime>>
    BY <1>3 DEF Deepen, boardVars, clockVars
  <2> QED BY <2>3, <2>4, EarnedGrows
<1>4. CASE \/ RootStep \/ PlayBook \/ GameIsOver \/ DeepEnough \/ StopDeepening \/ NextIteration
           \/ Finish \/ RaiseStop \/ UNCHANGED vars
  <2>1. UNCHANGED <<game, timeLimit, extraTime, search>>
    BY <1>4
    DEF RootStep, DrawnMove, FullWindow, NullWindow, Research, FullWindowAgain, ProbeSuffices, StopRoot,
        StoreMove, Searched, PlayBook, GameIsOver, DeepEnough, StopDeepening, NextIteration, Finish,
        RaiseStop, vars, boardVars, clockVars
  <2>2. InLoop' <=> InLoop
    BY <1>4
    DEF RootStep, DrawnMove, FullWindow, NullWindow, Research, FullWindowAgain, ProbeSuffices, StopRoot,
        StoreMove, Searched, PlayBook, GameIsOver, DeepEnough, StopDeepening, NextIteration, Finish,
        RaiseStop, vars, InLoop
  <2>3. Earned' = Earned
    BY <2>1, <2>2 DEF Earned
  <2>4. Earned <= Earned'
    BY <2>3, EarnedBounds
  <2> QED BY <2>1, <2>4, EarnedGrows
<1>5. CASE InsideWindow \/ StoppedOutside
  <2>1. PICK value : Accept(value)
    BY <1>5 DEF InsideWindow, StoppedOutside
  <2>2. search'.depth = search.depth /\ pc' = "iterated" /\ UNCHANGED <<game, timeLimit, extraTime>>
    BY <2>1 DEF Accept, boardVars, clockVars, TypeOK, SearchTyped
  <2>3. Earned' = Earning(search.depth)
    BY <2>2 DEF Earned, Earning, InLoop
  <2>4. Earned <= Earned'
    BY <2>3, EarnedBounds
  <2> QED BY <2>2, <2>4, EarnedGrows
<1>6. CASE FailHigh
  <2>1. PICK upper : Again(search.alpha, upper)
    BY <1>6 DEF FailHigh
  <2>2. UNCHANGED <<game, timeLimit, extraTime>> /\ pc = "returned"
    BY <1>6 DEF FailHigh, boardVars, clockVars
  <2>3. Earned <= Earned'
    <3>1. CASE search.attempt = 1
      <4>1. search'.depth = search.depth /\ search'.alpha = search.alpha /\ pc' = "move"
        BY <2>1, <3>1 DEF Again, Attempt
      <4>2. Earned' = Earned
        BY <2>2, <4>1 DEF Earned, InLoop
      <4> QED BY <4>2, EarnedBounds
    <3>2. CASE search.attempt # 1
      <4>1. search'.depth = search.depth /\ pc' = "iterated"
        BY <2>1, <3>2 DEF Again, TypeOK, SearchTyped
      <4>2. Earned' = Earning(search.depth)
        BY <4>1 DEF Earned, Earning, InLoop
      <4> QED BY <4>2, EarnedBounds
    <3> QED BY <3>1, <3>2
  <2> QED BY <2>2, <2>3, EarnedGrows
<1>7. CASE FailLow
  <2>1. pc = "returned" /\ Aspires(search.depth) /\ ~stopSearchFlag /\ node.value <= search.alpha
    BY <1>7 DEF FailLow, FailsLow
  <2>2. search.alpha # VALUE_MIN
    <3>1. node.value > VALUE_MIN
      BY <2>1 DEF ValuesOK
    <3>2. node.value \in Int /\ search.alpha \in Int
      BY DEF TypeOK, SearchTyped
    <3> QED BY <2>1, <3>1, <3>2, ValueFacts
  <2>3. Earned = search.depth - 4
    BY <2>1, <2>2 DEF Earned, InLoop
  <2>4. Earned' = search.depth - 3
    <3>1. Again(VALUE_MIN, search.beta)
      BY <1>7 DEF FailLow
    <3>2. search'.depth = search.depth /\ (search'.alpha = VALUE_MIN \/ pc' = "iterated")
      BY <3>1 DEF Again, Attempt, TypeOK, SearchTyped
    <3>3. search.depth > 3
      BY <2>1 DEF Aspires
    <3> QED BY <1>0, <3>2, <3>3 DEF Earned, Earning, InLoop
  <2> DEFINE b == FailLowBonus(timeLimit)
             k == Earned
  <2>5. b \in Nat /\ k \in Nat /\ Earned' = k + 1
    BY <1>0, <2>1, <2>3, <2>4 DEF Aspires
  <2>6. extraTime' <= extraTime + b
    BY <1>0, <1>7 DEF FailLow
  <2>7. extraTime <= timeLimit + b * k
    BY DEF EarnedOK
  <2>8. UNCHANGED <<game, timeLimit>> /\ FailLowBonus(timeLimit)' = b
    BY <1>7 DEF FailLow, boardVars, FailLowBonus
  <2>9. extraTime' \in Nat
    BY DEF TypeOK, ClockTyped
  <2> HIDE DEF b, k
  <2>10. b * (k + 1) = b * k + b /\ b * k \in Nat
    BY <2>5
  <2>11. extraTime' <= timeLimit + b * (k + 1)
    BY <1>0, <2>5, <2>6, <2>7, <2>9, <2>10
  <2>12. (extraTime <= timeLimit + FailLowBonus(timeLimit) * Earned)'
    BY <2>5, <2>8, <2>11
  <2>13. (timeLimit \in {0, setupTimeControl(game.clock)})'
    BY <2>8 DEF EarnedOK
  <2> QED BY <2>12, <2>13 DEF EarnedOK
<1> QED BY <1>1, <1>2, <1>3, <1>4, <1>5, <1>6, <1>7 DEF Next, AspirationStep

-----------------------------------------------------------------------------
LEMMA InvInit == Init => IInv
BY TypeInit, RootsInit, BoundsInit, ValuesInit, EarnedInit DEF IInv

LEMMA InvStep == IInv /\ [Next]_vars => IInv'
BY TypeStep, RootsStep, BoundsStep, ValuesStep, EarnedStep DEF IInv

(***************************************************************************)
(* Every variable of the search thread stays in its range: the root moves  *)
(* and the results are legal moves, the depth never passes DEPTH_MAX, and  *)
(* the time earned never gets negative (iterativeDeepening, rootSearch,    *)
(* aspirationSearch, addExtraTime).                                        *)
(***************************************************************************)
THEOREM TypeCorrect == Spec => []TypeOK
<1>1. IInv => TypeOK
  BY DEF IInv
<1> QED BY InvInit, InvStep, <1>1, PTL DEF Spec

LEMMA EarnedFits == IInv => ClockHolds
<1> SUFFICES ASSUME IInv,
                    game.clock.timeControl, game.clock.moveTime = 0, game.clock.inc = 0,
                    9 * (20 + 3 * Earning(search.depth)) <= 100 * movesLeft(game.clock)
             PROVE  timeLimit + extraTime <= game.clock.time
  BY DEF ClockHolds
<1> DEFINE n == movesLeft(game.clock)
           k == Earning(search.depth)
           t == game.clock.time
           b == FailLowBonus(timeLimit)
           x == timeLimit
<1>1. game.clock \in Clock
  BY GameFacts DEF IInv, TypeOK, BoardTyped
<1>2. n \in Nat /\ n >= 1 /\ t \in Nat
  BY <1>1, MovesLeftPositive DEF Clock
<1>3. k \in Nat /\ Earned \in Nat /\ Earned <= k
  BY EarnedBounds DEF IInv
<1>4. x \in Nat /\ extraTime \in Nat /\ b \in Nat
  BY BonusIsNat DEF IInv, TypeOK, ClockTyped
<1>5. 10 * b <= 3 * x
  BY <1>4 DEF FailLowBonus
<1>6. 10 * n * x <= 9 * t
  <2>1. CASE x = 0
    BY <1>2, <2>1
  <2>2. CASE x = setupTimeControl(game.clock)
    <3>1. 10 * n * x <= 9 * (t + n * game.clock.inc)
      BY <1>1, <2>2, PlanFits
    <3>2. n * game.clock.inc = 0
      BY <1>2
    <3> QED BY <1>2, <3>1, <3>2
  <2> QED BY <2>1, <2>2 DEF IInv, EarnedOK
<1>7. extraTime <= x + b * Earned
  BY DEF IInv, EarnedOK
<1>8. 9 * (20 + 3 * k) <= 100 * n
  OBVIOUS
<1> HIDE DEF n, k, t, b, x
<1>9. b * Earned \in Nat /\ b * k \in Nat /\ b * Earned <= b * k
  BY <1>3, <1>4, ProductGrows
<1>10. x + extraTime <= 2 * x + b * k
  BY <1>4, <1>7, <1>9
<1>11. 10 * (b * k) <= 3 * (x * k)
  <2>1. (10 * b) * k <= (3 * x) * k
    BY <1>3, <1>4, <1>5
  <2> QED BY <1>3, <1>4, <2>1
<1>12. x * k \in Nat /\ 10 * (x + extraTime) <= 20 * x + 3 * (x * k)
  BY <1>3, <1>4, <1>9, <1>10, <1>11
<1>13. 9 * (20 * x + 3 * (x * k)) <= 100 * (n * x)
  <2>1. x * (9 * (20 + 3 * k)) <= x * (100 * n)
    BY <1>2, <1>3, <1>4, <1>8
  <2>2. x * (9 * (20 + 3 * k)) = 9 * (20 * x + 3 * (x * k))
    BY <1>3, <1>4
  <2>3. x * (100 * n) = 100 * (n * x)
    BY <1>2, <1>4
  <2> QED BY <2>1, <2>2, <2>3
<1>14. n * x \in Nat /\ 10 * (n * x) <= 9 * t
  BY <1>2, <1>4, <1>6
<1>15. 90 * (x + extraTime) <= 90 * t
  BY <1>2, <1>4, <1>12, <1>13, <1>14
<1> QED BY <1>2, <1>4, <1>15 DEF x, t

(***************************************************************************)
(* Without increments no search plans to use more time than the clock has, *)
(* for every clock and every sequence of iterations, as long as the moves  *)
(* left to play allow for the fail lows (setupTimeControl, addExtraTime in *)
(* iterativeDeepening and aspirationSearch).                               *)
(***************************************************************************)
THEOREM ClockNeverOverdrawn == Spec => []ClockHolds
BY InvInit, InvStep, EarnedFits, PTL DEF Spec

-----------------------------------------------------------------------------
(* The best move of an iteration.                                          *)

(* What the root moves are worth at the depth of the iteration. *)
LEMMA RootFacts ==
  ASSUME TypeOK, search.depth >= 1
  PROVE  /\ DOMAIN rootMoves = 1 .. Len(rootMoves) /\ Len(rootMoves) \in Nat
         /\ \A i \in DOMAIN rootMoves :
              /\ rootMoves[i] \in [move : Moves(game), value : Int]
              /\ ValueAt(i) \in Int /\ WorthAt(i) \in Int /\ InRange(WorthAt(i))
<1>1. rootMoves \in Seq([move : Moves(game), value : Int])
  BY DEF TypeOK, BoardTyped
<1>2. search.depth \in 1 .. DEPTH_MAX /\ game \in Games
  BY IterationAssumption DEF TypeOK, SearchTyped, BoardTyped
<1>3. DOMAIN rootMoves = 1 .. Len(rootMoves) /\ Len(rootMoves) \in Nat
  BY <1>1
<1>4. ASSUME NEW i \in DOMAIN rootMoves
      PROVE  /\ rootMoves[i] \in [move : Moves(game), value : Int]
             /\ ValueAt(i) \in Int /\ WorthAt(i) \in Int /\ InRange(WorthAt(i))
  <2>1. rootMoves[i] \in [move : Moves(game), value : Int]
    BY <1>1, <1>3, ElementOfSeq
  <2>2. WorthAt(i) \in VALUE_MIN + 1 .. VALUE_MAX - 1
    BY <1>2, <2>1, GameFacts DEF WorthAt, Truth
  <2>3. ValueAt(i) \in Int
    BY <2>1 DEF ValueAt
  <2>4. \A w \in VALUE_MIN + 1 .. VALUE_MAX - 1 : w \in Int /\ InRange(w)
    BY ValueFacts DEF InRange
  <2> QED BY <2>1, <2>2, <2>3, <2>4
<1> QED BY <1>3, <1>4

(* The same after a step. *)
LEMMA RootFactsNext ==
  (TypeOK /\ search.depth >= 1 =>
     /\ DOMAIN rootMoves = 1 .. Len(rootMoves) /\ Len(rootMoves) \in Nat
     /\ \A i \in DOMAIN rootMoves :
          ValueAt(i) \in Int /\ WorthAt(i) \in Int /\ InRange(WorthAt(i)))'
<1>1. TypeOK /\ search.depth >= 1 =>
        /\ DOMAIN rootMoves = 1 .. Len(rootMoves) /\ Len(rootMoves) \in Nat
        /\ \A i \in DOMAIN rootMoves :
             ValueAt(i) \in Int /\ WorthAt(i) \in Int /\ InRange(WorthAt(i))
  BY RootFacts
<1> QED BY <1>1, PTL

(* The move being searched is one of them. *)
LEMMA MoveFacts ==
  ASSUME TypeOK, RootsOK, InLoop
  PROVE  /\ node.index \in DOMAIN rootMoves /\ node.index \in 1 .. Len(rootMoves)
         /\ Truth(Move) = WorthAt(node.index) /\ Truth(Move) \in Int /\ InRange(Truth(Move))
         /\ Move \in Moves(game) /\ Move = rootMoves[node.index].move
<1>1. search.depth >= 1 /\ node.index \in 1 .. Len(rootMoves)
  BY DEF RootsOK
<1> QED BY <1>1, RootFacts, MoveIsLegal DEF Move, WorthAt

LEMMA NumbersTyped ==
  ASSUME TypeOK
  PROVE  /\ search.depth \in Nat /\ search.attempt \in Int /\ search.bestValue \in Int
         /\ search.alpha \in Int /\ search.beta \in Int
         /\ node.index \in Nat /\ node.alpha \in Int /\ node.best \in Int /\ node.value \in Int
         /\ pv.value \in Int
BY DEF TypeOK, SearchTyped, BoardTyped

(* What is said of the moves does not change unless they do. *)
LEMMA SameMoves ==
  ASSUME UNCHANGED <<game, rootMoves, pv>>, search'.depth = search.depth
  PROVE  /\ \A j : WorthAt(j)' = WorthAt(j) /\ ValueAt(j)' = ValueAt(j)
         /\ \A j : Leader(j)' <=> Leader(j)
         /\ \A m : Truth(m)' = Truth(m)
         /\ FirstOfBest' <=> FirstOfBest
         /\ search'.beta = search.beta =>
              (IsBestMove' <=> IsBestMove) /\ \A k : CutAt(k)' <=> CutAt(k)
BY DEF WorthAt, ValueAt, Leader, Truth, FirstOfBest, IsBestMove, CutAt

LEMMA SameKept ==
  ASSUME KeptOK, UNCHANGED <<game, rootMoves, pv>>, search'.depth = search.depth,
         search'.alpha = search.alpha, search'.attempt = search.attempt,
         node'.index = node.index,
         pc \in RootLabels \cup {"returned", "iterated", "finish"}
  PROVE  KeptOK'
<1>1. \A m : FailingLow(m)' <=> FailingLow(m)
  BY SameMoves DEF FailingLow
<1> QED BY <1>1, SameMoves DEF KeptOK

(* Outside of the iterations there is nothing to say, *)
LEMMA BestOutside ==
  ASSUME pc' \in {"idle", "begin", "done"}
  PROVE  BestInv'
BY DEF BestInv, WindowOK, StaleOK, LoopOK, ChildOK, ReturnedOK, IteratedOK, DeepenOK, KeptOK,
       InLoop, RootLabels

(* and once stopped, or at the end of them, only what a stop answers. *)
LEMMA BestStopped ==
  ASSUME stopSearchFlag' \/ pc' = "finish", DeepenOK', KeptOK'
  PROVE  BestInv'
BY DEF BestInv, WindowOK, StaleOK, LoopOK, ChildOK, ReturnedOK, IteratedOK,
       InLoop, RootLabels

(* Steps inside the loop that compute a value and store nothing. *)
LEMMA BestWhileSearching ==
  ASSUME BestInv, UNCHANGED <<game, stopSearchFlag, rootMoves, pv, search>>,
         pc \in RootLabels, pc' \in RootLabels,
         node'.index = node.index, node'.alpha = node.alpha, node'.best = node.best,
         ChildOK'
  PROVE  BestInv'
<1> USE SameMoves
<1>1. WindowOK'
  BY DEF BestInv, WindowOK, InLoop
<1>2. StaleOK'
  BY DEF BestInv, StaleOK
<1>3. LoopOK'
  BY DEF BestInv, LoopOK
<1>4. ReturnedOK' /\ IteratedOK' /\ DeepenOK'
  BY DEF ReturnedOK, IteratedOK, DeepenOK, RootLabels
<1>5. KeptOK'
  BY SameKept DEF BestInv
<1> QED BY <1>1, <1>2, <1>3, <1>4, <1>5 DEF BestInv

(* What a search below the root says of its move (external: search()). *)
LEMMA FailSoftBounds ==
  ASSUME NEW t \in Int, NEW alpha \in Int, NEW beta \in Int, alpha < beta,
         NEW v \in FailSoft(t, alpha, beta)
  PROVE  /\ v \in Int /\ Bound(v, t, alpha, beta)
         /\ InRange(t) /\ VALUE_MIN <= alpha /\ beta <= VALUE_MAX => InRange(v)
BY ValueFacts DEF FailSoft, Bound, InRange

(* The window is open while the loop goes on. *)
LEMMA OpenWindow ==
  ASSUME IInv, BestInv, pc \in RootLabels, ~stopSearchFlag
  PROVE  /\ VALUE_MIN <= node.alpha /\ node.alpha < search.beta /\ search.beta <= VALUE_MAX
         /\ search.alpha <= node.alpha /\ node.best <= node.alpha
         /\ node.alpha = search.alpha \/ node.alpha = node.best
<1>1. InLoop
  BY DEF InLoop
<1>2. VALUE_MIN <= search.alpha /\ search.beta <= VALUE_MAX
  BY <1>1 DEF BestInv, WindowOK
<1>3. node.alpha = Greatest(search.alpha, node.best) /\ node.alpha < search.beta
  BY DEF BestInv, LoopOK
<1>4. TypeOK
  BY DEF IInv
<1> QED BY <1>2, <1>3, <1>4, NumbersTyped, ValueFacts DEF Greatest

LEMMA SearchedBounds ==
  ASSUME IInv, BestInv, pc \in RootLabels, ~stopSearchFlag,
         NEW beta \in Int, node.alpha < beta, Searched(node.alpha, beta)
  PROVE  /\ Bound(node'.value, Truth(Move), node.alpha, beta)
         /\ beta <= VALUE_MAX => InRange(node'.value)
<1>1. InLoop /\ TypeOK /\ RootsOK
  BY DEF InLoop, IInv
<1>2. Truth(Move) \in Int /\ InRange(Truth(Move))
  BY <1>1, MoveFacts
<1>3. node'.value \in FailSoft(Truth(Move), node.alpha, beta)
  BY <1>1 DEF Searched, Truth, TypeOK, SearchTyped
<1>4. VALUE_MIN <= node.alpha /\ node.alpha \in Int
  BY <1>1, OpenWindow, NumbersTyped
<1> QED BY <1>2, <1>3, <1>4, FailSoftBounds

LEMMA BestSearched ==
  ASSUME IInv, BestInv,
         DrawnMove \/ FullWindow \/ NullWindow \/ Research \/ FullWindowAgain \/ ProbeSuffices
  PROVE  BestInv'
<1>1. TypeOK /\ RootsOK /\ ValuesOK
  BY DEF IInv
<1>2. /\ pc \in RootLabels /\ pc' \in RootLabels /\ InLoop
      /\ UNCHANGED <<game, stopSearchFlag, rootMoves, pv, search>>
      /\ node'.index = node.index /\ node'.alpha = node.alpha /\ node'.best = node.best
  BY <1>1 DEF DrawnMove, FullWindow, NullWindow, Research, FullWindowAgain, ProbeSuffices,
       Searched, RootLabels, InLoop, boardVars, TypeOK, SearchTyped
<1>3. Truth(Move)' = Truth(Move) /\ Truth(Move) \in Int /\ InRange(Truth(Move))
  BY <1>1, <1>2, MoveFacts DEF Truth, Move
<1>4. ASSUME ~stopSearchFlag' PROVE ChildOK'
  <2>1. ~stopSearchFlag
    BY <1>2, <1>4
  <2>2. /\ VALUE_MIN <= node.alpha /\ node.alpha < search.beta /\ search.beta <= VALUE_MAX
    BY <1>2, <2>1, OpenWindow
  <2>3. node.alpha \in Int /\ search.beta \in Int /\ node.value \in Int
    BY <1>1, NumbersTyped
  <2>4. CASE DrawnMove
    <3>1. Truth(Move) = VALUE_DRAW
      <4>1. search.depth \in 1 .. DEPTH_MAX /\ game \in Games
        BY <1>1, <1>2, IterationAssumption DEF RootsOK, TypeOK, SearchTyped, BoardTyped
      <4>2. Move \in Moves(game) /\ Move \in game.drawn
        BY <1>1, <1>2, <2>4, MoveFacts DEF DrawnMove
      <4> QED BY <4>1, <4>2, GameAssumption DEF Truth
    <3>2. node'.value = VALUE_DRAW /\ pc' = "searched"
      BY <1>1, <2>4 DEF DrawnMove, TypeOK, SearchTyped
    <3>3. Bound(VALUE_DRAW, VALUE_DRAW, node.alpha, search.beta)
      BY <2>3, ValueFacts DEF Bound
    <3> QED BY <1>2, <1>3, <3>1, <3>2, <3>3 DEF ChildOK
  <2>5. CASE FullWindow \/ FullWindowAgain
    <3>1. Searched(node.alpha, search.beta) /\ pc' = "searched"
      BY <2>5 DEF FullWindow, FullWindowAgain
    <3>2. Bound(node'.value, Truth(Move), node.alpha, search.beta) /\ InRange(node'.value)
      BY <1>2, <2>1, <2>2, <2>3, <3>1, SearchedBounds
    <3> QED BY <1>2, <1>3, <3>1, <3>2 DEF ChildOK
  <2>6. CASE NullWindow
    <3>1. Searched(node.alpha, node.alpha + 1) /\ pc' = "probed"
      BY <2>6 DEF NullWindow
    <3>2. Bound(node'.value, Truth(Move), node.alpha, node.alpha + 1)
      BY <1>2, <2>1, <2>3, <3>1, SearchedBounds
    <3> QED BY <1>2, <1>3, <3>1, <3>2 DEF ChildOK
  <2>7. CASE Research
    BY <2>7 DEF Research, ChildOK
  <2>8. CASE ProbeSuffices
    <3>1. pc = "probed" /\ pc' = "searched" /\ node' = node /\ ~Improves
      BY <2>8 DEF ProbeSuffices
    <3>2. Bound(node.value, Truth(Move), node.alpha, node.alpha + 1)
      BY <2>1, <3>1 DEF BestInv, ChildOK
    <3>3. node.value <= node.alpha \/ node.value >= search.beta
      BY <2>1, <2>3, <3>1 DEF Improves
    <3>4. node.value > VALUE_MIN
      BY <1>1, <3>1 DEF ValuesOK
    <3>5. Bound(node.value, Truth(Move), node.alpha, search.beta) /\ InRange(node.value)
      BY <1>3, <2>2, <2>3, <3>2, <3>3, <3>4, ValueFacts DEF Bound, InRange
    <3> QED BY <1>2, <1>3, <3>1, <3>5 DEF ChildOK
  <2> QED BY <2>4, <2>5, <2>6, <2>7, <2>8
<1>5. ChildOK'
  BY <1>4 DEF ChildOK
<1> QED BY <1>2, <1>5, BestWhileSearching

(* A new attempt begins before the first root move. *)
LEMMA FirstMove ==
  ASSUME TypeOK, TypeOK', IInv', NEW n, NEW depth \in Nat, NEW lower \in Int, NEW upper \in Int,
         Attempt(n, depth, lower, upper), VALUE_MIN <= lower, lower < upper,
         pc' = "move", UNCHANGED <<game, rootMoves, pv>>,
         WindowOK', StaleOK', KeptOK'
  PROVE  BestInv'
<1>1. /\ node'.index = 1 /\ node'.alpha = lower /\ node'.best = VALUE_NONE
      /\ search'.alpha = lower /\ search'.beta = upper
  BY DEF Attempt, TypeOK, SearchTyped
<1>2. LoopOK'
  <2>1. lower = Greatest(lower, VALUE_NONE)
    BY ValueFacts DEF Greatest
  <2> QED BY <1>1, <2>1 DEF LoopOK
<1>3. ChildOK' /\ ReturnedOK' /\ IteratedOK' /\ DeepenOK'
  BY DEF ChildOK, ReturnedOK, IteratedOK, DeepenOK
<1> QED BY <1>2, <1>3 DEF BestInv

LEMMA BestDeepen == IInv /\ IInv' /\ BestInv /\ Deepen => BestInv'
<1> SUFFICES ASSUME IInv, IInv', BestInv, Deepen PROVE BestInv'
  OBVIOUS
<1> DEFINE depth == search.depth + 1
           bv == search.bestValue
           lower == IF Aspires(depth) THEN Greatest(bv - 50, VALUE_MIN) ELSE VALUE_MIN
           upper == IF Aspires(depth) THEN Least(bv + 50, VALUE_MAX) ELSE VALUE_MAX
<1>1. TypeOK /\ TypeOK' /\ RootsOK /\ RootsOK'
  BY DEF IInv
<1>2. /\ pc = "deepen" /\ pc' = "move" /\ Attempt(1, depth, lower, upper)
      /\ UNCHANGED <<game, rootMoves, pv>>
  BY DEF Deepen, boardVars
<1>3. depth \in Nat /\ search.depth \in Nat /\ bv \in Int
  BY <1>1, NumbersTyped
<1>4. search.depth > 0 =>
        /\ bv = pv.value /\ InRange(bv) /\ rootMoves[1].move = pv.move
        /\ \A j \in DOMAIN rootMoves : ValueAt(j) <= bv
  BY <1>2 DEF BestInv, DeepenOK
<1>5. Aspires(depth) => InRange(bv) /\ \A j \in DOMAIN rootMoves : ValueAt(j) <= bv
  BY <1>3, <1>4 DEF Aspires
<1>6. lower \in Int /\ upper \in Int /\ VALUE_MIN <= lower /\ lower < upper /\ upper <= VALUE_MAX
  BY <1>3, <1>5, ValueFacts DEF Greatest, Least, InRange
<1>7. /\ search'.depth = depth /\ search'.bestValue = bv /\ search'.attempt = 1
      /\ search'.alpha = lower /\ search'.beta = upper /\ node'.index = 1
  BY <1>2 DEF Attempt
<1>8. /\ DOMAIN rootMoves = 1 .. Len(rootMoves) /\ Len(rootMoves) \in Nat /\ 1 <= Len(rootMoves)
      /\ \A j \in DOMAIN rootMoves :
           ValueAt(j)' = ValueAt(j) /\ ValueAt(j) \in Int
           /\ WorthAt(j)' \in Int /\ VALUE_MIN < WorthAt(j)' /\ WorthAt(j)' < VALUE_MAX
  <2>1. search'.depth >= 1
    BY <1>3, <1>7
  <2>2. /\ (DOMAIN rootMoves)' = 1 .. Len(rootMoves)' /\ Len(rootMoves)' \in Nat
        /\ \A i \in (DOMAIN rootMoves)' :
             ValueAt(i)' \in Int /\ WorthAt(i)' \in Int /\ InRange(WorthAt(i)')
    BY <1>1, <2>1, RootFactsNext DEF InRange
  <2>3. 1 <= Len(rootMoves)
    BY <1>1, <1>2 DEF RootsOK
  <2> QED BY <1>2, <2>2, <2>3 DEF ValueAt, InRange
<1>9. WindowOK'
  <2>1. Aspires(depth) => upper = Least(bv + 50, VALUE_MAX)
    OBVIOUS
  <2>2. ~Aspires(depth) => upper = VALUE_MAX /\ lower = VALUE_MIN
    OBVIOUS
  <2>3. ~Aspires(depth) => \E j \in DOMAIN rootMoves : WorthAt(j)' > lower
    BY <1>8, <2>2
  <2> HIDE DEF lower, upper, depth, bv
  <2> QED BY <1>2, <1>5, <1>6, <1>7, <2>1, <2>2, <2>3 DEF WindowOK
<1>10. StaleOK'
  <2>1. CASE Aspires(depth)
    <3>1. \A j \in DOMAIN rootMoves : ValueAt(j)' < upper
      BY <1>3, <1>5, <1>8, <2>1, ValueFacts DEF Least, InRange
    <3> QED BY <1>2, <1>7, <1>8, <3>1 DEF StaleOK
  <2>2. CASE ~Aspires(depth)
    <3>1. \A j \in DOMAIN rootMoves : ~(WorthAt(j)' >= upper)
      BY <1>8, <2>2, ValueFacts
    <3> QED BY <1>2, <1>7, <1>8, <3>1 DEF StaleOK
  <2> QED BY <2>1, <2>2
<1>11. KeptOK'
  <2>1. depth > 1 => pv.move = rootMoves[1].move /\ pv.value <= VALUE_MAX
    BY <1>3, <1>4, ValueFacts DEF InRange
  <2> QED BY <1>2, <1>7, <2>1 DEF KeptOK
<1> HIDE DEF depth, lower, upper, bv
<1> QED BY <1>1, <1>2, <1>3, <1>6, <1>9, <1>10, <1>11, FirstMove

LEMMA BestDeepEnough == IInv /\ BestInv /\ DeepEnough => BestInv'
<1> SUFFICES ASSUME IInv, BestInv, DeepEnough PROVE BestInv'
  OBVIOUS
<1>1. pc = "deepen" /\ pc' = "finish" /\ UNCHANGED <<game, rootMoves, pv, search, node>>
  BY DEF DeepEnough, boardVars
<1>2. search.depth \in Nat /\ pv.value \in Int
  BY NumbersTyped DEF IInv
<1>3. search.depth > 1 => pv.move = rootMoves[1].move /\ pv.value <= VALUE_MAX
  BY <1>1, <1>2, ValueFacts DEF BestInv, DeepenOK, InRange
<1>4. KeptOK'
  BY <1>1, <1>3 DEF KeptOK
<1>5. DeepenOK'
  BY <1>1 DEF DeepenOK
<1> QED BY <1>1, <1>4, <1>5, BestStopped

(* Steps after a stop, and the stop itself. *)
LEMMA BestOnceStopped ==
  IInv /\ BestInv /\ (StopRoot \/ StoppedOutside \/ StopDeepening \/ RaiseStop) => BestInv'
<1> SUFFICES ASSUME IInv, BestInv, StopRoot \/ StoppedOutside \/ StopDeepening \/ RaiseStop
             PROVE  BestInv'
  OBVIOUS
<1>1. UNCHANGED <<game, rootMoves, pv>>
  BY DEF StopRoot, StoppedOutside, StopDeepening, RaiseStop, Accept, boardVars
<1>2. TypeOK
  BY DEF IInv
<1>3. CASE RaiseStop
  <2>1. stopSearchFlag' /\ UNCHANGED <<search, node, pc>>
    BY <1>3 DEF RaiseStop
  <2>2. DeepenOK'
    <3>1. \A j : ValueAt(j)' = ValueAt(j)
      BY <1>1 DEF ValueAt
    <3>2. IsBestMove' <=> IsBestMove
      BY <1>1, <2>1, SameMoves
    <3> QED BY <1>1, <2>1, <3>1, <3>2 DEF BestInv, DeepenOK
  <2>3. KeptOK'
    <3>1. \A m : FailingLow(m)' <=> FailingLow(m)
      BY <1>1, <2>1, SameMoves DEF FailingLow
    <3> QED BY <1>1, <2>1, <3>1, SameMoves DEF BestInv, KeptOK
  <2> QED BY <2>1, <2>2, <2>3, BestStopped
<1>4. CASE StopRoot \/ StoppedOutside \/ StopDeepening
  <2>1. /\ stopSearchFlag' \/ pc' = "finish"
        /\ pc \in RootLabels \cup {"returned", "iterated", "finish"}
        /\ pc' # "deepen"
        /\ search'.depth = search.depth /\ search'.alpha = search.alpha
        /\ search'.attempt = search.attempt /\ node'.index = node.index
    BY <1>2, <1>4 DEF StopRoot, StoppedOutside, StopDeepening, Stopped, Accept, RootLabels,
         TypeOK, SearchTyped
  <2>2. KeptOK'
    BY <1>1, <2>1, SameKept DEF BestInv
  <2>3. DeepenOK'
    BY <2>1 DEF DeepenOK
  <2> QED BY <2>1, <2>2, <2>3, BestStopped
<1> QED BY <1>3, <1>4

-----------------------------------------------------------------------------
(* StoreMove: what the loop knows of the moves up to the one just searched. *)
LEMMA StoredMoves ==
  ASSUME IInv, IInv', BestInv, StoreMove, ~stopSearchFlag, NEW i, i = node.index
  PROVE  /\ \A j \in DOMAIN rootMoves : WorthAt(j)' = WorthAt(j)
         /\ \A j \in DOMAIN rootMoves : rootMoves'[j].move = rootMoves[j].move
         /\ (DOMAIN rootMoves)' = DOMAIN rootMoves /\ Len(rootMoves)' = Len(rootMoves)
         /\ \A j \in DOMAIN rootMoves : j # i => ValueAt(j)' = ValueAt(j)
         /\ ValueAt(i)' = node.value
         /\ pv'.value \in Int /\ InRange(pv'.value)
         /\ \A j \in 1 .. i : ValueAt(j)' <= pv'.value
         /\ \E f \in 1 .. i : Leader(f)'
         /\ IsBest => pv' = savePV /\ pv'.value = node.value
         /\ ~IsBest => pv' = pv /\ pv.value = node.best /\ i > 1
<1>1. TypeOK /\ RootsOK /\ ValuesOK
  BY DEF IInv
<1>2. pc = "searched" /\ pc \in RootLabels /\ InLoop
  BY DEF StoreMove, RootLabels, InLoop
<1>3. /\ i \in DOMAIN rootMoves /\ i \in 1 .. Len(rootMoves)
      /\ Move = rootMoves[i].move /\ search.depth >= 1
  BY <1>1, <1>2, MoveFacts DEF RootsOK
<1>4. /\ DOMAIN rootMoves = 1 .. Len(rootMoves) /\ Len(rootMoves) \in Nat
      /\ rootMoves \in Seq([move : Moves(game), value : Int])
      /\ \A j \in DOMAIN rootMoves :
           rootMoves[j] \in [move : Moves(game), value : Int] /\ ValueAt(j) \in Int
  BY <1>1, <1>3, RootFacts DEF TypeOK, BoardTyped
<1>5. /\ i \in Nat /\ node.value \in Int /\ node.best \in Int /\ node.alpha \in Int
      /\ search.beta \in Int /\ pv.value \in Int
  BY <1>1, NumbersTyped
<1>6. /\ rootMoves' = [rootMoves EXCEPT ![i].value = node.value]
      /\ pv' = IF IsBest THEN savePV ELSE pv
      /\ UNCHANGED <<game, search>>
  BY DEF StoreMove
<1>7. /\ DOMAIN rootMoves' = DOMAIN rootMoves /\ Len(rootMoves') = Len(rootMoves)
      /\ \A j \in DOMAIN rootMoves : j # i => rootMoves'[j] = rootMoves[j]
      /\ rootMoves'[i] = [move |-> Move, value |-> node.value]
  <2>1. rootMoves[i] = [move |-> rootMoves[i].move,
                                 value |-> rootMoves[i].value]
    BY <1>3, <1>4
  <2>2. DOMAIN rootMoves' = DOMAIN rootMoves
    BY <1>6
  <2>3. /\ \A j \in DOMAIN rootMoves : j # i => rootMoves'[j] = rootMoves[j]
        /\ rootMoves'[i] = [move |-> Move, value |-> node.value]
    BY <1>3, <1>4, <1>6, <2>1
  <2>4. rootMoves' \in Seq([move : Moves(game'), value : Int])
    BY DEF IInv, TypeOK, BoardTyped
  <2>5. Len(rootMoves') = Len(rootMoves)
    BY <1>4, <2>2, <2>4
  <2> QED BY <2>2, <2>3, <2>5
<1>8. \A j \in DOMAIN rootMoves :
        rootMoves'[j].move = rootMoves[j].move /\ WorthAt(j)' = WorthAt(j)
  BY <1>3, <1>6, <1>7 DEF WorthAt, Truth
<1>9. /\ \A j \in DOMAIN rootMoves : j # i => ValueAt(j)' = ValueAt(j)
      /\ ValueAt(i)' = node.value
  BY <1>3, <1>6, <1>7 DEF ValueAt
<1>10. /\ i = 1 => node.best = VALUE_NONE
       /\ \A j \in 1 .. i - 1 : ValueAt(j) <= node.best
       /\ i > 1 => pv.value = node.best /\ \E f \in 1 .. i - 1 : Leader(f)
  BY <1>2 DEF BestInv, LoopOK
<1>11. InRange(node.value)
  BY <1>2 DEF BestInv, ChildOK
<1>12. i > 1 => InRange(node.best)
  <2>1. node.best <= node.alpha /\ node.alpha < search.beta /\ search.beta <= VALUE_MAX
    BY <1>2, OpenWindow
  <2>2. i > 1 => node.best > VALUE_MIN
    BY <1>1, <1>2, <1>5 DEF ValuesOK
  <2> QED BY <1>5, <2>1, <2>2, ValueFacts DEF InRange
<1>13. CASE IsBest
  <2>1. pv' = [move |-> Move, value |-> node.value, line |-> line]
    BY <1>6, <1>13 DEF savePV
  <2>2. \A j \in 1 .. i - 1 : ValueAt(j)' < node.value
    <3>1. ASSUME NEW j \in 1 .. i - 1 PROVE ValueAt(j)' < node.value
      <4>1. j \in DOMAIN rootMoves /\ j # i
        BY <1>3, <1>4
      <4>2. ValueAt(j)' = ValueAt(j) /\ ValueAt(j) \in Int /\ ValueAt(j) <= node.best
        BY <1>4, <1>9, <1>10, <4>1
      <4> QED BY <1>5, <1>13, <4>2 DEF IsBest
    <3> QED BY <3>1
  <2>3. Leader(i)'
    BY <1>7, <2>1, <2>2 DEF Leader
  <2>4. \A j \in 1 .. i : ValueAt(j)' <= node.value
    <3>1. ASSUME NEW j \in 1 .. i PROVE ValueAt(j)' <= node.value
      <4>1. CASE j = i
        BY <1>5, <1>9, <4>1
      <4>2. CASE j # i
        <5>1. j \in 1 .. i - 1 /\ j \in DOMAIN rootMoves
          BY <1>3, <1>4, <4>2
        <5>2. ValueAt(j)' < node.value /\ ValueAt(j)' \in Int
          BY <1>4, <1>9, <2>2, <4>2, <5>1
        <5> QED BY <1>5, <5>2
      <4> QED BY <4>1, <4>2
    <3> QED BY <3>1
  <2>5. i \in 1 .. i
    BY <1>3
  <2>6. pv' = savePV /\ pv'.value = node.value
    BY <2>1 DEF savePV
  <2> QED BY <1>5, <1>6, <1>7, <1>8, <1>9, <1>11, <1>13, <2>3, <2>4, <2>5, <2>6
<1>14. CASE ~IsBest
  <2>1. i > 1
    BY <1>3, <1>5, <1>10, <1>11, <1>14, ValueFacts DEF IsBest, InRange
  <2>2. pv' = pv /\ pv.value = node.best
    BY <1>6, <1>10, <1>14, <2>1
  <2>3. PICK f \in 1 .. i - 1 : Leader(f)
    BY <1>10, <2>1
  <2>4. f \in DOMAIN rootMoves /\ f # i /\ f \in 1 .. i
    BY <1>3, <1>4, <1>5
  <2>5. \A j \in 1 .. f - 1 : ValueAt(j)' = ValueAt(j)
    BY <1>3, <1>4, <1>5, <1>9, <2>4 DEF ValueAt
  <2>6. Leader(f)'
    BY <1>7, <2>2, <2>3, <2>4, <2>5 DEF Leader
  <2>7. \A j \in 1 .. i : ValueAt(j)' <= pv'.value
    <3>1. ASSUME NEW j \in 1 .. i PROVE ValueAt(j)' <= pv'.value
      <4>1. CASE j = i
        BY <1>5, <1>9, <1>14, <2>2, <4>1 DEF IsBest
      <4>2. CASE j # i
        <5>1. j \in 1 .. i - 1 /\ j \in DOMAIN rootMoves
          BY <1>3, <1>4, <4>2
        <5>2. ValueAt(j)' = ValueAt(j) /\ ValueAt(j) <= node.best
          BY <1>10, <1>9, <4>2, <5>1
        <5> QED BY <2>2, <5>2
      <4> QED BY <4>1, <4>2
    <3> QED BY <3>1
  <2> QED BY <1>5, <1>6, <1>7, <1>8, <1>9, <1>12, <1>14, <2>1, <2>2, <2>4, <2>6, <2>7
<1> QED BY <1>13, <1>14

(* StoreMove: the move that a stop would answer now. *)
LEMMA StoredKept ==
  ASSUME IInv, IInv', BestInv, StoreMove, ~stopSearchFlag, search.depth > 1
  PROVE  /\ \/ pv'.move = rootMoves[1].move
            \/ Truth(pv'.move) > WorthAt(1)
            \/ WorthAt(1) <= search.alpha
         /\ pv'.value <= VALUE_MAX
<1>1. TypeOK /\ RootsOK
  BY DEF IInv
<1>2. pc = "searched" /\ pc \in RootLabels /\ InLoop
  BY DEF StoreMove, RootLabels, InLoop
<1>3. /\ node.index \in 1 .. Len(rootMoves) /\ Truth(Move) = WorthAt(node.index)
      /\ Truth(Move) \in Int /\ Move = rootMoves[node.index].move /\ search.depth >= 1
  BY <1>1, <1>2, MoveFacts DEF RootsOK
<1>4. /\ node.index \in Nat /\ node.value \in Int /\ node.best \in Int /\ node.alpha \in Int
      /\ search.alpha \in Int /\ search.beta \in Int /\ pv.value \in Int
  BY <1>1, NumbersTyped
<1>5. pv'.value <= VALUE_MAX
  BY StoredMoves, ValueFacts DEF InRange
<1>6. CASE IsBest /\ node.index = 1
  BY <1>3, <1>5, <1>6, StoredMoves DEF savePV
<1>7. CASE IsBest /\ node.index > 1
  <2>1. WorthAt(1) \in Int /\ ValueAt(1) \in Int
    BY <1>1, <1>3, RootFacts
  <2>2. WorthAt(1) <= ValueAt(1) /\ ValueAt(1) <= node.best
    BY <1>2, <1>4, <1>7 DEF BestInv, LoopOK
  <2>3. node.value > node.best
    BY <1>7 DEF IsBest
  <2>4. pv'.move = Move
    BY <1>7, StoredMoves DEF savePV
  <2>5. Bound(node.value, Truth(Move), node.alpha, search.beta)
    BY <1>2 DEF BestInv, ChildOK
  <2>6. node.alpha = search.alpha \/ node.alpha = node.best
    BY <1>2, OpenWindow
  <2>7. CASE node.value <= node.alpha
    BY <1>4, <1>5, <2>1, <2>2, <2>3, <2>6, <2>7
  <2>8. CASE node.value > node.alpha
    <3>1. Truth(Move) >= node.value
      BY <1>3, <1>4, <2>5, <2>8 DEF Bound
    <3> QED BY <1>3, <1>4, <1>5, <2>1, <2>2, <2>3, <2>4, <3>1
  <2> QED BY <1>4, <2>7, <2>8
<1>8. CASE ~IsBest
  <2>1. pv' = pv /\ node.index > 1
    BY <1>8, StoredMoves
  <2>2. \/ pv.move = rootMoves[1].move
        \/ Truth(pv.move) > WorthAt(1)
        \/ FailingLow(rootMoves[1].move)
    BY <1>2 DEF BestInv, KeptOK
  <2> QED BY <1>4, <1>5, <2>1, <2>2 DEF FailingLow, WorthAt
<1> QED BY <1>3, <1>4, <1>6, <1>7, <1>8

LEMMA BestStore == IInv /\ IInv' /\ BestInv /\ StoreMove => BestInv'
<1> SUFFICES ASSUME IInv, IInv', BestInv, StoreMove PROVE BestInv'
  OBVIOUS
<1>1. TypeOK /\ RootsOK
  BY DEF IInv
<1>2. /\ pc = "searched" /\ pc \in RootLabels /\ InLoop /\ search.depth >= 1
      /\ pc' \in {"move", "returned"}
      /\ UNCHANGED <<game, stopSearchFlag, search>>
  BY <1>1 DEF StoreMove, RootLabels, InLoop, RootsOK
<1>3. DeepenOK'
  BY <1>2 DEF DeepenOK
<1>4. CASE stopSearchFlag
  <2>1. ~(search.depth > 1)
    BY <1>4 DEF StoreMove, Stopped
  <2>2. KeptOK'
    BY <1>2, <2>1 DEF KeptOK
  <2> QED BY <1>2, <1>3, <1>4, <2>2, BestStopped
<1>5. CASE ~stopSearchFlag
  <2> DEFINE v == node.value
             b == search.beta
             w == pv'.value
  <2>a. PICK i : i = node.index
    OBVIOUS
  <2>b. PICK n : n = Len(rootMoves)
    OBVIOUS
  <2>1. /\ i \in 1 .. n /\ n \in Nat /\ DOMAIN rootMoves = 1 .. n
        /\ \A j \in 1 .. n : ValueAt(j) \in Int /\ WorthAt(j) \in Int
        /\ Truth(Move) = WorthAt(i)
    BY <1>1, <1>2, <2>a, <2>b, MoveFacts, RootFacts
  <2>2. /\ v \in Int /\ b \in Int /\ node.best \in Int /\ node.alpha \in Int
        /\ search.alpha \in Int /\ pv.value \in Int
    BY <1>1, NumbersTyped
  <2>3. /\ \A j \in 1 .. n : WorthAt(j)' = WorthAt(j) /\ rootMoves'[j].move = rootMoves[j].move
        /\ (DOMAIN rootMoves)' = 1 .. n /\ Len(rootMoves)' = n
        /\ \A j \in 1 .. n : j # i => ValueAt(j)' = ValueAt(j)
        /\ ValueAt(i)' = v
        /\ w \in Int /\ InRange(w)
        /\ \A j \in 1 .. i : ValueAt(j)' <= w
        /\ \E f \in 1 .. i : Leader(f)'
        /\ IsBest => pv' = savePV /\ w = v
        /\ ~IsBest => pv' = pv /\ pv.value = node.best /\ i > 1
    <3> HIDE DEF v, w
    <3>1. /\ \A j \in 1 .. n : WorthAt(j)' = WorthAt(j)
          /\ \A j \in 1 .. n : rootMoves'[j].move = rootMoves[j].move
          /\ (DOMAIN rootMoves)' = 1 .. n /\ Len(rootMoves)' = n
          /\ \A j \in 1 .. n : j # i => ValueAt(j)' = ValueAt(j)
      BY <1>5, <2>a, <2>b, <2>1, StoredMoves
    <3> QED BY <1>5, <2>a, <3>1, StoredMoves DEF v, w
  <2>4. /\ VALUE_MIN <= node.alpha /\ node.alpha < b /\ b <= VALUE_MAX
        /\ search.alpha <= node.alpha /\ node.best <= node.alpha
        /\ node.alpha = search.alpha \/ node.alpha = node.best
    BY <1>2, <1>5, OpenWindow
  <2>5. Bound(v, WorthAt(i), node.alpha, b)
    BY <1>2, <1>5, <2>1 DEF BestInv, ChildOK
  <2>6. /\ \A j \in 1 .. i - 1 : WorthAt(j) <= ValueAt(j) /\ ValueAt(j) <= node.best
        /\ i > 1 /\ pv.value > search.alpha => Truth(pv.move) = pv.value
    BY <1>2, <1>5, <2>a DEF BestInv, LoopOK
  <2>7. KeptOK'
    <3>1. ASSUME search.depth > 1
          PROVE  /\ \/ pv'.move = rootMoves[1].move
                    \/ Truth(pv'.move) > WorthAt(1)
                    \/ WorthAt(1) <= search.alpha
                 /\ pv'.value <= VALUE_MAX
      BY <1>5, <3>1, StoredKept
    <3>2. 1 \in 1 .. n
      BY <2>1
    <3>3. WorthAt(1)' = WorthAt(1) /\ rootMoves'[1].move = rootMoves[1].move
      BY <2>3, <3>2
    <3> QED BY <1>2, <3>1, <3>3 DEF KeptOK, FailingLow, Truth, WorthAt
  <2>8. WindowOK'
    <3>1. ASSUME NEW a, \E j \in 1 .. n : WorthAt(j) > a
          PROVE  \E j \in 1 .. n : WorthAt(j)' > a
      BY <2>3, <3>1
    <3> QED BY <1>2, <1>5, <2>1, <2>3, <3>1 DEF BestInv, WindowOK, InLoop
  <2>9. pv'.value > search.alpha /\ v < b => Truth(pv'.move) = pv'.value
    <3>1. CASE IsBest
      <4>1. pv'.move = Move /\ w = v /\ v > node.best
        BY <2>3, <3>1 DEF savePV, IsBest
      <4> QED BY <2>1, <2>2, <2>4, <2>5, <4>1 DEF Bound
    <3>2. CASE ~IsBest
      BY <2>3, <2>6, <3>2
    <3> QED BY <3>1, <3>2
  <2>10. \A j \in 1 .. i : v < b => WorthAt(j)' <= ValueAt(j)'
    <3>1. ASSUME NEW j \in 1 .. i, v < b PROVE WorthAt(j)' <= ValueAt(j)'
      <4>1. CASE j = i
        <5>1. WorthAt(i) <= v
          BY <2>1, <2>2, <2>5, <3>1 DEF Bound
        <5>2. WorthAt(i)' = WorthAt(i) /\ ValueAt(i)' = v
          BY <2>1, <2>3
        <5> QED BY <4>1, <5>1, <5>2
      <4>2. CASE j # i
        <5>1. j \in 1 .. i - 1 /\ j \in 1 .. n
          BY <2>1, <4>2
        <5> QED BY <2>3, <2>6, <4>2, <5>1
      <4> QED BY <4>1, <4>2
    <3> QED BY <3>1
  <2>11. ASSUME pc' = "returned", node'.value = w, \A j \in 1 .. n : ValueAt(j)' <= w,
                w < b => i = n /\ v < b,
                w >= b => Truth(pv'.move) >= w /\ \E k \in 1 .. n : CutAt(k)'
         PROVE  BestInv'
    <3>1. FirstOfBest'
      <4>1. PICK f \in 1 .. i : Leader(f)'
        BY <2>3
      <4>2. f \in (DOMAIN rootMoves)'
        BY <2>1, <2>3, <4>1
      <4> QED BY <2>3, <2>11, <4>1, <4>2 DEF FirstOfBest
    <3>2. w < b => /\ \A j \in (DOMAIN rootMoves)' : WorthAt(j)' <= w
                   /\ w > search.alpha => Truth(pv'.move) = w
      <4>1. ASSUME w < b, NEW j \in 1 .. n PROVE WorthAt(j)' <= w
        <5>1. WorthAt(j)' <= ValueAt(j)' /\ ValueAt(j)' <= w
          BY <2>10, <2>11, <4>1
        <5>2. WorthAt(j)' = WorthAt(j) /\ WorthAt(j) \in Int
          BY <2>1, <2>3
        <5>3. ValueAt(j)' = ValueAt(j) \/ ValueAt(j)' = v
          BY <2>3
        <5> QED BY <2>1, <2>2, <2>3, <5>1, <5>2, <5>3
      <4> QED BY <2>3, <2>9, <2>11, <4>1
    <3>3. Truth(pv'.move) = Truth(pv.move)'
      BY <1>2 DEF Truth
    <3>4. ReturnedOK'
      BY <1>2, <2>3, <2>11, <3>1, <3>2, <3>3 DEF ReturnedOK
    <3>5. StaleOK' /\ LoopOK' /\ ChildOK' /\ IteratedOK'
      BY <2>11 DEF StaleOK, LoopOK, ChildOK, IteratedOK, RootLabels
    <3> QED BY <1>3, <2>7, <2>8, <3>4, <3>5 DEF BestInv
  <2>12. CASE v >= b
    <3>1. IsBest /\ Cuts /\ w = v
      BY <2>2, <2>3, <2>4, <2>12 DEF IsBest, Cuts
    <3>2. pc' = "returned" /\ node'.value = w
      BY <1>1, <3>1 DEF StoreMove, TypeOK, SearchTyped
    <3>3. WorthAt(i) >= b /\ Truth(pv'.move) >= w
      <4>1. WorthAt(i) >= v /\ pv'.move = Move
        BY <2>3, <2>5, <2>12, <3>1 DEF Bound, savePV
      <4> QED BY <2>1, <2>2, <2>12, <3>1, <4>1
    <3>4. \A j \in 1 .. n : j > i => ValueAt(j)' < b
      <4>1. ASSUME NEW j \in 1 .. n, j > i PROVE ValueAt(j)' < b
        <5>1. i \in i .. n /\ j \in i + 1 .. n /\ j # i
          BY <2>1, <4>1
        <5>2. ValueAt(j) < b
          BY <1>2, <1>5, <2>a, <2>b, <3>3, <5>1 DEF BestInv, StaleOK
        <5> QED BY <2>3, <5>1, <5>2
      <4> QED BY <4>1
    <3>5. \A j \in 1 .. n : ValueAt(j)' <= w
      <4>1. ASSUME NEW j \in 1 .. n PROVE ValueAt(j)' <= w
        <5>1. CASE j \in 1 .. i
          BY <2>3, <5>1
        <5>2. CASE j \notin 1 .. i
          <6>1. j > i /\ j # i
            BY <2>1, <5>2
          <6>2. ValueAt(j)' < b /\ ValueAt(j)' = ValueAt(j) /\ ValueAt(j) \in Int
            BY <2>1, <2>3, <3>4, <6>1
          <6> QED BY <2>2, <2>12, <3>1, <6>2
        <5> QED BY <5>1, <5>2
      <4> QED BY <4>1
    <3>6. CutAt(i)'
      <4>1. WorthAt(i)' >= search'.beta
        BY <1>2, <2>1, <2>3, <3>3
      <4>2. ASSUME NEW j \in 1 .. i - 1 PROVE WorthAt(j)' < search'.beta
        <5>1. j \in 1 .. n /\ WorthAt(j) <= ValueAt(j) /\ ValueAt(j) <= node.best
          BY <2>1, <2>6
        <5>2. WorthAt(j)' = WorthAt(j) /\ WorthAt(j) \in Int /\ ValueAt(j) \in Int
          BY <2>1, <2>3, <5>1
        <5> QED BY <1>2, <2>2, <2>4, <5>1, <5>2
      <4>3. ASSUME NEW j \in i + 1 .. Len(rootMoves)' PROVE ValueAt(j)' < search'.beta
        <5>1. j \in 1 .. n /\ j > i
          BY <2>1, <2>3
        <5> QED BY <1>2, <3>4, <5>1
      <4> QED BY <4>1, <4>2, <4>3 DEF CutAt
    <3>7. i \in 1 .. n
      BY <2>1
    <3> HIDE DEF w, v, b
    <3>8. ~(w < b)
      BY <2>2, <2>12, <3>1 DEF v, b
    <3> QED BY <2>11, <3>2, <3>3, <3>5, <3>6, <3>7, <3>8
  <2>13. CASE v < b /\ i = n
    <3>1. ~Cuts
      BY <2>2, <2>13 DEF Cuts
    <3>2. pc' = "returned" /\ node'.value = w
      BY <1>1, <2>3, <2>13, <2>a, <2>b DEF StoreMove, TypeOK, SearchTyped
    <3>3. w < b
      BY <2>2, <2>3, <2>4, <2>13
    <3>4. \A j \in 1 .. n : ValueAt(j)' <= w
      BY <2>3, <2>13
    <3> HIDE DEF w, v, b
    <3>5. ~(w >= b)
      BY <2>2, <2>3, <3>3 DEF w, b
    <3> QED BY <2>11, <2>13, <3>2, <3>3, <3>4, <3>5
  <2>14. CASE v < b /\ i < n
    <3>1. /\ ~Cuts /\ ~(i = n)
      BY <2>1, <2>2, <2>14 DEF Cuts
    <3>2. /\ pc' = "move" /\ node'.index = i + 1
          /\ node'.alpha = Greatest(node.alpha, v) /\ node'.best = Greatest(node.best, v)
      BY <2>a, <2>b, <3>1 DEF StoreMove
    <3>3. w = Greatest(node.best, v)
      BY <2>2, <2>3 DEF Greatest, IsBest
    <3>4. StaleOK'
      <4>1. ASSUME NEW k \in i + 1 .. n, WorthAt(k)' >= b, NEW j \in k + 1 .. n
            PROVE  ValueAt(j)' < b
        <5>1. k \in i .. n /\ k \in 1 .. n /\ j \in 1 .. n /\ j # i
          BY <2>1
        <5>2. WorthAt(k) >= b
          BY <2>3, <4>1, <5>1
        <5>3. ValueAt(j) < b
          BY <1>2, <1>5, <2>a, <2>b, <5>1, <5>2 DEF BestInv, StaleOK
        <5> QED BY <2>3, <5>1, <5>3
      <4> QED BY <1>2, <2>3, <3>2, <4>1 DEF StaleOK
    <3>5. LoopOK'
      <4>1. node'.alpha = Greatest(search.alpha, node'.best) /\ node'.alpha < b
        BY <2>2, <2>4, <2>14, <3>2 DEF Greatest
      <4>2. node'.index > 1 /\ node'.index - 1 = i
        BY <2>1, <3>2
      <4>3. \A j \in 1 .. i : WorthAt(j)' <= ValueAt(j)' /\ ValueAt(j)' <= node'.best
        BY <2>3, <2>10, <2>14, <3>2, <3>3
      <4>4. Truth(pv.move)' = Truth(pv'.move)
        BY <1>2 DEF Truth
      <4>5. w = node'.best
        BY <3>2, <3>3
      <4>6. w > search.alpha => Truth(pv.move)' = w
        BY <2>9, <2>14, <4>4
      <4>7. ~(node'.index = 1)
        BY <2>1, <3>2
      <4> QED BY <1>2, <2>3, <4>1, <4>2, <4>3, <4>5, <4>6, <4>7 DEF LoopOK
    <3>6. ChildOK' /\ ReturnedOK' /\ IteratedOK'
      BY <3>2 DEF ChildOK, ReturnedOK, IteratedOK
    <3> QED BY <1>3, <2>7, <2>8, <3>4, <3>5, <3>6 DEF BestInv
  <2> QED BY <2>1, <2>2, <2>12, <2>13, <2>14
<1> QED BY <1>4, <1>5

-----------------------------------------------------------------------------
(* The value that an iteration ends with (aspirationSearch). *)
LEMMA BestAccepted ==
  ASSUME IInv, BestInv, pc = "returned", ~stopSearchFlag, pc' = "iterated",
         search' = [search EXCEPT !.bestValue = node.value],
         UNCHANGED <<game, stopSearchFlag, rootMoves, pv, node>>,
         pv.value > search.alpha \/ pv.value >= search.beta
  PROVE  BestInv'
<1>1. TypeOK /\ InLoop
  BY DEF IInv, InLoop
<1>2. /\ search'.depth = search.depth /\ search'.beta = search.beta
      /\ search'.alpha = search.alpha /\ search'.attempt = search.attempt
      /\ search'.bestValue = node.value
  BY <1>1 DEF TypeOK, SearchTyped
<1>3. /\ node.value = pv.value /\ InRange(pv.value) /\ FirstOfBest
      /\ pv.value < search.beta =>
           /\ \A j \in DOMAIN rootMoves : WorthAt(j) <= pv.value
           /\ pv.value > search.alpha => Truth(pv.move) = pv.value
      /\ pv.value >= search.beta => Truth(pv.move) >= pv.value
  BY DEF BestInv, ReturnedOK
<1>4. pv.value \in Int /\ search.beta \in Int
  BY <1>1, NumbersTyped
<1>5. IsBestMove
  BY <1>3, <1>4 DEF IsBestMove
<1>6. IteratedOK'
  BY <1>2, <1>3, <1>5, SameMoves DEF IteratedOK
<1>7. KeptOK'
  BY <1>2, SameKept DEF BestInv
<1>8. WindowOK' /\ StaleOK' /\ LoopOK' /\ ChildOK' /\ ReturnedOK' /\ DeepenOK'
  BY DEF WindowOK, StaleOK, LoopOK, ChildOK, ReturnedOK, DeepenOK, InLoop, RootLabels
<1> QED BY <1>6, <1>7, <1>8 DEF BestInv

(* A window that reaches below what some move is worth is not failed low. *)
LEMMA NotBelow ==
  ASSUME IInv, BestInv, pc = "returned", ~stopSearchFlag,
         ~Aspires(search.depth) \/ search.attempt # 1
  PROVE  pv.value > search.alpha \/ pv.value >= search.beta
<1>1. TypeOK /\ RootsOK /\ InLoop
  BY DEF IInv, InLoop
<1>2. PICK j \in DOMAIN rootMoves : WorthAt(j) > search.alpha
  BY <1>1 DEF BestInv, WindowOK
<1>3. pv.value < search.beta => WorthAt(j) <= pv.value
  BY <1>2 DEF BestInv, ReturnedOK
<1>4. WorthAt(j) \in Int
  BY <1>1, <1>2, RootFacts DEF RootsOK
<1> QED BY <1>1, <1>2, <1>3, <1>4, NumbersTyped

LEMMA BestInside == IInv /\ BestInv /\ InsideWindow => BestInv'
<1> SUFFICES ASSUME IInv, BestInv, InsideWindow PROVE BestInv'
  OBVIOUS
<1>1. /\ pc = "returned" /\ pc' = "iterated"
      /\ search' = [search EXCEPT !.bestValue = node.value]
      /\ UNCHANGED <<game, stopSearchFlag, rootMoves, pv, node>>
  BY DEF InsideWindow, Accept, boardVars
<1>2. TypeOK
  BY DEF IInv
<1>3. CASE stopSearchFlag
  <2>1. KeptOK'
    BY <1>1, <1>2, SameKept DEF BestInv, TypeOK, SearchTyped
  <2>2. DeepenOK'
    BY <1>1 DEF DeepenOK
  <2> QED BY <1>1, <1>3, <2>1, <2>2, BestStopped
<1>4. CASE ~stopSearchFlag
  <2>1. node.value = pv.value
    BY <1>1, <1>4 DEF BestInv, ReturnedOK
  <2>2. pv.value > search.alpha \/ pv.value >= search.beta
    <3>1. CASE Aspires(search.depth)
      BY <1>2, <2>1, <3>1, NumbersTyped DEF InsideWindow, FailsLow
    <3>2. CASE ~Aspires(search.depth)
      BY <1>1, <1>4, <3>2, NotBelow
    <3> QED BY <3>1, <3>2
  <2> QED BY <1>1, <1>4, <2>2, BestAccepted
<1> QED BY <1>3, <1>4

LEMMA BestFailLow == IInv /\ IInv' /\ BestInv /\ FailLow => BestInv'
<1> SUFFICES ASSUME IInv, IInv', BestInv, FailLow PROVE BestInv'
  OBVIOUS
<1>1. /\ pc = "returned" /\ Aspires(search.depth) /\ ~stopSearchFlag
      /\ node.value <= search.alpha
      /\ UNCHANGED <<game, stopSearchFlag, rootMoves, pv>>
      /\ Again(VALUE_MIN, search.beta)
  BY DEF FailLow, FailsLow, boardVars
<1>2. TypeOK /\ TypeOK' /\ RootsOK /\ InLoop
  BY <1>1 DEF IInv, InLoop
<1>3. /\ search.depth \in Nat /\ search.alpha \in Int /\ search.beta \in Int /\ pv.value \in Int
      /\ search.depth >= 1
  BY <1>2, NumbersTyped DEF RootsOK
<1>4. /\ node.value = pv.value /\ InRange(pv.value)
      /\ pv.value < search.beta => \A j \in DOMAIN rootMoves : WorthAt(j) <= pv.value
  BY <1>1 DEF BestInv, ReturnedOK
<1>5. /\ VALUE_MIN <= search.alpha /\ search.alpha < search.beta /\ search.beta <= VALUE_MAX
      /\ InRange(search.bestValue)
  BY <1>1, <1>2 DEF BestInv, WindowOK
<1>6. /\ DOMAIN rootMoves = 1 .. Len(rootMoves) /\ Len(rootMoves) \in Nat /\ 1 <= Len(rootMoves)
      /\ \A j \in DOMAIN rootMoves : WorthAt(j) \in Int /\ InRange(WorthAt(j))
  BY <1>1, <1>2, <1>3, RootFacts DEF RootsOK
<1>7. CASE search.attempt = 1
  <2>1. Attempt(2, search.depth, VALUE_MIN, search.beta) /\ pc' = "move"
    BY <1>1, <1>7 DEF Again
  <2>2. /\ search'.depth = search.depth /\ search'.bestValue = search.bestValue
        /\ search'.alpha = VALUE_MIN /\ search'.beta = search.beta /\ search'.attempt = 2
        /\ node'.index = 1
    BY <2>1 DEF Attempt
  <2>3. \A j : WorthAt(j)' = WorthAt(j)
    BY <1>1, <2>2, SameMoves
  <2>4. WindowOK'
    <3>1. 1 \in DOMAIN rootMoves /\ WorthAt(1) > VALUE_MIN
      BY <1>6, ValueFacts DEF InRange
    <3>2. \E j \in (DOMAIN rootMoves)' : WorthAt(j)' > VALUE_MIN
      BY <1>1, <2>3, <3>1
    <3>3. VALUE_MIN < search.beta
      BY <1>3, <1>5, ValueFacts
    <3> QED BY <1>1, <1>5, <2>1, <2>2, <3>2, <3>3, ValueFacts DEF WindowOK
  <2>5. StaleOK'
    <3>1. \A j \in DOMAIN rootMoves : ~(WorthAt(j) >= search.beta)
      BY <1>1, <1>3, <1>4, <1>5, <1>6
    <3>2. \A i \in node'.index .. Len(rootMoves)' : ~(WorthAt(i)' >= search'.beta)
      BY <1>1, <1>6, <2>2, <2>3, <3>1
    <3> QED BY <3>2 DEF StaleOK
  <2>6. KeptOK'
    <3>1. pv.value <= VALUE_MAX
      BY <1>3, <1>4, ValueFacts DEF InRange
    <3> QED BY <1>1, <2>1, <2>2, <3>1 DEF KeptOK, FailingLow
  <2>7. VALUE_MIN \in Int /\ VALUE_MIN <= VALUE_MIN /\ VALUE_MIN < search.beta
    BY <1>3, <1>5, ValueFacts
  <2> QED BY <1>1, <1>2, <1>3, <2>1, <2>4, <2>5, <2>6, <2>7, FirstMove
<1>8. CASE search.attempt # 1
  <2>1. pv.value > search.alpha \/ pv.value >= search.beta
    BY <1>1, <1>8, NotBelow
  <2> QED BY <1>1, <1>3, <1>4, <1>5, <2>1
<1> QED BY <1>7, <1>8

LEMMA BestFailHigh == IInv /\ IInv' /\ BestInv /\ FailHigh => BestInv'
<1> SUFFICES ASSUME IInv, IInv', BestInv, FailHigh PROVE BestInv'
  OBVIOUS
<1> DEFINE upper == Least(search.bestValue + 200, VALUE_MAX)
<1>1. /\ pc = "returned" /\ Aspires(search.depth) /\ ~stopSearchFlag
      /\ node.value >= search.beta
      /\ UNCHANGED <<game, stopSearchFlag, rootMoves, pv>>
      /\ Again(search.alpha, upper)
  BY DEF FailHigh, FailsHigh, boardVars
<1>2. TypeOK /\ TypeOK' /\ RootsOK /\ InLoop
  BY <1>1 DEF IInv, InLoop
<1>3. /\ search.depth \in Nat /\ search.alpha \in Int /\ search.beta \in Int /\ pv.value \in Int
      /\ search.bestValue \in Int /\ search.depth >= 1
  BY <1>2, NumbersTyped DEF RootsOK
<1>4. /\ node.value = pv.value /\ InRange(pv.value) /\ FirstOfBest
      /\ pv.value >= search.beta =>
           Truth(pv.move) >= pv.value /\ \E k \in DOMAIN rootMoves : CutAt(k)
  BY <1>1 DEF BestInv, ReturnedOK
<1>5. /\ VALUE_MIN <= search.alpha /\ search.alpha < search.beta /\ search.beta <= VALUE_MAX
      /\ InRange(search.bestValue)
  BY <1>1, <1>2 DEF BestInv, WindowOK
<1>6. /\ DOMAIN rootMoves = 1 .. Len(rootMoves) /\ Len(rootMoves) \in Nat
      /\ \A j \in DOMAIN rootMoves :
           WorthAt(j) \in Int /\ InRange(WorthAt(j)) /\ ValueAt(j) \in Int
  BY <1>1, <1>2, <1>3, RootFacts
<1>7. CASE search.attempt = 1
  <2>1. Attempt(2, search.depth, search.alpha, upper) /\ pc' = "move"
    BY <1>1, <1>7 DEF Again
  <2>2. /\ search'.depth = search.depth /\ search'.bestValue = search.bestValue
        /\ search'.alpha = search.alpha /\ search'.beta = upper /\ search'.attempt = 2
        /\ node'.index = 1
    BY <2>1 DEF Attempt
  <2>3. \A j : WorthAt(j)' = WorthAt(j) /\ ValueAt(j)' = ValueAt(j)
    BY <1>1, <2>2, SameMoves
  <2>4. upper \in Int /\ search.beta <= upper /\ upper <= VALUE_MAX /\ search.alpha < upper
    <3>1. search.beta = Least(search.bestValue + 50, VALUE_MAX)
      BY <1>1, <1>2, <1>7 DEF BestInv, WindowOK
    <3> QED BY <1>3, <1>5, <3>1, ValueFacts DEF Least
  <2> HIDE DEF upper
  <2>5. WindowOK'
    <3>1. PICK f \in DOMAIN rootMoves : Leader(f)
      BY <1>4 DEF FirstOfBest
    <3>2. WorthAt(f) = Truth(pv.move)
      BY <3>1 DEF Leader, WorthAt
    <3>3. WorthAt(f) > search.alpha
      BY <1>1, <1>3, <1>4, <1>5, <1>6, <3>1, <3>2
    <3>4. \E j \in (DOMAIN rootMoves)' : WorthAt(j)' > search.alpha
      BY <1>1, <2>3, <3>1, <3>3
    <3> QED BY <1>1, <1>5, <2>1, <2>2, <2>4, <3>4 DEF WindowOK
  <2>6. StaleOK'
    <3>1. PICK k \in DOMAIN rootMoves : CutAt(k)
      BY <1>1, <1>4
    <3>2. ASSUME NEW i \in 1 .. Len(rootMoves), WorthAt(i) >= upper,
                 NEW j \in i + 1 .. Len(rootMoves)
          PROVE  ValueAt(j) < upper
      <4>1. ~(i \in 1 .. k - 1)
        <5>1. i \in DOMAIN rootMoves /\ WorthAt(i) \in Int
          BY <1>6
        <5>2. ~(WorthAt(i) < search.beta)
          BY <1>3, <2>4, <3>2, <5>1
        <5> QED BY <3>1, <5>2 DEF CutAt
      <4>2. j \in k + 1 .. Len(rootMoves) /\ j \in DOMAIN rootMoves
        BY <1>6, <3>1, <4>1
      <4>3. ValueAt(j) < search.beta
        BY <3>1, <4>2 DEF CutAt
      <4> QED BY <1>3, <1>6, <2>4, <4>2, <4>3
    <3>3. ASSUME NEW i \in 1 .. Len(rootMoves), WorthAt(i)' >= upper,
                 NEW j \in i + 1 .. Len(rootMoves)
          PROVE  ValueAt(j)' < upper
      BY <2>3, <3>2, <3>3
    <3> QED BY <1>1, <2>2, <3>3 DEF StaleOK
  <2>7. KeptOK'
    <3>1. \A m : FailingLow(m) => FailingLow(m)'
      BY <1>1, <1>7, <2>2, SameMoves DEF FailingLow
    <3>2. \A m : Truth(m)' = Truth(m)
      BY <1>1, <2>2, SameMoves
    <3> QED BY <1>1, <2>1, <2>2, <2>3, <3>1, <3>2 DEF BestInv, KeptOK
  <2> QED BY <1>1, <1>2, <1>3, <1>5, <2>1, <2>4, <2>5, <2>6, <2>7, FirstMove
<1>8. CASE search.attempt # 1
  <2>1. search' = [search EXCEPT !.bestValue = node.value] /\ pc' = "iterated" /\ UNCHANGED node
    BY <1>1, <1>8 DEF Again
  <2> QED BY <1>1, <1>4, <2>1, BestAccepted
<1> QED BY <1>7, <1>8

-----------------------------------------------------------------------------
(* The stable sort moves the first of the best moves to the front. *)
LEMMA SortOntoAll ==
  ASSUME TypeOK, NEW p \in [DOMAIN rootMoves -> DOMAIN rootMoves],
         \A i, j \in DOMAIN rootMoves : i < j => Precedes(p[i], p[j]),
         NEW f \in DOMAIN rootMoves
  PROVE  \E k \in DOMAIN rootMoves : p[k] = f
<1> DEFINE D == DOMAIN rootMoves
<1>1. D = 1 .. Len(rootMoves) /\ Len(rootMoves) \in Nat
  BY DEF TypeOK, BoardTyped
<1>2. \A i \in D : rootMoves[i].value \in Int
  <2>1. rootMoves \in Seq([move : Moves(game), value : Int])
    BY DEF TypeOK, BoardTyped
  <2>2. ASSUME NEW i \in D PROVE rootMoves[i] \in [move : Moves(game), value : Int]
    BY <1>1, <2>1, ElementOfSeq
  <2> QED BY <2>2
<1>3. \A i \in D : ~Precedes(i, i)
  BY <1>1, <1>2 DEF Precedes
<1>4. ASSUME NEW i \in D, NEW j \in D, p[i] = p[j] PROVE i = j
  <2>1. ~(i < j) /\ ~(j < i)
    BY <1>3, <1>4
  <2> QED BY <1>1, <2>1
<1>5. p \in Injection(D, D)
  BY <1>4 DEF Injection, IsInjective
<1>6. IsFiniteSet(D)
  BY <1>1, FS_Interval
<1>7. p \in Surjection(D, D)
  BY <1>5, <1>6, FS_Injection
<1> QED BY <1>7 DEF Surjection

LEMMA BestNextIteration == IInv /\ IInv' /\ BestInv /\ NextIteration => BestInv'
<1> SUFFICES ASSUME IInv, IInv', BestInv, NextIteration PROVE BestInv'
  OBVIOUS
<1>1. /\ pc = "iterated" /\ pc' = "deepen" /\ ~stopSearchFlag
      /\ SortRootMoves /\ Len(rootMoves) > 1
      /\ UNCHANGED <<game, pv, search>>
  BY DEF NextIteration
<1>2. TypeOK
  BY DEF IInv
<1>3. /\ search.bestValue = pv.value /\ InRange(pv.value) /\ IsBestMove
      /\ \E f \in DOMAIN rootMoves : Leader(f)
      /\ \A j \in DOMAIN rootMoves : ValueAt(j) <= pv.value
  BY <1>1 DEF BestInv, IteratedOK, FirstOfBest
<1>4. PICK p \in [DOMAIN rootMoves -> DOMAIN rootMoves] :
        /\ \A i, j \in DOMAIN rootMoves : i < j => Precedes(p[i], p[j])
        /\ rootMoves' = [i \in DOMAIN rootMoves |-> rootMoves[p[i]]]
  BY <1>1 DEF SortRootMoves
<1>5. PICK f \in DOMAIN rootMoves : Leader(f)
  BY <1>3
<1>6. /\ DOMAIN rootMoves = 1 .. Len(rootMoves) /\ Len(rootMoves) \in Nat
      /\ pv.value \in Int /\ rootMoves \in Seq([move : Moves(game), value : Int])
  BY <1>2, NumbersTyped DEF TypeOK, BoardTyped
<1>7. \A j \in DOMAIN rootMoves : ValueAt(j) \in Int
  <2>1. ASSUME NEW j \in DOMAIN rootMoves
        PROVE  rootMoves[j] \in [move : Moves(game), value : Int]
    BY <1>6, ElementOfSeq
  <2> QED BY <2>1 DEF ValueAt
<1>8. p[1] = f
  <2>1. PICK k \in DOMAIN rootMoves : p[k] = f
    BY <1>2, <1>4, <1>5, SortOntoAll
  <2>2. SUFFICES ASSUME k # 1 PROVE FALSE
    BY <2>1
  <2>3. 1 \in DOMAIN rootMoves /\ 1 < k
    BY <1>1, <1>6, <2>1, <2>2
  <2>4. Precedes(p[1], f) /\ p[1] \in DOMAIN rootMoves
    BY <1>4, <2>1, <2>3
  <2>5. ValueAt(f) = pv.value /\ \A j \in 1 .. f - 1 : ValueAt(j) < pv.value
    BY <1>5 DEF Leader, ValueAt
  <2>6. \/ ValueAt(p[1]) > ValueAt(f)
        \/ ValueAt(p[1]) = ValueAt(f) /\ p[1] < f
    BY <2>4 DEF Precedes, ValueAt
  <2>7. ValueAt(p[1]) <= pv.value /\ ValueAt(p[1]) \in Int
    BY <1>3, <1>7, <2>4
  <2>8. ValueAt(p[1]) = ValueAt(f) /\ p[1] < f
    BY <1>6, <2>5, <2>6, <2>7
  <2>9. p[1] \in 1 .. f - 1
    BY <1>6, <2>4, <2>8
  <2>10. ValueAt(p[1]) < pv.value
    BY <2>5, <2>9
  <2> QED BY <1>6, <2>5, <2>8, <2>10
<1>9. rootMoves'[1] = [move |-> pv.move, value |-> pv.value]
  BY <1>1, <1>4, <1>5, <1>6, <1>8 DEF Leader
<1>10. DOMAIN rootMoves' = DOMAIN rootMoves
  BY <1>4
<1>11. \A j \in DOMAIN rootMoves' : rootMoves'[j].value <= pv.value
  BY <1>3, <1>4 DEF ValueAt
<1>12. IsBestMove'
  <2>1. Truth(pv.move)' = Truth(pv.move)
    BY <1>1 DEF Truth
  <2>2. ASSUME pv.value < search.beta, NEW j \in DOMAIN rootMoves'
        PROVE  game.truth[search.depth][rootMoves'[j].move] <= pv.value
    <3>1. p[j] \in DOMAIN rootMoves /\ rootMoves'[j] = rootMoves[p[j]]
      BY <1>4, <1>10, <2>2
    <3>2. WorthAt(p[j]) <= pv.value
      BY <1>3, <2>2, <3>1 DEF IsBestMove
    <3> QED BY <3>1, <3>2 DEF WorthAt, Truth
  <2> QED BY <1>1, <1>3, <2>1, <2>2 DEF IsBestMove, WorthAt, Truth
<1>13. DeepenOK'
  BY <1>1, <1>3, <1>9, <1>11, <1>12 DEF DeepenOK, ValueAt, InRange
<1>14. WindowOK' /\ StaleOK' /\ LoopOK' /\ ChildOK' /\ ReturnedOK' /\ IteratedOK' /\ KeptOK'
  BY <1>1 DEF WindowOK, StaleOK, LoopOK, ChildOK, ReturnedOK, IteratedOK, KeptOK, InLoop, RootLabels
<1> QED BY <1>13, <1>14 DEF BestInv

-----------------------------------------------------------------------------
LEMMA BestInit == Init => BestInv
BY DEF Init, BestInv, WindowOK, StaleOK, LoopOK, ChildOK, ReturnedOK, IteratedOK, DeepenOK,
       KeptOK, InLoop, RootLabels

LEMMA BestStep == IInv /\ BestInv /\ [Next]_vars => BestInv'
<1> SUFFICES ASSUME IInv, BestInv, [Next]_vars PROVE BestInv'
  OBVIOUS
<1>1. IInv'
  BY InvStep
<1>2. CASE StartSearch \/ PlayBook \/ GameIsOver \/ Finish
  BY <1>2, BestOutside DEF StartSearch, PlayBook, GameIsOver, Finish
<1>3. CASE BeginDeepening
  <2>1. pc' = "deepen" /\ search' = search /\ search.depth = 0
    BY <1>3 DEF BeginDeepening, IInv, RootsOK
  <2> QED BY <2>1 DEF BestInv, WindowOK, StaleOK, LoopOK, ChildOK, ReturnedOK, IteratedOK,
           DeepenOK, KeptOK, InLoop, RootLabels
<1>4. CASE Deepen \/ DeepEnough
  BY <1>1, <1>4, BestDeepen, BestDeepEnough
<1>5. CASE RootStep
  BY <1>1, <1>5, BestSearched, BestOnceStopped, BestStore DEF RootStep
<1>6. CASE AspirationStep
  BY <1>1, <1>6, BestInside, BestOnceStopped, BestFailLow, BestFailHigh DEF AspirationStep
<1>7. CASE StopDeepening \/ NextIteration \/ RaiseStop
  BY <1>1, <1>7, BestOnceStopped, BestNextIteration
<1>8. CASE UNCHANGED vars
  <2>1. UNCHANGED <<game, pc, stopSearchFlag, rootMoves, pv, search, node>>
    BY <1>8 DEF vars
  <2>2. /\ \A j : WorthAt(j)' = WorthAt(j) /\ ValueAt(j)' = ValueAt(j)
        /\ \A m : Truth(m)' = Truth(m) /\ (FailingLow(m)' <=> FailingLow(m))
        /\ Move' = Move
    BY <2>1, SameMoves DEF FailingLow, Move
  <2>3. WindowOK' /\ StaleOK' /\ LoopOK'
    BY <2>1, <2>2, SameMoves DEF BestInv, WindowOK, StaleOK, LoopOK, InLoop
  <2>4. ChildOK' /\ ReturnedOK' /\ IteratedOK'
    BY <2>1, <2>2, SameMoves DEF BestInv, ChildOK, ReturnedOK, IteratedOK
  <2>5. DeepenOK' /\ KeptOK'
    BY <2>1, <2>2, SameMoves DEF BestInv, DeepenOK, KeptOK
  <2> QED BY <2>3, <2>4, <2>5 DEF BestInv
<1> QED BY <1>2, <1>3, <1>4, <1>5, <1>6, <1>7, <1>8 DEF Next

LEMMA BestHolds == Spec => [](IInv /\ BestInv)
<1>1. Init => IInv /\ BestInv
  BY InvInit, BestInit
<1>2. IInv /\ BestInv /\ [Next]_vars => (IInv /\ BestInv)'
  BY InvStep, BestStep
<1> QED BY <1>1, <1>2, PTL DEF Spec

(***************************************************************************)
(* The assertions of iterativeDeepening() hold for every game, every       *)
(* number of root moves and every depth: an iteration that was not stopped *)
(* returns the value of the head of pv[0], which the sort puts first among *)
(* the root moves, although rootSearch() leaves old values behind.         *)
(***************************************************************************)
THEOREM BestMoveAlwaysFirst == Spec => []BestMoveIsFirst
<1>1. IInv /\ BestInv => BestMoveIsFirst
  BY DEF BestInv, IteratedOK, DeepenOK, BestMoveIsFirst
<1> QED BY BestHolds, <1>1, PTL

(***************************************************************************)
(* Every finished iteration has the best move and its value, whatever      *)
(* windows were missed (rootSearch, aspirationSearch).                     *)
(***************************************************************************)
THEOREM IterationsFindBest == Spec => []FinishedIsBest
<1>1. IInv /\ BestInv => FinishedIsBest
  BY DEF BestInv, DeepenOK, FinishedIsBest, IsBestMove, WorthAt
<1> QED BY BestHolds, <1>1, PTL

(***************************************************************************)
(* A stop at any moment of a later iteration leaves a move to answer that  *)
(* is the old best one or better, unless that one fails low (rootSearch,   *)
(* iterativeDeepening).                                                    *)
(***************************************************************************)
THEOREM StopNeverLosesBest == Spec => []StopKeepsBest
<1>1. IInv /\ BestInv => StopKeepsBest
  BY DEF BestInv, KeptOK, StopKeepsBest, WorthAt
<1> QED BY BestHolds, <1>1, PTL
=============================================================================
