----------------------------- MODULE SearchNode -----------------------------
(***************************************************************************)
(* search() and qsearch(): the search of the nodes below a root move, as a *)
(* stack of frames, so that the stop flag can rise between any two         *)
(* statements that read it.  One action is the code between two such       *)
(* reads, two calls or two turns of the move loop.                         *)
(*                                                                         *)
(* A game is a finite graph of positions given as data: moves, captures,   *)
(* checks, evaluations, draws.  The order in which the generator returns   *)
(* the moves after the PV move is left open.  The transposition table has  *)
(* room for every position (TranspositionTable models what it loses).      *)
(* History counters and statistics are left out: they only order moves or  *)
(* are printed.  The switches of SearchConfig are the set features.        *)
(***************************************************************************)
EXTENDS SearchValues, Sequences, FiniteSets

CONSTANTS
  Games,            \* see IsGame
  FeatureSets,      \* the settings of SearchConfig: sets of names of switches
  RAZOR_MARGIN, RFP_MARGIN, FP_MARGIN, QFP_MARGIN,
  NMP_DEPTH, NMP_REDUCTION, IID_DEPTH, IID_REDUCTION,
  LMR_MIN_DEPTH, LMR_MIN_MOVES, LMR_REDUCTION, LMP_MOVES,
  MOVE_NONE

(***************************************************************************)
(* A game: the nodes are positions, to[n][m] is the one after the legal    *)
(* move m; illegal[n], captures[n], good[n] are its pseudo-legal moves     *)
(* that are not legal, its captures and promotions, and those See is for;  *)
(* check, drawn: positions in check, drawn by repetition or 50 moves; eval *)
(* the evaluation, never that of a mate; gain what a capture wins at most; *)
(* pass[n] the position after a null move; roots: the calls that           *)
(* rootSearch() may make, at most "calls" of them in a search, and         *)
(* "searches" is the number of searches after the first one.               *)
(***************************************************************************)
IsRoot(c, g) ==
  /\ c.node \in DOMAIN g.to /\ c.depth \in 0 .. MAX_DEPTH
  /\ c.alpha \in VALUE_MIN .. VALUE_MAX /\ c.beta \in VALUE_MIN .. VALUE_MAX
  /\ c.alpha < c.beta /\ c.isPv \in BOOLEAN

IsGame(g) ==
  /\ 0 \notin DOMAIN g.to
  /\ \A n \in DOMAIN g.to :
       /\ \A m \in DOMAIN g.to[n] : g.to[n][m] \in DOMAIN g.to
       /\ g.eval[n] \in -VALUE_CHECKMATE_THRESHOLD .. VALUE_CHECKMATE_THRESHOLD
  /\ \A n \in DOMAIN g.pass : g.pass[n] \in DOMAIN g.to
  /\ g.gain \in Nat
  /\ \A c \in g.roots : IsRoot(c, g)

ASSUME SearchAssumption ==
  /\ MAX_DEPTH >= 1
  /\ NMP_REDUCTION \in Nat /\ IID_REDUCTION \in Nat /\ LMR_REDUCTION \in Nat
  /\ QFP_MARGIN \in Nat /\ \A d \in 1 .. 3 : RFP_MARGIN[d] \in Nat
  /\ \A g \in Games : IsGame(g)

VARIABLES
  game, features,
  stack,            \* the frames of search and qsearch, the innermost last
  result,           \* the last value returned, and the call that returned it
  tt, pv, mg,       \* the table; PV and move generator of each ply
  stopSearchFlag,
  calls,            \* the depths of the calls of rootSearch in this search
  searches          \* searches that were run before

vars == <<game, features, stack, result, tt, pv, mg, stopSearchFlag, calls, searches>>
setting == <<game, features, calls, searches>>

-----------------------------------------------------------------------------
(***************************************************************************)
(* Positions.                                                              *)
(***************************************************************************)
Nodes == DOMAIN game.to
Legal(n) == DOMAIN game.to[n]
Child(n, m) == game.to[n][m]
PseudoLegal(n) == Legal(n) \cup game.illegal[n]
NonQuiet(n) == game.captures[n]
HasCheck(n) == n \in game.check
Eval(n) == game.eval[n]
GivesCheck(n, m) == m \in Legal(n) /\ HasCheck(Child(n, m))

(* checkDrawRepAnd50(): a repetition or the 50-moves rule. *)
Drawn(n) == n \in game.drawn

(* See::see(p, move) > 0. *)
GoodCapture(n, m) == m \in game.good[n]

On(feature) == feature \in features
Larger(a, b) == IF a >= b THEN a ELSE b
Smaller(a, b) == IF a <= b THEN a ELSE b

-----------------------------------------------------------------------------
(***************************************************************************)
(* Frames, calls and returns.                                              *)
(***************************************************************************)
SearchCall(n, depth, ply, alpha, beta, isPv, doNull) ==
  [fn |-> "search", node |-> n, depth |-> depth, ply |-> ply,
   alpha |-> alpha, beta |-> beta, isPv |-> isPv, doNull |-> doNull]

QsearchCall(n, ply, alpha, beta, isPv) ==
  [SearchCall(n, 0, ply, alpha, beta, isPv, FALSE) EXCEPT !.fn = "qsearch"]

Frame(c) ==
  [call |-> c, pc |-> "enter", alpha |-> c.alpha, beta |-> c.beta,
   bestNodeValue |-> VALUE_NONE, bestNodeMove |-> MOVE_NONE,
   ttMove |-> MOVE_NONE, ttType |-> "ALPHA", staticEval |-> VALUE_NONE,
   matethreat |-> FALSE, move |-> MOVE_NONE, newDepth |-> 0, lmrDepth |-> 0,
   movesSearched |-> 0]

NoResult == [value |-> VALUE_NONE, call |-> SearchCall(0, 0, 0, 0, 0, FALSE, FALSE)]

Top == stack[Len(stack)]
Under == SubSeq(stack, 1, Len(stack) - 1)
At(pc) == stack # <<>> /\ Top.pc = pc
In(fn) == Top.call.fn = fn

Goto(f) == stack' = Append(Under, f)
CallFrom(f, c) == stack' = Under \o <<f, Frame(c)>>
Return(v) == stack' = Under /\ result' = [value |-> v, call |-> Top.call]

node == Top.call.node
depth == Top.call.depth
ply == Top.call.ply

-----------------------------------------------------------------------------
(***************************************************************************)
(* The transposition table.                                                *)
(***************************************************************************)
NoEntry == [move |-> MOVE_NONE, depth |-> -1, value |-> VALUE_NONE, type |-> "NONE",
            eval |-> VALUE_NONE]

Probe(f) ==
  IF On("TT") /\ (f.call.fn = "qsearch" => On("QS_TT")) THEN tt[f.call.node] ELSE NoEntry

(* Seeded fault: the type of the entry stays when its value is replaced. *)
PutKeepingType(n, d, move, value, type, eval) ==
  LET e == tt[n]
      new == [move |-> move, depth |-> d, value |-> value, type |-> type, eval |-> eval]
      kept == [e EXCEPT !.move = IF move = MOVE_NONE THEN @ ELSE move,
                        !.eval = IF eval = VALUE_NONE THEN @ ELSE eval]
  IN  [tt EXCEPT ![n] =
         IF e.value = VALUE_NONE THEN new
         ELSE IF value = VALUE_NONE THEN kept
         ELSE [kept EXCEPT !.depth = d, !.value = value]]

(* TT::put: an update preserves what the new result does not give. *)
Put(n, d, move, value, type, eval) ==
  LET e == tt[n]
      new == [move |-> move, depth |-> d, value |-> value, type |-> type, eval |-> eval]
      kept == [e EXCEPT !.move = IF move = MOVE_NONE THEN @ ELSE move,
                        !.eval = IF eval = VALUE_NONE THEN @ ELSE eval]
  IN  [tt EXCEPT ![n] =
         IF e = NoEntry THEN new
         ELSE IF value = VALUE_NONE THEN kept
         ELSE [kept EXCEPT !.depth = d, !.value = value, !.type = type]]

storeTt(d, move, value, type, eval) ==
  tt' = Put(node, d, move, valueToTt(value, ply), type, eval)

(* Seeded fault: the depth of the entry is not looked at. *)
UsableAtAnyDepth(e, f) ==
  LET v == valueFromTt(e.value, f.call.ply)
  IN  /\ e # NoEntry /\ On("TT_VALUE") /\ validValue(v)
      /\ \/ e.type = "EXACT"
         \/ e.type = "ALPHA" /\ v <= f.alpha
         \/ e.type = "BETA" /\ v >= f.beta

(* The entry answers the call: it is deep enough, and exact or a bound that *)
(* lies outside the window.                                                 *)
Usable(e, f) ==
  LET v == valueFromTt(e.value, f.call.ply)
  IN  /\ e # NoEntry /\ On("TT_VALUE") /\ validValue(v)
      /\ f.call.fn = "search" => e.depth >= f.call.depth
      /\ \/ e.type = "EXACT"
         \/ e.type = "ALPHA" /\ v <= f.alpha
         \/ e.type = "BETA" /\ v >= f.beta

(* getPvLine: the moves of the table from n on, at most d of them. *)
PvLine(n, d) ==
  LET line[k \in 0 .. d] ==
        [x \in Nodes |-> IF k = 0 \/ tt[x].move = MOVE_NONE THEN <<>>
                         ELSE <<tt[x].move>> \o line[k - 1][Child(x, tt[x].move)]]
  IN  line[d][n]

-----------------------------------------------------------------------------
(***************************************************************************)
(* Entering a node.                                                        *)
(***************************************************************************)
Horizon(f) == f.call.fn = "search" /\ (f.call.depth = 0 \/ f.call.ply >= MAX_DEPTH)
EvaluatesOnly(f) ==
  f.call.fn = "qsearch" /\ (~On("QUIESCENCE") \/ f.call.ply >= MAX_DEPTH)

EnterQuiescence ==
  /\ At("enter") /\ Horizon(Top)
  /\ Goto(Frame(QsearchCall(node, ply, Top.alpha, Top.beta, Top.call.isPv)))
  /\ UNCHANGED <<setting, result, tt, pv, mg, stopSearchFlag>>

EvaluateOnly ==
  /\ At("enter") /\ EvaluatesOnly(Top)
  /\ Return(Eval(node))
  /\ UNCHANGED <<setting, tt, pv, mg, stopSearchFlag>>

EnterStopped ==
  /\ At("enter") /\ ~Horizon(Top) /\ ~EvaluatesOnly(Top) /\ stopSearchFlag
  /\ Return(VALUE_NONE)
  /\ UNCHANGED <<setting, tt, pv, mg, stopSearchFlag>>

(* Mate distance pruning. *)
Narrowed(f) ==
  IF On("MDP")
  THEN [f EXCEPT !.alpha = Larger(@, -VALUE_CHECKMATE + f.call.ply),
                 !.beta  = Smaller(@, VALUE_CHECKMATE - f.call.ply)]
  ELSE f

(* The node after the probe, if the entry does not answer the call. *)
Looked(f, e) ==
  [f EXCEPT !.ttMove = e.move,
            !.staticEval = IF On("EVAL_TT") THEN e.eval ELSE VALUE_NONE]

Opening == At("enter") /\ ~Horizon(Top) /\ ~EvaluatesOnly(Top) /\ ~stopSearchFlag
MateDistanceCuts(f) == On("MDP") /\ f.alpha >= f.beta

MateDistanceCut ==
  /\ Opening /\ MateDistanceCuts(Narrowed(Top))
  /\ Return(Narrowed(Top).alpha)
  /\ UNCHANGED <<setting, tt, pv, mg, stopSearchFlag>>

TtCut ==
  LET f == Narrowed(Top)
  IN  /\ Opening /\ ~MateDistanceCuts(f) /\ Usable(Probe(f), f)
      /\ Return(valueFromTt(Probe(f).value, ply))
      /\ pv' = IF In("search") THEN [pv EXCEPT ![ply] = PvLine(node, depth)] ELSE pv
      /\ UNCHANGED <<setting, tt, mg, stopSearchFlag>>

Evaluated(f) ==
  IF ~HasCheck(f.call.node) /\ f.staticEval = VALUE_NONE
  THEN [f EXCEPT !.staticEval = Eval(f.call.node)]
  ELSE f

EnterSearch ==
  LET f == Looked(Narrowed(Top), Probe(Top))
      g == Evaluated(f)
  IN  /\ Opening /\ In("search")
      /\ ~MateDistanceCuts(Narrowed(Top)) /\ ~Usable(Probe(Top), Narrowed(Top))
      /\ Goto([g EXCEPT !.pc = "prune"])
      /\ IF g # f /\ On("TT") /\ On("EVAL_TT")
         THEN tt' = Put(node, 0, MOVE_NONE, VALUE_NONE, "NONE", g.staticEval)
         ELSE UNCHANGED tt
      /\ UNCHANGED <<setting, result, pv, mg, stopSearchFlag>>

-----------------------------------------------------------------------------
(***************************************************************************)
(* search() before the move loop.                                          *)
(***************************************************************************)
Razors(f) ==
  /\ On("RAZORING") /\ f.call.depth = 1 /\ f.staticEval # VALUE_NONE
  /\ f.staticEval <= f.alpha - RAZOR_MARGIN

ReverseFutile(f) ==
  /\ On("RFP") /\ f.call.doNull /\ f.call.depth <= 3 /\ ~f.call.isPv
  /\ ~HasCheck(f.call.node)
  /\ f.staticEval - RFP_MARGIN[f.call.depth] >= f.beta

(* The side to move has officers exactly where game.pass is defined. *)
TriesNullMove(f) ==
  /\ On("NMP") /\ f.call.doNull /\ ~f.call.isPv /\ f.call.depth >= NMP_DEPTH
  /\ f.call.node \in DOMAIN game.pass /\ ~HasCheck(f.call.node)

ReducedDepth(d, r) == Larger(d - r, 0)

NullMoveDepth(d) ==
  LET r == IF d > 8 \/ (d > 6 /\ game.middleGame) THEN NMP_REDUCTION + 1 ELSE NMP_REDUCTION
  IN  ReducedDepth(d, r + 1)

Razor ==
  /\ At("prune") /\ Razors(Top)
  /\ Goto(Frame(QsearchCall(node, ply, Top.alpha, Top.beta, TRUE)))
  /\ UNCHANGED <<setting, result, tt, pv, mg, stopSearchFlag>>

ReverseFutilityCut ==
  /\ At("prune") /\ ~Razors(Top) /\ ReverseFutile(Top)
  /\ Return(Top.staticEval - RFP_MARGIN[depth])
  /\ UNCHANGED <<setting, tt, pv, mg, stopSearchFlag>>

NullMove ==
  /\ At("prune") /\ ~Razors(Top) /\ ~ReverseFutile(Top) /\ TriesNullMove(Top)
  /\ CallFrom([Top EXCEPT !.pc = "nullMoved"],
              SearchCall(game.pass[node], NullMoveDepth(depth), ply + 1,
                         -Top.beta, -Top.beta + 1, FALSE, FALSE))
  /\ UNCHANGED <<setting, result, tt, pv, mg, stopSearchFlag>>

NoNullMove ==
  /\ At("prune") /\ ~Razors(Top) /\ ~ReverseFutile(Top) /\ ~TriesNullMove(Top)
  /\ Goto([Top EXCEPT !.pc = "iid"])
  /\ UNCHANGED <<setting, result, tt, pv, mg, stopSearchFlag>>

(* Seeded fault: a mate after two moves in a row counts as a mate. *)
NullMoveValueUncapped == -result.value

(* A mate after the null move, two moves in a row, is not proved. *)
NullMoveValue == Smaller(-result.value, VALUE_CHECKMATE_THRESHOLD)

NullMoveCut ==
  /\ At("nullMoved") /\ ~stopSearchFlag /\ NullMoveValue >= Top.beta
  /\ Return(NullMoveValue)
  /\ IF On("TT") THEN storeTt(depth, Top.ttMove, NullMoveValue, "BETA", Top.staticEval)
     ELSE UNCHANGED tt
  /\ UNCHANGED <<setting, pv, mg, stopSearchFlag>>

NullMoveFailed ==
  /\ At("nullMoved") /\ ~stopSearchFlag /\ NullMoveValue < Top.beta
  /\ Goto([Top EXCEPT !.pc = "iid",
                      !.matethreat = -result.value < VALUE_CHECKMATE_THRESHOLD])
  /\ UNCHANGED <<setting, result, tt, pv, mg, stopSearchFlag>>

TriesIid(f) ==
  /\ On("IID") /\ f.call.depth >= IID_DEPTH /\ f.ttMove = MOVE_NONE
  /\ f.call.doNull /\ f.call.isPv

Iid ==
  /\ At("iid") /\ TriesIid(Top)
  /\ CallFrom([Top EXCEPT !.pc = "iidSearched"],
              SearchCall(node, ReducedDepth(depth, IID_REDUCTION), ply,
                         Top.alpha, Top.beta, Top.call.isPv, Top.call.doNull))
  /\ UNCHANGED <<setting, result, tt, pv, mg, stopSearchFlag>>

(* The stop flag is read again after the null move and after IID. *)
ReductionStopped ==
  /\ At("nullMoved") \/ At("iidSearched")
  /\ stopSearchFlag
  /\ Return(VALUE_NONE)
  /\ UNCHANGED <<setting, tt, pv, mg, stopSearchFlag>>

-----------------------------------------------------------------------------
(***************************************************************************)
(* The move loop of search() and qsearch().                                *)
(***************************************************************************)
(* Seeded fault: the PV of this ply is not emptied. *)
StartLoopKeepingPv(f) ==
  /\ Goto([f EXCEPT !.pc = "moves"])
  /\ mg' = [mg EXCEPT
       ![f.call.ply].left = IF f.call.fn = "search" \/ HasCheck(f.call.node)
                            THEN PseudoLegal(f.call.node) ELSE NonQuiet(f.call.node),
       ![f.call.ply].pvMove = IF On("TT_PV_MOVE_SORT") THEN f.ttMove ELSE MOVE_NONE]
  /\ UNCHANGED pv

(* The generator of this ply starts fresh and the PV of this ply is empty. *)
(* Without a check, qsearch() generates captures and promotions only.      *)
StartLoop(f) ==
  /\ Goto([f EXCEPT !.pc = "moves"])
  /\ mg' = [mg EXCEPT
       ![f.call.ply].left = IF f.call.fn = "search" \/ HasCheck(f.call.node)
                            THEN PseudoLegal(f.call.node) ELSE NonQuiet(f.call.node),
       ![f.call.ply].pvMove = IF On("TT_PV_MOVE_SORT") THEN f.ttMove ELSE MOVE_NONE]
  /\ pv' = [pv EXCEPT ![f.call.ply] = <<>>]

StartMoves ==
  /\ At("iid") /\ ~TriesIid(Top)
  /\ StartLoop(Top)
  /\ UNCHANGED <<setting, result, tt, stopSearchFlag>>

StartMovesAfterIid ==
  /\ At("iidSearched") /\ ~stopSearchFlag
  /\ StartLoop([Top EXCEPT !.ttMove = IF pv[ply] = <<>> THEN @ ELSE Head(pv[ply])])
  /\ UNCHANGED <<setting, result, tt, stopSearchFlag>>

(* The static evaluation stands for the moves that qsearch() leaves out. *)
StandPat(f) == On("STANDPAT") /\ ~HasCheck(f.call.node) /\ f.staticEval >= f.beta

QsearchNode == Evaluated(Looked(Narrowed(Top), Probe(Top)))

OpeningQsearch ==
  /\ Opening /\ In("qsearch")
  /\ ~MateDistanceCuts(Narrowed(Top)) /\ ~Usable(Probe(Top), Narrowed(Top))

StandPatCut ==
  /\ OpeningQsearch /\ StandPat(QsearchNode)
  /\ Return(QsearchNode.staticEval)
  /\ IF On("TT") /\ On("QS_TT") /\ On("EVAL_TT")
     THEN storeTt(0, MOVE_NONE, VALUE_NONE, "NONE", QsearchNode.staticEval)
     ELSE UNCHANGED tt
  /\ UNCHANGED <<setting, pv, mg, stopSearchFlag>>

EnterQsearch ==
  LET f == QsearchNode
  IN  /\ OpeningQsearch /\ ~StandPat(f)
      /\ StartLoop(IF HasCheck(node) THEN f
                   ELSE [f EXCEPT !.bestNodeValue = f.staticEval,
                                  !.alpha = IF On("STANDPAT") THEN Larger(@, f.staticEval) ELSE @])
      /\ UNCHANGED <<setting, result, tt, stopSearchFlag>>

(* The PV move comes first; the order of the others is the generator's. *)
NextMoves ==
  LET g == mg[ply] IN IF g.pvMove \in g.left THEN {g.pvMove} ELSE g.left

Take(m) == mg' = [mg EXCEPT ![ply].left = @ \ {m}]

IsKiller(m) == \E i \in 1 .. Len(mg[ply].killers) : mg[ply].killers[i] = m

(* Search extensions; the reduction never adds depth. *)
Extension(m) ==
  IF /\ On("EXTENSIONS")
     /\ \/ On("CHECK_EXT") /\ GivesCheck(node, m)
        \/ On("THREAT_EXT") /\ Top.matethreat
  THEN 1 ELSE 0

NewDepth(m) == depth - 1 + (IF On("EXT_ADD_DEPTH") THEN Extension(m) ELSE 0)

(* Forward pruning spares the interesting moves. *)
Prunable(m) ==
  /\ In("search") /\ ~Top.call.isPv /\ Extension(m) = 0
  /\ m # Top.ttMove /\ ~IsKiller(m) /\ m \notin NonQuiet(node)
  /\ ~HasCheck(node) /\ ~GivesCheck(node, m) /\ ~Top.matethreat

Futile(m) ==
  /\ Prunable(m) /\ On("FP") /\ depth < 7
  /\ Top.staticEval + FP_MARGIN[depth] <= Top.alpha

TooLate(m) == Prunable(m) /\ On("LMP") /\ Top.movesSearched >= LMP_MOVES[Smaller(depth, 15)]

LmrDepth(m) ==
  IF ~(Prunable(m) /\ On("LMR")) THEN depth - 1
  ELSE IF depth >= LMR_MIN_DEPTH /\ Top.movesSearched >= LMR_MIN_MOVES
       THEN ReducedDepth(depth - 1, LMR_REDUCTION)
       ELSE depth - 1

QFutile(m) ==
  /\ In("qsearch") /\ On("QFP") /\ ~Top.call.isPv
  /\ m # Top.ttMove /\ ~IsKiller(m) /\ ~HasCheck(node) /\ ~GivesCheck(node, m)
  /\ Top.staticEval + game.gain + QFP_MARGIN <= Top.alpha

BadCapture(m) == In("qsearch") /\ ~HasCheck(node) /\ ~GoodCapture(node, m)

Skipped(m) ==
  Futile(m) \/ TooLate(m) \/ QFutile(m) \/ BadCapture(m) \/ m \notin Legal(node)

(* A futile move counts with the value it cannot exceed. *)
Optimistic(m) ==
  IF Futile(m) THEN Larger(Top.bestNodeValue, Top.staticEval)
  ELSE IF QFutile(m) THEN Larger(Top.bestNodeValue, Top.staticEval + game.gain)
  ELSE Top.bestNodeValue

SkipMove ==
  /\ At("moves")
  /\ \E m \in NextMoves :
       /\ Skipped(m)
       /\ Take(m)
       /\ Goto([Top EXCEPT !.bestNodeValue = Optimistic(m)])
  /\ UNCHANGED <<setting, result, tt, pv, stopSearchFlag>>

(* doMove, the check for a draw, and the first call for the move. *)
Entered(m) ==
  [Top EXCEPT !.move = m, !.newDepth = NewDepth(m), !.lmrDepth = LmrDepth(m)]

MoveToDraw ==
  /\ At("moves")
  /\ \E m \in NextMoves :
       /\ ~Skipped(m) /\ Drawn(Child(node, m))
       /\ Take(m)
       /\ Goto([Entered(m) EXCEPT !.pc = "searched"])
  /\ result' = [NoResult EXCEPT !.value = VALUE_DRAW]
  /\ UNCHANGED <<setting, tt, pv, stopSearchFlag>>

FullWindow(n, d) ==
  SearchCall(n, d, ply + 1, -Top.beta, -Top.alpha, TRUE, TRUE)

NullWindow(n, d) ==
  SearchCall(n, d, ply + 1, -Top.alpha - 1, -Top.alpha, FALSE, TRUE)

MoveSearched ==
  /\ At("moves") /\ In("search")
  /\ ~On("PVS") \/ Top.movesSearched = 0
  /\ \E m \in NextMoves :
       /\ ~Skipped(m) /\ ~Drawn(Child(node, m))
       /\ Take(m)
       /\ CallFrom([Entered(m) EXCEPT !.pc = "searched"], FullWindow(Child(node, m), NewDepth(m)))
  /\ UNCHANGED <<setting, result, tt, pv, stopSearchFlag>>

MoveProbed ==
  /\ At("moves") /\ In("search") /\ On("PVS") /\ Top.movesSearched > 0
  /\ \E m \in NextMoves :
       /\ ~Skipped(m) /\ ~Drawn(Child(node, m))
       /\ Take(m)
       /\ CallFrom([Entered(m) EXCEPT !.pc = "probed"], NullWindow(Child(node, m), LmrDepth(m)))
  /\ UNCHANGED <<setting, result, tt, pv, stopSearchFlag>>

MoveQsearched ==
  /\ At("moves") /\ In("qsearch")
  /\ \E m \in NextMoves :
       /\ ~Skipped(m) /\ ~Drawn(Child(node, m))
       /\ Take(m)
       /\ CallFrom([Entered(m) EXCEPT !.pc = "searched"],
                   QsearchCall(Child(node, m), ply + 1, -Top.beta, -Top.alpha, Top.call.isPv))
  /\ UNCHANGED <<setting, result, tt, pv, stopSearchFlag>>

value == -result.value

(* The null window search says that the move is better than alpha. *)
Unsure ==
  value > Top.alpha /\ (Top.lmrDepth < Top.newDepth \/ value < Top.beta)

MoveResearched ==
  /\ At("probed") /\ ~stopSearchFlag /\ Unsure
  /\ CallFrom([Top EXCEPT !.pc = "searched"],
              FullWindow(Child(node, Top.move), Top.newDepth))
  /\ UNCHANGED <<setting, result, tt, pv, mg, stopSearchFlag>>

(* The code goes on to undoMove with the value it has; that read of the    *)
(* flag and the next one are apart.                                        *)
ProbeSuffices ==
  /\ At("probed")
  /\ stopSearchFlag \/ ~Unsure
  /\ Goto([Top EXCEPT !.pc = "searched"])
  /\ UNCHANGED <<setting, result, tt, pv, mg, stopSearchFlag>>

(* Seeded fault: the flag is not read again after a move. *)
NeverInterrupted == FALSE

(* The value of the move is worthless once the flag is up. *)
Interrupted == stopSearchFlag

MoveStopped ==
  /\ At("searched") /\ Interrupted
  /\ Return(VALUE_NONE)
  /\ UNCHANGED <<setting, tt, pv, mg, stopSearchFlag>>

Undone == [Top EXCEPT !.pc = "moves", !.movesSearched = @ + 1]
Better == [Undone EXCEPT !.bestNodeValue = value, !.bestNodeMove = Top.move]
Cuts == value >= Top.beta /\ On("ALPHABETA")

MoveNoBetter ==
  /\ At("searched") /\ ~Interrupted /\ value <= Top.bestNodeValue
  /\ Goto(Undone)
  /\ UNCHANGED <<setting, result, tt, pv, mg, stopSearchFlag>>

MoveBest ==
  /\ At("searched") /\ ~Interrupted
  /\ value > Top.bestNodeValue /\ value <= Top.alpha
  /\ Goto(Better)
  /\ UNCHANGED <<setting, result, tt, pv, mg, stopSearchFlag>>

(* savePV *)
MoveRaisesAlpha ==
  /\ At("searched") /\ ~Interrupted
  /\ value > Top.bestNodeValue /\ value > Top.alpha /\ ~Cuts
  /\ Goto([Better EXCEPT !.alpha = value, !.ttType = "EXACT"])
  /\ pv' = [pv EXCEPT ![ply] = <<Top.move>> \o pv[ply + 1]]
  /\ UNCHANGED <<setting, result, tt, mg, stopSearchFlag>>

storeKiller(m) ==
  LET k == mg[ply].killers
  IN  IF ~On("KILLER") \/ m \in NonQuiet(node) \/ (k # <<>> /\ Head(k) = m) THEN mg
      ELSE [mg EXCEPT ![ply].killers = <<m>> \o SubSeq(k, 1, Smaller(1, Len(k)))]

(* break: the node ends with its store. *)
BetaCut ==
  /\ At("searched") /\ ~Interrupted
  /\ value > Top.bestNodeValue /\ value > Top.alpha /\ Cuts
  /\ mg' = storeKiller(Top.move)
  /\ Goto([Better EXCEPT !.pc = "end", !.ttType = "BETA"])
  /\ UNCHANGED <<setting, result, tt, pv, stopSearchFlag>>

NoMoreMoves ==
  /\ At("moves") /\ mg[ply].left = {}
  /\ Goto([Top EXCEPT !.pc = "end"])
  /\ UNCHANGED <<setting, result, tt, pv, mg, stopSearchFlag>>

(* Without a legal move it is mate, or stalemate in search(). *)
Ended(f) ==
  IF f.movesSearched > 0 \/ stopSearchFlag THEN f
  ELSE IF HasCheck(f.call.node)
  THEN [f EXCEPT !.bestNodeValue = -VALUE_CHECKMATE + f.call.ply, !.ttType = "EXACT",
                 !.staticEval = IF f.call.fn = "search"
                                THEN -VALUE_CHECKMATE + f.call.ply ELSE @]
  ELSE IF f.call.fn = "search"
  THEN [f EXCEPT !.bestNodeValue = VALUE_DRAW, !.ttType = "EXACT", !.staticEval = VALUE_DRAW]
  ELSE f

Leave ==
  LET f == Ended(Top)
      d == IF In("search") THEN depth ELSE 1
  IN  /\ At("end")
      /\ Return(f.bestNodeValue)
      /\ IF On("TT") /\ (In("search") \/ On("QS_TT"))
         THEN storeTt(d, f.bestNodeMove, f.bestNodeValue, f.ttType, f.staticEval)
         ELSE UNCHANGED tt
      /\ UNCHANGED <<setting, pv, mg, stopSearchFlag>>

-----------------------------------------------------------------------------
(***************************************************************************)
(* The caller and the other threads.                                       *)
(***************************************************************************)
Plies == 0 .. MAX_DEPTH
NewGenerator == [left |-> {}, pvMove |-> MOVE_NONE, killers |-> <<>>]

Init ==
  /\ game \in Games /\ features \in FeatureSets
  /\ stack = <<>> /\ result = NoResult
  /\ tt = [n \in Nodes |-> NoEntry]
  /\ pv = [p \in Plies |-> <<>>]
  /\ mg = [p \in Plies |-> NewGenerator]
  /\ stopSearchFlag = FALSE /\ calls = <<>> /\ searches = 0

(* rootSearch() calls with the depths of iterative deepening. *)
RootCall ==
  /\ stack = <<>> /\ ~stopSearchFlag /\ Len(calls) < game.calls
  /\ \E c \in game.roots :
       /\ calls # <<>> => calls[Len(calls)] <= c.depth
       /\ calls' = Append(calls, c.depth)
       /\ stack' = <<Frame(SearchCall(c.node, c.depth, 1, c.alpha, c.beta, c.isPv, TRUE))>>
  /\ UNCHANGED <<game, features, searches, result, tt, pv, mg, stopSearchFlag>>

(* The timer, the UCI thread or the node limit. *)
RaiseStop ==
  /\ ~stopSearchFlag /\ stopSearchFlag' = TRUE
  /\ UNCHANGED <<setting, stack, result, tt, pv, mg>>

(* run() clears everything but the transposition table. *)
NextSearch ==
  /\ stack = <<>> /\ stopSearchFlag /\ searches < game.searches
  /\ searches' = searches + 1 /\ calls' = <<>>
  /\ stopSearchFlag' = FALSE /\ result' = NoResult
  /\ pv' = [p \in Plies |-> <<>>]
  /\ mg' = [p \in Plies |-> NewGenerator]
  /\ UNCHANGED <<game, features, stack, tt>>

(* Nobody calls: the search is over or the next root move is not ready. *)
Idle == stack = <<>> /\ UNCHANGED vars

Enter ==
  \/ EnterQuiescence \/ EvaluateOnly \/ EnterStopped \/ MateDistanceCut
  \/ TtCut \/ EnterSearch \/ StandPatCut \/ EnterQsearch

BeforeMoves ==
  \/ Razor \/ ReverseFutilityCut \/ NullMove \/ NoNullMove \/ NullMoveCut
  \/ NullMoveFailed \/ Iid \/ ReductionStopped \/ StartMoves \/ StartMovesAfterIid

MoveLoop ==
  \/ SkipMove \/ MoveToDraw \/ MoveSearched \/ MoveProbed \/ MoveQsearched
  \/ MoveResearched \/ ProbeSuffices \/ MoveStopped \/ MoveNoBetter \/ MoveBest
  \/ MoveRaisesAlpha \/ BetaCut \/ NoMoreMoves \/ Leave

SearchStep == Enter \/ BeforeMoves \/ MoveLoop
Next == SearchStep \/ RootCall \/ RaiseStop \/ NextSearch \/ Idle

Spec == Init /\ [][Next]_vars

-----------------------------------------------------------------------------
(***************************************************************************)
(* Reference: the values of a position by their definition.                *)
(***************************************************************************)
MaxOf(S) == CHOOSE x \in S : \A y \in S : y <= x

(* The moves that the worth of a leaf takes into account. *)
Resolving(n) ==
  IF HasCheck(n) THEN Legal(n) ELSE {m \in Legal(n) \cap NonQuiet(n) : GoodCapture(n, m)}

(* Of a move, when the positions after it have these values. *)
WorthOf(n, m, values) == IF Drawn(Child(n, m)) THEN VALUE_DRAW ELSE -values[Child(n, m)]

(* The worth of a leaf: the best of standing pat and the good captures. *)
QuiescenceAt(n, p, next) ==
  LET worth == {WorthOf(n, m, next) : m \in Resolving(n)}
  IN  IF ~On("QUIESCENCE") \/ p >= MAX_DEPTH THEN Eval(n)
      ELSE IF ~HasCheck(n) THEN MaxOf(worth \cup {Eval(n)})
      ELSE IF Resolving(n) = {} THEN -VALUE_CHECKMATE + p ELSE MaxOf(worth)

QuiescenceValue(n0, ply0) ==
  LET q[p \in Plies] == [n \in Nodes |-> QuiescenceAt(n, p, q[p + 1])]
  IN  q[ply0][n0]

Depths == 0 .. MAX_DEPTH

(* The minimax value of n, searched d0 plies deep from ply ply0 on. *)
MinimaxAt(n, d, p, next) ==
  IF d = 0 \/ p >= MAX_DEPTH THEN QuiescenceValue(n, p)
  ELSE IF Legal(n) # {} THEN MaxOf({WorthOf(n, m, next[p + 1]) : m \in Legal(n)})
  ELSE IF HasCheck(n) THEN -VALUE_CHECKMATE + p
  ELSE VALUE_DRAW

MinimaxValue(n0, d0, ply0) ==
  LET v[d \in Depths] ==
        [p \in Plies |-> [n \in Nodes |-> MinimaxAt(n, d, p, v[d - 1])]]
  IN  v[d0][ply0][n0]

(* Switches that prune, reduce or extend by guessing. *)
Guessing == {"RAZORING", "RFP", "NMP", "FP", "QFP", "LMR", "LMP", "EXTENSIONS", "QS_TT"}
Exact == features \cap Guessing = {}

(* v is the value t, or a bound of it, as the window allows. *)
Answers(v, t, alpha, beta) ==
  /\ v <= alpha => t <= v
  /\ v >= beta => t >= v
  /\ alpha < v /\ v < beta => v = t

-----------------------------------------------------------------------------
(***************************************************************************)
(* Properties.                                                             *)
(***************************************************************************)
Values == -VALUE_CHECKMATE .. VALUE_CHECKMATE

Returned == result.value # VALUE_NONE /\ result.call.node \in Nodes
IsMate(v) == v > VALUE_CHECKMATE_THRESHOLD
GameValue(n, p) == MinimaxValue(n, MAX_DEPTH, p)

(* A search that finds the table of an earlier one may look deeper.        *)
DepthsFrom(d) == d .. (IF searches = 0 THEN d ELSE MAX_DEPTH)

(* Without the switches that guess, what search() and qsearch() return, by *)
(* whatever cut, is the minimax value of the node or a bound of it on the  *)
(* right side of the window, and they return it whether the stop flag is   *)
(* up or not: an interrupted node returns VALUE_NONE and nothing else.     *)
ReturnsMinimax ==
  LET c == result.call
  IN  Exact /\ Returned =>
        \E d \in DepthsFrom(c.depth) :
          Answers(result.value, MinimaxValue(c.node, d, c.ply), c.alpha, c.beta)

(* An entry of the table, written at whatever ply and read at any other,   *)
(* tells the truth about its depth: an exact value, an upper or a lower    *)
(* bound of the minimax value, also after a search was interrupted.        *)
TableTellsTruth ==
  \A n \in Nodes :
    LET e == tt[n]
    IN  Exact /\ e.value # VALUE_NONE =>
          \E d \in DepthsFrom(e.depth) :
            LET t == MinimaxValue(n, d, 0)
            IN  /\ e.type = "EXACT" => e.value = t
                /\ e.type = "ALPHA" => t <= e.value
                /\ e.type = "BETA" => t >= e.value

(* Pruning and reductions may miss a mate, but whenever a value claims one *)
(* against the window, the game has it, and no later.                      *)
MatesAreReal ==
  LET c == result.call
      t == GameValue(c.node, c.ply)
  IN  Returned /\ "LMP" \notin features =>
        /\ result.value > c.alpha /\ IsMate(result.value) => t >= result.value
        /\ result.value < c.beta /\ IsMate(-result.value) => t <= result.value

(* The values of an interrupted node, VALUE_NONE and its negation, reach   *)
(* no node that goes on, no window and no value of the table.  (Left out:  *)
(* a mated node that is interrupted before it has counted its moves leaves *)
(* an upper bound VALUE_NONE, with which the next search may answer a call *)
(* since validValue() admits it; in the games with a second search nobody  *)
(* is mated.)                                                              *)
InterruptionContained ==
  /\ \A i \in 1 .. Len(stack) :
       /\ stack[i].bestNodeValue \in Values \cup {VALUE_NONE}
       /\ stack[i].alpha \in Values /\ stack[i].beta \in Values
  /\ \A n \in Nodes : tt[n].value \in Values \cup {VALUE_NONE}
  /\ Returned => result.value \in Values
  /\ ~stopSearchFlag /\ result.call.node \in Nodes => result.value # VALUE_NONE

Playable(n0, line) ==
  LET p[k \in 0 .. Len(line)] ==
        IF k = 0 THEN n0
        ELSE IF p[k - 1] \in Nodes /\ line[k] \in Legal(p[k - 1])
        THEN Child(p[k - 1], line[k]) ELSE 0
  IN  p[Len(line)] # 0

(* The line of a node whose value lies in the window can be played from it *)
(* (sent to the GUI as pv, and its second move is the move to ponder on).  *)
(* Left out: a child that returns without a line of its own, as a draw, an *)
(* evaluation or a hit of the table in qsearch(), leaves the line of a     *)
(* cousin in pv[ply + 1], which savePV() then takes.                       *)
PvPlayable ==
  LET c == result.call
  IN  /\ Returned /\ "QS_TT" \notin features /\ game.drawn = {} /\ "QUIESCENCE" \in features
      /\ c.alpha < result.value /\ result.value < c.beta
      => Playable(c.node, pv[c.ply])

(* "this is in any case an exact value": a node that leaves the move loop  *)
(* without having searched a move and that is not in check is stalemate.   *)
StalemateIsReal ==
  At("end") /\ In("search") /\ ~stopSearchFlag /\ Top.movesSearched = 0
    => Legal(node) = {}

=============================================================================
