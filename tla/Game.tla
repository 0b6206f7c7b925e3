---------------------------------- MODULE Game ----------------------------------
(***************************************************************************)
(* A position as the search uses it: moves and null moves are made and     *)
(* taken back, a check is looked up and remembered, a position is          *)
(* evaluated through the pawn cache. A pseudo-legal move is made before it *)
(* is known to be legal; if it was not, it is taken back at once.          *)
(***************************************************************************)
EXTENDS MoveGenerator, Evaluator

R == INSTANCE Rules
S == INSTANCE See

(***************************************************************************)
(* A start is a FEN and what is done from it: moves within the squares of  *)
(* arena, up to plies of them, null moves, hasCheck calls, and evaluations up to  *)
(* puts new entries in the cache.                                          *)
(***************************************************************************)
CONSTANT Starts

\* what a FEN is to say: at most one piece to a square, one king of each colour,
\* kings and rooks where the rights have them, and an en passant square that is
\* empty, with the pawn that went over it in front of it
Stands(fen, pc, sq) == <<pc, sq>> \in fen.pieces
ProperFen(fen) ==
    /\ IsFiniteSet(fen.pieces)
    /\ fen.pieces \subseteq Piece \X Square
    /\ \A x, y \in fen.pieces : x[2] = y[2] => x = y
    /\ \A c \in Color : \E s \in Square : \A t \in Square : Stands(fen, makePiece(c, KING), t) <=> t = s
    /\ fen.nextPlayer \in Color
    /\ fen.castlingRights \subseteq AnyCastling
    /\ \A c \in Color :
          LET king == IF c = WHITE THEN E1 ELSE E8
              AtHome(corner) == Stands(fen, makePiece(c, KING), king) /\ Stands(fen, makePiece(c, ROOK), corner)
          IN /\ OO(c) \in fen.castlingRights => AtHome(king + 3)
             /\ OOO(c) \in fen.castlingRights => AtHome(king - 4)
    /\ fen.halfMoveClock \in Nat
    /\ fen.moveNumber \in Nat
    /\ \/ fen.enPassantSquare = SQ_NONE
       \/ LET them == Other(fen.nextPlayer)
              pawnSq == fen.enPassantSquare + pawnPush(them)
          IN /\ fen.enPassantSquare \in Rank(IF them = WHITE THEN 2 ELSE 5)
             /\ \A pc \in Piece : ~Stands(fen, pc, fen.enPassantSquare)
             /\ Stands(fen, makePiece(them, PAWN), pawnSq)

ASSUME StartsAssumption == \A s \in Starts : ProperFen(s.fen)

VARIABLES
    start,      \* the start of this behaviour
    pos,        \* the Position
    pawnCache   \* the PawnTT of the Evaluator
vars == <<start, pos, pawnCache>>

Ply == Len(pos.historyState)
LastMove == Last(pos.historyState).move

Init ==
    /\ start \in Starts
    /\ pos = setupBoard(start.fen)
    /\ pawnCache = NewPawnTT

Playable ==
    {m \in generatePseudoLegalMoves(pos, GenAll, FALSE) : {m.from, m.to} \subseteq start.arena}

DoMove ==
    /\ Ply < start.plies
    /\ wasLegalMove(pos)
    /\ \E m \in Playable : pos' = doMove(pos, m)
    /\ UNCHANGED <<start, pawnCache>>

UndoMove ==
    /\ Ply > 0
    /\ LastMove /= MOVE_NONE
    /\ pos' = undoMove(pos)
    /\ UNCHANGED <<start, pawnCache>>

\* the search makes no null move in check and none after another
DoNullMove ==
    /\ start.nulls
    /\ Ply < start.plies
    /\ wasLegalMove(pos)
    /\ ~InCheck(pos)
    /\ Ply > 0 => LastMove /= MOVE_NONE
    /\ pos' = doNullMove(pos)
    /\ UNCHANGED <<start, pawnCache>>

UndoNullMove ==
    /\ Ply > 0
    /\ LastMove = MOVE_NONE
    /\ pos' = undoNullMove(pos)
    /\ UNCHANGED <<start, pawnCache>>

HasCheck ==
    /\ start.checks
    /\ pos.hasCheckFlag = FLAG_TBD
    /\ pos' = RememberCheck(pos)
    /\ UNCHANGED <<start, pawnCache>>

\* the evaluation changes nothing but the cache; start.puts bounds its counters
Evaluate ==
    /\ LooksAtPawns(pos)
    /\ pawnCache.numberOfPuts < start.puts
    /\ pawnCache' = CacheAfter(pos, pawnCache)
    /\ UNCHANGED <<start, pos>>

Next == DoMove \/ UndoMove \/ DoNullMove \/ UndoNullMove \/ HasCheck \/ Evaluate

Spec == Init /\ [][Next]_vars

-----------------------------------------------------------------------------
(* What the incremental state must be, computed from the board *)

Placed(p, c, pt) == {s \in Square : p.board[s] = makePiece(c, pt)}
SumOverTypes(f) == f[KING] + f[PAWN] + f[KNIGHT] + f[BISHOP] + f[ROOK] + f[QUEEN]
Worth(p, c, types) ==
    SumOverTypes([pt \in PieceType |->
        IF pt \in types THEN pieceTypeValue[pt] * Cardinality(Placed(p, c, pt)) ELSE 0])
PhaseOf(p) ==
    SumOverTypes([pt \in PieceType |->
        phaseValue[pt] * Cardinality(Placed(p, WHITE, pt) \cup Placed(p, BLACK, pt))])
PieceFeatures(p, types) ==
    {<<"piece", p.board[s], s>> : s \in {t \in Square : typeOf(p.board[t]) \in types}}
EnPassantFeatures(p) ==
    IF p.enPassantSquare = SQ_NONE THEN {} ELSE enPassantFeature(p.enPassantSquare)

KeysMatch(p) ==
    /\ p.zobristKey = PieceFeatures(p, PieceType) \cup EnPassantFeatures(p)
                        \cup castlingFeature(p.castlingRights)
                        \cup (IF p.nextPlayer = BLACK THEN nextPlayerFeature ELSE {})
    /\ p.pawnKey = PieceFeatures(p, {PAWN})
BitboardsMatch(p) ==
    \A c \in Color :
        /\ p.occupiedBb[c] = UNION {p.piecesBb[c][pt] : pt \in PieceType}
        /\ \A pt \in PieceType : p.piecesBb[c][pt] = Placed(p, c, pt)
        /\ Placed(p, c, KING) = {p.kingSquare[c]}
MaterialMatches(p) ==
    /\ \A c \in Color : /\ p.material[c] = Worth(p, c, PieceType)
                        /\ p.materialNonPawn[c] = Worth(p, c, KNIGHT .. QUEEN)
    /\ PhaseOf(p) <= GAME_PHASE_MAX => p.gamePhase = PhaseOf(p)
\* a right is kept only as long as king and rook have not moved
RightsMatch(p) ==
    \A c \in Color :
        LET king == IF c = WHITE THEN E1 ELSE E8
            Stand(corner) == /\ p.board[king] = makePiece(c, KING)
                             /\ p.board[corner] = makePiece(c, ROOK)
        IN /\ OO(c) \in p.castlingRights => Stand(king + 3)
           /\ OOO(c) \in p.castlingRights => Stand(king - 4)

\* After any moves, null moves and undos, the keys, the bitboards, the king
\* squares, the material and the castling rights are those of the board. An
\* incremental update of doMove, undoMove or a null move that is wrong in one
\* case shows only later, as a wrong hit in a table.
Coherent == KeysMatch(pos) /\ BitboardsMatch(pos) /\ MaterialMatches(pos) /\ RightsMatch(pos)

\* undoMove gives back the position before the move, for each of its moves and
\* with everything that is cached. The game phase is not in the history: it
\* comes back unless the move drove it over its maximum.
RestoresAllButPhase(p, m) == [undoMove(doMove(p, m)) EXCEPT !.gamePhase = p.gamePhase] = p
RestoresPhase(p, m) ==
    PhaseOf(doMove(p, m)) <= GAME_PHASE_MAX => undoMove(doMove(p, m)).gamePhase = p.gamePhase
UndoRestores ==
    \A m \in generatePseudoLegalMoves(pos, GenAll, FALSE) :
        RestoresAllButPhase(pos, m) /\ RestoresPhase(pos, m)

\* the player who is not to move has made a legal move
Sound == ~R!Checked(pos.board, Other(pos.nextPlayer))
LegalByTheRules ==
    R!LegalMoves(pos.board, pos.nextPlayer, pos.castlingRights, pos.enPassantSquare)

\* The flag that hasCheck remembers is right whenever it is set, through moves,
\* undos and null moves, and givesCheck foresees for every legal move what
\* hasCheck will say after it, discovered checks, promotions, castling and en
\* passant included.
ChecksAreKnown ==
    /\ pos.hasCheckFlag /= FLAG_TBD =>
            (pos.hasCheckFlag = FLAG_TRUE) = R!Checked(pos.board, pos.nextPlayer)
    /\ Sound => \A m \in LegalByTheRules :
            LET there == R!After(pos.board, pos.nextPlayer, m)
            IN givesCheck(pos, m) = R!Checked(there, Other(pos.nextPlayer))

\* What the generator calls legal is what the rules allow: generateLegalMoves,
\* with evasions when in check, isLegalMove before and wasLegalMove after a
\* pseudo-legal move, and hasLegalMove with its shortcuts.
LegalityAgrees ==
    Sound =>
        LET rules == LegalByTheRules
            pseudo == generatePseudoLegalMoves(pos, GenAll, FALSE)
        IN /\ generateLegalMoves(pos, GenAll) = rules
           /\ \A m \in pseudo : /\ isLegalMove(pos, m) = (m \in rules)
                                /\ wasLegalMove(doMove(pos, m)) = (m \in rules)
           /\ hasLegalMove(pos) = (rules /= {})

\* some moves to be the PV move: of each type, one that captures and one that
\* does not
PvMoves ==
    LET Kind(m) == <<m.type, isCapturingMove(pos, m)>>
        OneOfEachKind(moves) == {CHOOSE n \in moves : Kind(n) = Kind(m) : m \in moves}
    IN {MOVE_NONE} \cup OneOfEachKind(generatePseudoLegalMoves(pos, GenAll, InCheck(pos)))

\* the text of a move, as a GUI sends it
UciText(m) == <<m.from, m.to, IF m.type = PROMOTION THEN m.prom ELSE 0>>

\* The moves on demand are the moves of the list, each of them once, whatever
\* the PV move is and whether it sorts first or last in its stage; with
\* captures asked for, the PV move comes first if it is one of those asked for.
\* getMoveFromUci, which walks them, finds each special move by its text.
OnDemandComplete ==
    Sound =>
        /\ \A genMode \in {GenAll, {GenNonQuiet}, {GenQuiet}}, pv \in PvMoves, pvFirst \in BOOLEAN :
              LET evasion == InCheck(pos)
                  g == setPV(resetOnDemand, pv)
                  Complete(out) ==
                      /\ ToSet(out) = generatePseudoLegalMoves(pos, genMode, evasion)
                      /\ IsInjective(out)
                      /\ PushesPv(pos, g, genMode) /\ GenNonQuiet \in genMode => out[1] = pv
              IN Complete(OnDemand(pos, g, genMode, evasion, pvFirst))
        /\ \A m \in LegalByTheRules : m.type /= NORMAL => getMoveFromUci(pos, UciText(m)) = m

\* countRepetitions stops at the first irreversible move; still it finds every
\* earlier occurrence of the position: same board, side, rights and en passant.
RepetitionExact ==
    LET Same(h) == h.zobristKey = pos.zobristKey
    IN countRepetitions(pos) = Cardinality({k \in DOMAIN pos.historyState : Same(pos.historyState[k])})

\* The evaluation of a position is the one computed without the cache, whatever
\* positions were evaluated before. (Not without pawns: see PawnlessScore.)
CacheTellsTruth ==
    pos.pawnKey /= Key0 => evaluate(pos, pawnCache) = evaluate(pos, NewPawnTT)

\* "putEntry stores a Score for a pawn structure represented by the pawn zobrist
\* key": without pawns nothing is stored and the pawns add nothing to the value.
PawnlessScore ==
    pos.pawnKey = Key0 /\ LooksAtPawns(pos) =>
        evaluate(pos, pawnCache) =
            finalEval(pos, valueFromScore(score(Material(pos) + TEMPO, Material(pos)), pos.gamePhase))

\* What the exchange on the target of a capture is worth when both sides take
\* with their cheapest piece or stop: the values taken in turn, by the rules.
TakeBack(x, i) ==
    LET takers == R!Attackers(x.board, x.sq, x.player)
        Cost(s) == pieceTypeValue[typeOf(x.board[s])]
        taker == CHOOSE s \in takers : \A t \in takers :
                    Cost(s) < Cost(t) \/ (Cost(s) = Cost(t) /\ s <= t)
    IN IF takers = {} THEN x
       ELSE [x EXCEPT !.values = Append(@, pieceTypeValue[typeOf(x.board[x.sq])]),
                      !.board = [@ EXCEPT ![taker] = PIECE_NONE, ![x.sq] = x.board[taker]],
                      !.player = Other(@)]
ExchangeValue(m) ==
    LET first == [board |-> R!After(pos.board, pos.nextPlayer, m), sq |-> m.to,
                  player |-> Other(pos.nextPlayer),
                  values |-> <<pieceTypeValue[typeOf(pos.board[m.to])]>>]
        values == FoldLeft(TakeBack, first, [i \in 1 .. 16 |-> i]).values
    IN FoldRight(LAMBDA v, rest : v - Larger(rest, 0), values, 0)

\* goodCapture asks only whether the static exchange evaluation is positive: for
\* every capture that is so exactly if the exchange wins something, pieces behind
\* pieces included. (The pruning in see does change other scores.)
SeeTellsWinners ==
    Sound => \A m \in generatePseudoLegalMoves(pos, {GenNonQuiet}, FALSE) :
                m.type = NORMAL => (S!see(pos, m) > 0) = (ExchangeValue(m) > 0)
================================================================================
