-------------------------------- MODULE Position --------------------------------
(***************************************************************************)
(* chesscore/Position: a chess position with its incremental state, and    *)
(* the operations on it. A position is a record; an operation maps a       *)
(* position to the next one.                                               *)
(*                                                                         *)
(* A Zobrist key is the set of the features whose random numbers have been *)
(* XORed into it, and XOR is the symmetric difference: two keys are equal  *)
(* exactly if the same features were XORed in an odd number of times.      *)
(* Values of squares (psqMidValue, psqEndValue) are left out: putPiece and *)
(* removePiece treat them as they treat the material.                      *)
(***************************************************************************)
EXTENDS Chessboard, FiniteSetsExt, SequencesExt

FLAG_TBD == "TBD"
FLAG_FALSE == "FALSE"
FLAG_TRUE == "TRUE"

pieceFeature(pc, sq) == {<<"piece", pc, sq>>}
castlingFeature(rights) == {<<"castling", rights>>}
enPassantFeature(sq) == {<<"enPassant", fileOf(sq)>>}
nextPlayerFeature == {<<"nextPlayer">>}
Xor(key, features) == SymDiff(key, features)

getOccupiedBb(p) == p.occupiedBb[WHITE] \cup p.occupiedBb[BLACK]

-----------------------------------------------------------------------------
(* The board and what is kept with it *)

putPiece(p, pc, sq) ==
    LET c == colorOf(pc)
        pt == typeOf(pc)
        phase == p.gamePhase + phaseValue[pt]
    IN [p EXCEPT
          !.board[sq] = pc,
          !.kingSquare[c] = IF pt = KING THEN sq ELSE @,
          !.piecesBb[c][pt] = @ \cup {sq},
          !.occupiedBb[c] = @ \cup {sq},
          !.zobristKey = Xor(@, pieceFeature(pc, sq)),
          !.pawnKey = IF pt = PAWN THEN Xor(@, pieceFeature(pc, sq)) ELSE @,
          !.gamePhase = IF phase > GAME_PHASE_MAX THEN GAME_PHASE_MAX ELSE phase,
          !.material[c] = @ + pieceTypeValue[pt],
          !.materialNonPawn[c] = IF pt > PAWN THEN @ + pieceTypeValue[pt] ELSE @]

removePiece(p, sq) ==
    LET pc == p.board[sq]
        c == colorOf(pc)
        pt == typeOf(pc)
    IN [p EXCEPT
          !.board[sq] = PIECE_NONE,
          !.piecesBb[c][pt] = Xor(@, {sq}),
          !.occupiedBb[c] = Xor(@, {sq}),
          !.zobristKey = Xor(@, pieceFeature(pc, sq)),
          !.pawnKey = IF pt = PAWN THEN Xor(@, pieceFeature(pc, sq)) ELSE @,
          !.gamePhase = Larger(@ - phaseValue[pt], 0),
          !.material[c] = @ - pieceTypeValue[pt],
          !.materialNonPawn[c] = IF pt > PAWN THEN @ - pieceTypeValue[pt] ELSE @]

movePiece(p, from, to) == putPiece(removePiece(p, from), p.board[from], to)

\* Fault: the key keeps the en passant file
clearEnPassantKeepingKey(p) == [p EXCEPT !.enPassantSquare = SQ_NONE]
clearEnPassant(p) ==
    IF p.enPassantSquare = SQ_NONE THEN p
    ELSE [p EXCEPT !.zobristKey = Xor(@, enPassantFeature(p.enPassantSquare)),
                   !.enPassantSquare = SQ_NONE]

\* a right that goes: the old rights out of the key, the new ones in
DropRights(p, rights) ==
    LET left == p.castlingRights \ rights
    IN [p EXCEPT !.castlingRights = left,
                 !.zobristKey = Xor(Xor(@, castlingFeature(p.castlingRights)),
                                    castlingFeature(left))]

\* Fault: the check flag of the position before stays
SwitchPlayerKeepingFlag(p) ==
    [p EXCEPT !.moveNumber = @ + p.nextPlayer,
              !.nextPlayer = Other(@),
              !.zobristKey = Xor(@, nextPlayerFeature)]
SwitchPlayer(p) ==
    [p EXCEPT !.hasCheckFlag = FLAG_TBD,
              !.moveNumber = @ + p.nextPlayer,
              !.nextPlayer = Other(@),
              !.zobristKey = Xor(@, nextPlayerFeature)]

SaveState(p, move, fromPiece, capturedPiece) ==
    [p EXCEPT !.historyState =
        Append(@, [zobristKey |-> p.zobristKey, pawnKey |-> p.pawnKey, move |-> move,
                   fromPiece |-> fromPiece, capturedPiece |-> capturedPiece,
                   castlingRights |-> p.castlingRights,
                   enPassantSquare |-> p.enPassantSquare,
                   halfMoveClock |-> p.halfMoveClock,
                   hasCheckFlag |-> p.hasCheckFlag])]

initializeBoard ==
    [board |-> [s \in Square |-> PIECE_NONE], nextPlayer |-> WHITE,
     castlingRights |-> {}, enPassantSquare |-> SQ_NONE,
     halfMoveClock |-> 0, moveNumber |-> 1, historyState |-> <<>>,
     kingSquare |-> [c \in Color |-> SQ_NONE],
     piecesBb |-> [c \in Color |-> [pt \in PieceType |-> {}]],
     occupiedBb |-> [c \in Color |-> {}],
     zobristKey |-> {}, pawnKey |-> {},
     material |-> [c \in Color |-> 0], materialNonPawn |-> [c \in Color |-> 0],
     gamePhase |-> 0, hasCheckFlag |-> FLAG_TBD]

\* fen: a record of the six parts, pieces being a set of pairs of piece and square
setupBoard(fen) ==
    LET Put(piece, p) == putPiece(p, piece[1], piece[2])
        placed == FoldSet(Put, initializeBoard, fen.pieces)
        key == Xor(placed.zobristKey,
                   castlingFeature(fen.castlingRights)
                     \cup (IF fen.nextPlayer = BLACK THEN nextPlayerFeature ELSE {}))
    IN [placed EXCEPT !.zobristKey = key,
                      !.nextPlayer = fen.nextPlayer,
                      !.castlingRights = fen.castlingRights,
                      !.enPassantSquare = fen.enPassantSquare,
                      !.halfMoveClock = fen.halfMoveClock,
                      !.moveNumber = Larger(fen.moveNumber, 1)]

-----------------------------------------------------------------------------
(* Moves *)

\* the corner a castling rook leaves and the square it goes to
castlingTarget == {G1, C1, G8, C8}
rookCorner == [s \in castlingTarget |-> IF s \in {G1, G8} THEN s + EAST ELSE s + 2 * WEST]
rookCrossing == [s \in castlingTarget |-> IF s \in {G1, G8} THEN s + WEST ELSE s + EAST]

RightsTouched(move) == rightsOf[move.from] \cup rightsOf[move.to]

doNormal(p, move) ==
    LET q == clearEnPassant(DropRights(p, RightsTouched(move)))
        capture == p.board[move.to] /= PIECE_NONE
        pawn == typeOf(p.board[move.from]) = PAWN
        clocked == [q EXCEPT !.halfMoveClock = IF capture \/ pawn THEN 0 ELSE @ + 1]
        behind == move.to + pawnPush(Other(p.nextPlayer))
        marked == IF pawn /\ ~capture /\ distance(move.from, move.to) = 2
                  THEN [clocked EXCEPT !.enPassantSquare = behind,
                                       !.zobristKey = Xor(@, enPassantFeature(behind))]
                  ELSE clocked
    IN movePiece(IF capture THEN removePiece(marked, move.to) ELSE marked,
                 move.from, move.to)

doPromotion(p, move) ==
    LET q == IF p.board[move.to] /= PIECE_NONE THEN removePiece(p, move.to) ELSE p
        r == clearEnPassant(DropRights(q, RightsTouched(move)))
    IN [putPiece(removePiece(r, move.from), makePiece(p.nextPlayer, move.prom), move.to)
          EXCEPT !.halfMoveClock = 0]

doEnPassant(p, move) ==
    LET capSq == move.to + pawnPush(Other(p.nextPlayer))
    IN [movePiece(removePiece(clearEnPassant(p), capSq), move.from, move.to)
          EXCEPT !.halfMoveClock = 0]

doCastling(p, move) ==
    LET moved == movePiece(movePiece(p, move.from, move.to),
                           rookCorner[move.to], rookCrossing[move.to])
    IN [clearEnPassant(DropRights(moved, Castling(p.nextPlayer)))
          EXCEPT !.halfMoveClock = @ + 1]

doMove(p, move) ==
    LET q == SaveState(p, move, p.board[move.from], p.board[move.to])
    IN SwitchPlayer(CASE move.type = NORMAL -> doNormal(q, move)
                      [] move.type = PROMOTION -> doPromotion(q, move)
                      [] move.type = ENPASSANT -> doEnPassant(q, move)
                      [] move.type = CASTLING -> doCastling(q, move))

doNullMove(p) ==
    SwitchPlayer(clearEnPassant(SaveState(p, MOVE_NONE, PIECE_NONE, PIECE_NONE)))

\* Fault: the half move clock is not restored
RestoreStateWithoutClock(p) ==
    LET saved == Last(p.historyState)
    IN [p EXCEPT !.historyState = Front(@),
                 !.castlingRights = saved.castlingRights,
                 !.enPassantSquare = saved.enPassantSquare,
                 !.zobristKey = saved.zobristKey,
                 !.pawnKey = saved.pawnKey,
                 !.hasCheckFlag = saved.hasCheckFlag]
\* what undoMove and undoNullMove take from the history
RestoreState(p) ==
    LET saved == Last(p.historyState)
    IN [p EXCEPT !.historyState = Front(@),
                 !.castlingRights = saved.castlingRights,
                 !.enPassantSquare = saved.enPassantSquare,
                 !.halfMoveClock = saved.halfMoveClock,
                 !.zobristKey = saved.zobristKey,
                 !.pawnKey = saved.pawnKey,
                 !.hasCheckFlag = saved.hasCheckFlag]

\* the player who made the last move is to move again
PreviousPlayer(p) ==
    [p EXCEPT !.nextPlayer = Other(@), !.moveNumber = @ - Other(p.nextPlayer)]

putCaptured(p, capturedPiece, sq) ==
    IF capturedPiece = PIECE_NONE THEN p ELSE putPiece(p, capturedPiece, sq)

undoMove(p) ==
    LET q == PreviousPlayer(p)
        us == q.nextPlayer
        move == Last(p.historyState).move
        captured == Last(p.historyState).capturedPiece
        back == movePiece(q, move.to, move.from)
    IN RestoreState(
         CASE move.type = NORMAL -> putCaptured(back, captured, move.to)
           [] move.type = PROMOTION ->
                putCaptured(putPiece(removePiece(q, move.to), makePiece(us, PAWN), move.from),
                            captured, move.to)
           [] move.type = ENPASSANT ->
                putPiece(back, makePiece(Other(us), PAWN), move.to + pawnPush(Other(us)))
           [] move.type = CASTLING ->
                movePiece(back, rookCrossing[move.to], rookCorner[move.to]))

undoNullMove(p) == RestoreState(PreviousPlayer(p))

-----------------------------------------------------------------------------
(* Attacks, checks and legality *)

\* the part of isAttacked about the pawn that can be captured en passant
EnPassantAttacked(p, sq, by) ==
    /\ p.enPassantSquare /= SQ_NONE
    /\ sq = p.enPassantSquare + pawnPush(Other(by))
    /\ p.board[sq] = makePiece(Other(by), PAWN)
    /\ \/ p.board[sq + WEST] = makePiece(by, PAWN)
       \/ p.board[sq + EAST] = makePiece(by, PAWN)

isAttacked(p, sq, by) ==
    LET pieces == p.piecesBb[by]
        occupied == getOccupiedBb(p)
    IN \/ pawnAttacks[Other(by)][sq] \cap pieces[PAWN] /= {}
       \/ knightAttacks[sq] \cap pieces[KNIGHT] /= {}
       \/ kingAttacks[sq] \cap pieces[KING] /= {}
       \/ bishopAttacks(sq, occupied) \cap (pieces[BISHOP] \cup pieces[QUEEN]) /= {}
       \/ rookAttacks(sq, occupied) \cap (pieces[ROOK] \cup pieces[QUEEN]) /= {}
       \/ EnPassantAttacked(p, sq, by)

attacksTo(p, sq, c) ==
    LET pieces == p.piecesBb[c]
        occupied == getOccupiedBb(p)
        epAttacks == IF /\ p.enPassantSquare /= SQ_NONE
                        /\ sq = p.enPassantSquare + pawnPush(Other(c))
                     THEN neighbourFilesMask[sq] \cap rankBb[rankOf(sq)] \cap pieces[PAWN]
                     ELSE {}
    IN epAttacks
       \cup (pawnAttacks[Other(c)][sq] \cap pieces[PAWN])
       \cup (knightAttacks[sq] \cap pieces[KNIGHT])
       \cup (kingAttacks[sq] \cap pieces[KING])
       \cup (rookAttacks(sq, occupied) \cap (pieces[ROOK] \cup pieces[QUEEN]))
       \cup (bishopAttacks(sq, occupied) \cap (pieces[BISHOP] \cup pieces[QUEEN]))

InCheck(p) == isAttacked(p, p.kingSquare[p.nextPlayer], Other(p.nextPlayer))
hasCheck(p) == IF p.hasCheckFlag /= FLAG_TBD THEN p.hasCheckFlag = FLAG_TRUE ELSE InCheck(p)
\* hasCheck is const, but remembers what it found
RememberCheck(p) ==
    [p EXCEPT !.hasCheckFlag = IF hasCheck(p) THEN FLAG_TRUE ELSE FLAG_FALSE]

givesCheck(p, move) ==
    LET us == p.nextPlayer
        kingSq == p.kingSquare[Other(us)]
        pt == CASE move.type = PROMOTION -> move.prom
                [] move.type = CASTLING -> ROOK
                [] OTHER -> typeOf(p.board[move.from])
        to == IF move.type = CASTLING THEN rookCrossing[move.to] ELSE move.to
        taken == IF move.type = ENPASSANT THEN {move.to + pawnPush(Other(us))} ELSE {}
        after == Xor(Xor(getOccupiedBb(p), {move.from}) \cup {to}, taken)
    IN \/ /\ pt = PAWN
          /\ kingSq \in pawnAttacks[us][to]
       \/ /\ pt \notin {PAWN, KING}
          /\ kingSq \in getAttacksBb(pt, to, after)
       \/ bishopAttacks(kingSq, after) \cap (p.piecesBb[us][BISHOP] \cup p.piecesBb[us][QUEEN]) /= {}
       \/ rookAttacks(kingSq, after) \cap (p.piecesBb[us][ROOK] \cup p.piecesBb[us][QUEEN]) /= {}

\* the squares a castling king leaves and crosses must not be attacked
CastlingPathAttacked(p, move, by) ==
    /\ move.type = CASTLING
    /\ \/ isAttacked(p, move.from, by)
       \/ isAttacked(p, rookCrossing[move.to], by)

KingCapturable(p) == isAttacked(p, p.kingSquare[Other(p.nextPlayer)], p.nextPlayer)

wasLegalMove(p) ==
    /\ ~KingCapturable(p)
    /\ p.historyState /= <<>> => ~CastlingPathAttacked(p, Last(p.historyState).move, p.nextPlayer)

isLegalMove(p, move) ==
    /\ ~CastlingPathAttacked(p, move, Other(p.nextPlayer))
    /\ ~KingCapturable(doMove(p, move))

-----------------------------------------------------------------------------
(* Draws *)

\* Fault: the walk stops only at a half move clock of zero, which it leaves out
RepetitionWindowToZero(p) ==
    LET h == p.historyState
    IN {k \in 1 .. Len(h) - 1 : /\ (Len(h) - 1 - k) % 2 = 0
                                /\ \A j \in k .. Len(h) - 1 : h[j].halfMoveClock > 0}
\* The entries countRepetitions looks at: every second one, back to the first
\* whose half move clock is not below that of the entry looked at before.
RepetitionWindow(p) ==
    LET h == p.historyState
        SameSide(k) == (Len(h) - 1 - k) % 2 = 0
        ClockAfter(k) == IF k = Len(h) - 1 THEN p.halfMoveClock ELSE h[k + 2].halfMoveClock
    IN {k \in 1 .. Len(h) - 1 :
            /\ SameSide(k)
            /\ \A j \in k .. Len(h) - 1 : SameSide(j) => h[j].halfMoveClock < ClockAfter(j)}

countRepetitions(p) ==
    Cardinality({k \in RepetitionWindow(p) : p.historyState[k].zobristKey = p.zobristKey})
checkRepetitions(p, reps) == countRepetitions(p) >= reps

checkInsufficientMaterial(p) ==
    LET knights == 2 * pieceTypeValue[KNIGHT]
        bishop == pieceTypeValue[BISHOP]
        \* some colour s, the stronger, has more and the other has less
        Sides(Test(_, _)) ==
            \E s \in Color : Test(p.materialNonPawn[s], p.materialNonPawn[Other(s)])
        TwoKnights(s, w) == s = knights /\ w <= bishop
        BishopsAgainstOne(s, w) == s = 2 * bishop /\ w = bishop
        TwoBishops(s, w) == s = 2 * bishop
        TwoAgainstOne(s, w) == s < 2 * bishop /\ w <= bishop
        SinglePieces(s, w) == s < 400 /\ w < 400
    IN \/ p.material[WHITE] + p.material[BLACK] = 0
       \/ /\ \A c \in Color, pt \in {PAWN, ROOK, QUEEN} : p.piecesBb[c][pt] = {}
          /\ \/ Sides(SinglePieces)
             \/ Sides(TwoKnights)
             \/ Sides(BishopsAgainstOne)
             \/ /\ ~Sides(TwoBishops)
                /\ Sides(TwoAgainstOne)
================================================================================
