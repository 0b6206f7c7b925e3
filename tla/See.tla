---------------------------------- MODULE See ----------------------------------
(***************************************************************************)
(* engine/See: the static value of an exchange on one square.              *)
(***************************************************************************)
EXTENDS Position

valueOf(pc) == IF pc = PIECE_NONE THEN 0 ELSE pieceTypeValue[typeOf(pc)]

\* See::attacksTo differs from Position::attacksTo in the en passant part
seeAttacksTo(p, sq, c) ==
    LET pawnSquare == sq + pawnPush(Other(c))
        epAttacks == IF /\ p.enPassantSquare = sq
                        /\ neighbourFilesMask[pawnSquare] \cap rankBb[rankOf(pawnSquare)]
                             \cap p.piecesBb[c][PAWN] /= {}
                     THEN {pawnSquare} ELSE {}
    IN attacksTo([p EXCEPT !.enPassantSquare = SQ_NONE], sq, c) \cup epAttacks

\* Fault: nothing stands behind another piece
revealedAttacksNone(p, sq, occupied) == {}
revealedAttacks(p, sq, occupied) ==
    LET Of(pt) == p.piecesBb[WHITE][pt] \cup p.piecesBb[BLACK][pt]
    IN occupied \cap ((rookAttacks(sq, occupied) \cap (Of(ROOK) \cup Of(QUEEN)))
                       \cup (bishopAttacks(sq, occupied) \cap (Of(BISHOP) \cup Of(QUEEN))))

getLeastValuablePiece(p, squares, c) ==
    LET ranked == {PAWN, KNIGHT, BISHOP, ROOK, QUEEN}
        present == {pt \in ranked : squares \cap p.piecesBb[c][pt] /= {}}
    IN IF present /= {} THEN Min(squares \cap p.piecesBb[c][Min(present)])
       ELSE IF squares \cap p.piecesBb[c][KING] /= {} THEN Min(squares \cap p.piecesBb[c][KING])
       ELSE SQ_NONE

\* One turn of the first loop: x.gain has the gains so far, x.done tells that
\* the loop was left. The speculative gain of a turn that prunes is dropped,
\* for the second loop does not look at the last gain.
Exchange(p, move, x) ==
    LET last == x.gain[Len(x.gain)]
        moved == p.board[x.from]
        value == IF move.type = PROMOTION
                 THEN pieceTypeValue[move.prom] - pieceTypeValue[PAWN] ELSE valueOf(moved)
        next == value - last
        occupied == Xor(x.occupied, {x.from})
        attacks == Xor(x.attacks, {x.from}) \cup revealedAttacks(p, move.to, occupied)
        from == getLeastValuablePiece(p, attacks, Other(x.player))
    IN CASE x.done -> x
         [] ~x.done /\ Larger(-last, next) < 0 ->
                [x EXCEPT !.gain = Append(@, next), !.done = TRUE]
         [] ~x.done /\ Larger(-last, next) >= 0 ->
                [gain |-> Append(x.gain, next), occupied |-> occupied, attacks |-> attacks,
                 player |-> Other(x.player), from |-> from, done |-> from = SQ_NONE]

see(p, move) ==
    LET first == [gain |-> <<valueOf(p.board[move.to])>>, occupied |-> getOccupiedBb(p),
                  attacks |-> seeAttacksTo(p, move.to, WHITE) \cup seeAttacksTo(p, move.to, BLACK),
                  player |-> p.nextPlayer, from |-> move.from, done |-> FALSE]
        Turn(x, i) == Exchange(p, move, x)
        gain == FoldLeft(Turn, first, [i \in 1 .. 32 |-> i]).gain
        Collect(g, above) == -Larger(-g, above)
        n == Len(gain)
    IN IF move.type = ENPASSANT THEN pieceTypeValue[PAWN]
       ELSE FoldRight(Collect, SubSeq(gain, 1, n - 2), gain[n - 1])
================================================================================
