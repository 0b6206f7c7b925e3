--------------------------------- MODULE Rules ---------------------------------
(***************************************************************************)
(* The rules of chess, stated on a placement of pieces by the geometry of  *)
(* the moves: the reference that Position and MoveGenerator are compared   *)
(* with. Nothing here uses a bitboard, a table or incremental state.       *)
(***************************************************************************)
EXTENDS Chessboard

FileGap(s, t) == Gap(fileOf(s), fileOf(t))
RankGap(s, t) == Gap(rankOf(s), rankOf(t))
Ahead(c, s, t) == (rankOf(t) - rankOf(s)) * (IF c = WHITE THEN 1 ELSE -1)
Straight(s, t) == FileGap(s, t) = 0 \/ RankGap(s, t) = 0
Diagonal(s, t) == FileGap(s, t) = RankGap(s, t)

\* the squares strictly between two squares of a line
Sign(n) == IF n > 0 THEN 1 ELSE IF n < 0 THEN -1 ELSE 0
Between(s, t) ==
    LET df == Sign(fileOf(t) - fileOf(s))
        dr == Sign(rankOf(t) - rankOf(s))
    IN {s + n * (8 * dr + df) : n \in 1 .. distance(s, t) - 1}
Clear(board, s, t) == \A u \in Between(s, t) : board[u] = PIECE_NONE

\* the piece on s would capture a piece on t
Attacks(board, s, t) ==
    LET pt == typeOf(board[s])
    IN /\ board[s] /= PIECE_NONE
       /\ s /= t
       /\ CASE pt = KING -> distance(s, t) = 1
            [] pt = PAWN -> FileGap(s, t) = 1 /\ Ahead(colorOf(board[s]), s, t) = 1
            [] pt = KNIGHT -> {FileGap(s, t), RankGap(s, t)} = {1, 2}
            [] pt = BISHOP -> Diagonal(s, t) /\ Clear(board, s, t)
            [] pt = ROOK -> Straight(s, t) /\ Clear(board, s, t)
            [] pt = QUEEN -> (Diagonal(s, t) \/ Straight(s, t)) /\ Clear(board, s, t)

Army(board, c) == {s \in Square : board[s] /= PIECE_NONE /\ colorOf(board[s]) = c}
Attackers(board, t, c) == {s \in Army(board, c) : Attacks(board, s, t)}
KingOf(board, c) == CHOOSE s \in Square : board[s] = makePiece(c, KING)
Checked(board, c) == Attackers(board, KingOf(board, c), Other(c)) /= {}

-----------------------------------------------------------------------------
(* The moves of colour c, given the castling rights and the square behind  *)
(* a pawn that has just made a double step                                 *)

\* the types a move from s to t may have
TypesOf(board, c, ep, s, t) ==
    LET pawn == board[s] = makePiece(c, PAWN)
        free == board[t] = PIECE_NONE
        step == /\ FileGap(s, t) = 0
                /\ free
                /\ \/ Ahead(c, s, t) = 1
                   \/ /\ Ahead(c, s, t) = 2
                      /\ rankOf(s) = (IF c = WHITE THEN 1 ELSE 6)
                      /\ Clear(board, s, t)
        takes == Attacks(board, s, t) /\ ~free
    IN IF t \in Army(board, c) THEN {}
       ELSE IF ~pawn THEN IF Attacks(board, s, t) THEN {NORMAL} ELSE {}
       ELSE (IF step \/ takes
             THEN {IF rankOf(t) = promotionRank(c) THEN PROMOTION ELSE NORMAL} ELSE {})
            \cup (IF Attacks(board, s, t) /\ t = ep /\ free THEN {ENPASSANT} ELSE {})

CastlingMoves(board, c, rights) ==
    LET king == IF c = WHITE THEN E1 ELSE E8
        Free(corner, to) ==
            /\ Clear(board, king, corner)
            /\ \A s \in {king, to} \cup Between(king, to) :
                    Attackers(board, s, Other(c)) = {}
    IN {createMove(king, king + 2, CASTLING) :
            r \in {q \in {OO(c)} \cap rights : Free(king + 3, king + 2)}}
       \cup {createMove(king, king - 2, CASTLING) :
            r \in {q \in {OOO(c)} \cap rights : Free(king - 4, king - 2)}}

\* the placement after a move
After(board, c, m) ==
    LET lifted == [board EXCEPT ![m.from] = PIECE_NONE]
        dropped == [lifted EXCEPT ![m.to] = IF m.type = PROMOTION THEN makePiece(c, m.prom)
                                            ELSE board[m.from]]
        rookFrom == IF m.to > m.from THEN m.to + 1 ELSE m.to - 2
    IN CASE m.type = ENPASSANT ->
                [dropped EXCEPT ![squareOf(fileOf(m.to), rankOf(m.from))] = PIECE_NONE]
         [] m.type = CASTLING ->
                [dropped EXCEPT ![rookFrom] = PIECE_NONE,
                                ![(m.from + m.to) \div 2] = makePiece(c, ROOK)]
         [] OTHER -> dropped

BoardMoves(board, c, ep) ==
    UNION {UNION {LET types == TypesOf(board, c, ep, s, t)
                  IN {createMove(s, t, type) : type \in types \ {PROMOTION}}
                     \cup {createPromotion(s, t, pt) :
                            pt \in IF PROMOTION \in types THEN KNIGHT .. QUEEN ELSE {}} :
                  t \in Square} : s \in Army(board, c)}

LegalMoves(board, c, rights, ep) ==
    {m \in BoardMoves(board, c, ep) : ~Checked(After(board, c, m), c)}
        \cup CastlingMoves(board, c, rights)
================================================================================
