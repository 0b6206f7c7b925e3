--------------------------------- MODULE MCGame ---------------------------------
(***************************************************************************)
(* Starts for TLC, each a handful of pieces around one difficulty.         *)
(***************************************************************************)
EXTENDS Game

White(pt, squares) == {<<makePiece(WHITE, pt), s>> : s \in squares}
Black(pt, squares) == {<<makePiece(BLACK, pt), s>> : s \in squares}
Kings(w, b) == White(KING, {w}) \cup Black(KING, {b})

Fen(pieces, player, rights) ==
    [pieces |-> pieces, nextPlayer |-> player, castlingRights |-> rights,
     enPassantSquare |-> SQ_NONE, halfMoveClock |-> 0, moveNumber |-> 1]
From(fen, arena, plies) ==
    [fen |-> fen, arena |-> arena, plies |-> plies,
     nulls |-> FALSE, checks |-> FALSE, puts |-> 0]

\* castling on both sides, rooks that take each other, a knight that attacks
\* the squares in between
CastlingStart ==
    From(Fen(Kings(E1, E8) \cup White(ROOK, {A1, H1}) \cup Black(ROOK, {A8, H8})
               \cup Black(KNIGHT, {18}) \cup White(PAWN, {8}),
             WHITE, AnyCastling),
         {A1, E1, C1, G1, H1, A8, E8, C8, G8, H8, 18, 3}, 3)

\* an en passant capture that uncovers a rook along the rank, and one along the
\* diagonal that does not matter
EnPassantStart ==
    From(Fen(Kings(32, 62) \cup White(PAWN, {33, 12}) \cup Black(ROOK, {39})
               \cup Black(PAWN, {50, 27}) \cup White(BISHOP, {7}),
             BLACK, {}),
         {50, 34, 33, 42, 12, 28, 27, 20, 32, 40, 41, 39, 7}, 4)

\* a pawn that promotes by taking a rook in its corner, or straight on
PromotionStart ==
    From(Fen(Kings(E1, E8) \cup White(PAWN, {49}) \cup Black(ROOK, {A8})
               \cup Black(PAWN, {11}) \cup White(QUEEN, {3}),
             WHITE, {"BLACK_OOO"}),
         {49, 57, A8, 11, 3, 2, E1, E8, C8}, 3)

\* pinned pieces, checks that can be blocked or taken, a double check
CheckStart ==
    [From(Fen(Kings(E1, E8) \cup Black(ROOK, {44}) \cup White(KNIGHT, {28, 18})
                \cup Black(BISHOP, {25}) \cup White(QUEEN, {12}) \cup Black(KNIGHT, {29})
                \cup Black(PAWN, {14}),
              BLACK, {}),
          {44, 28, 29, 19, 14, 6, 4, 3, 12, 25, 18, 45}, 3)
     EXCEPT !.nulls = TRUE]

\* knights that go to and fro until positions repeat, and a pawn that may move
RepetitionStart ==
    [From(Fen(Kings(E1, E8) \cup White(KNIGHT, {G1}) \cup Black(KNIGHT, {G8})
                \cup White(PAWN, {8}),
              WHITE, {}),
          {G1, 21, G8, 45, 8, 16}, 9)
     EXCEPT !.nulls = TRUE]

\* hasCheck called or not before every move
FlagStart ==
    [From(Fen(Kings(E1, E8) \cup White(QUEEN, {3}) \cup Black(PAWN, {12}), WHITE, {}),
          {E1, 3, 12, 5, 4, E8, 51}, 3)
     EXCEPT !.checks = TRUE, !.nulls = TRUE]

\* pawn structures that meet in the entries of the cache
PawnStart ==
    [From(Fen(Kings(E1, E8) \cup White(PAWN, {12, 19, 28}) \cup Black(PAWN, {35, 42, 53}),
              WHITE, {}),
          {28, 35, 19, 27, 42, 34}, 3)
     EXCEPT !.puts = 3]

\* an exchange on one square, with pieces behind pieces
ExchangeStart ==
    From(Fen(Kings(6, 62) \cup White(PAWN, {26}) \cup White(KNIGHT, {18}) \cup White(BISHOP, {14})
               \cup White(ROOK, {3}) \cup White(QUEEN, {11}) \cup Black(PAWN, {35, 44})
               \cup Black(KNIGHT, {45}) \cup Black(ROOK, {51}) \cup Black(QUEEN, {59}),
             WHITE, {}),
         {26, 35, 18, 11, 14, 44, 45}, 3)

\* two rooks in a file take a pawn that one rook defends
BatteryStart ==
    From(Fen(Kings(6, 62) \cup White(ROOK, {3, 11}) \cup Black(PAWN, {35}) \cup Black(ROOK, {59}),
             WHITE, {}),
         {11, 35, 59, 3}, 2)

GameStarts ==
    {CastlingStart, EnPassantStart, PromotionStart, CheckStart, RepetitionStart,
     FlagStart, PawnStart, ExchangeStart, BatteryStart}

\* the last pawn can be taken
PawnlessStarts ==
    {[From(Fen(Kings(E1, E8) \cup White(ROOK, {0}) \cup Black(PAWN, {32}), WHITE, {}),
           {0, 32}, 1)
      EXCEPT !.puts = 1]}
================================================================================
