----------------------------- MODULE GameProofs -----------------------------
(***************************************************************************)
(* Theorems about Game. The squares, pieces and lines of the board; the    *)
(* invariant of a position, and of the history that undoes every move of a *)
(* game; the evaluator's cache; and the repetitions found in the history.  *)
(***************************************************************************)
EXTENDS Game, FiniteSetTheorems, SequenceTheorems, WellFoundedInduction, TLAPS

Fields == {"board", "nextPlayer", "castlingRights", "enPassantSquare", "halfMoveClock",
           "moveNumber", "historyState", "kingSquare", "piecesBb", "occupiedBb", "zobristKey",
           "pawnKey", "material", "materialNonPawn", "gamePhase", "hasCheckFlag"}
IsPosition(p) == DOMAIN p = Fields /\ p = [x \in Fields |-> p[x]]

(* What putPiece and removePiece write, and what they leave alone. *)
SameBoard(p, q) ==
    /\ q.board = p.board
    /\ q.kingSquare = p.kingSquare
    /\ q.piecesBb = p.piecesBb
    /\ q.occupiedBb = p.occupiedBb
    /\ q.pawnKey = p.pawnKey
    /\ q.material = p.material
    /\ q.materialNonPawn = p.materialNonPawn
    /\ q.gamePhase = p.gamePhase
SameRest(p, q) ==
    /\ q.nextPlayer = p.nextPlayer
    /\ q.castlingRights = p.castlingRights
    /\ q.enPassantSquare = p.enPassantSquare
    /\ q.halfMoveClock = p.halfMoveClock
    /\ q.moveNumber = p.moveNumber
    /\ q.historyState = p.historyState
    /\ q.hasCheckFlag = p.hasCheckFlag

IsPut(p, q, pc, d, t, sq) ==
    /\ IsPosition(q)
    /\ SameRest(p, q)
    /\ q.board = [p.board EXCEPT ![sq] = pc]
    /\ q.kingSquare = [p.kingSquare EXCEPT ![d] = IF t = KING THEN sq ELSE @]
    /\ q.piecesBb = [p.piecesBb EXCEPT ![d][t] = @ \cup {sq}]
    /\ q.occupiedBb = [p.occupiedBb EXCEPT ![d] = @ \cup {sq}]
    /\ q.zobristKey = Xor(p.zobristKey, pieceFeature(pc, sq))
    /\ q.pawnKey = (IF t = PAWN THEN Xor(p.pawnKey, pieceFeature(pc, sq)) ELSE p.pawnKey)
    /\ q.gamePhase = (IF p.gamePhase + phaseValue[t] > GAME_PHASE_MAX THEN GAME_PHASE_MAX
                      ELSE p.gamePhase + phaseValue[t])
    /\ q.material = [p.material EXCEPT ![d] = @ + pieceTypeValue[t]]
    /\ q.materialNonPawn =
         [p.materialNonPawn EXCEPT ![d] = IF t > PAWN THEN @ + pieceTypeValue[t] ELSE @]
IsRemoved(p, q, pc, d, t, sq) ==
    /\ IsPosition(q)
    /\ SameRest(p, q)
    /\ q.board = [p.board EXCEPT ![sq] = PIECE_NONE]
    /\ q.kingSquare = p.kingSquare
    /\ q.piecesBb = [p.piecesBb EXCEPT ![d][t] = Xor(@, {sq})]
    /\ q.occupiedBb = [p.occupiedBb EXCEPT ![d] = Xor(@, {sq})]
    /\ q.zobristKey = Xor(p.zobristKey, pieceFeature(pc, sq))
    /\ q.pawnKey = (IF t = PAWN THEN Xor(p.pawnKey, pieceFeature(pc, sq)) ELSE p.pawnKey)
    /\ q.gamePhase = Larger(p.gamePhase - phaseValue[t], 0)
    /\ q.material = [p.material EXCEPT ![d] = @ - pieceTypeValue[t]]
    /\ q.materialNonPawn =
         [p.materialNonPawn EXCEPT ![d] = IF t > PAWN THEN @ - pieceTypeValue[t] ELSE @]

\* What putPiece writes into each field.
LEMMA PutFields ==
  ASSUME NEW p, IsPosition(p), NEW pc, NEW sq, NEW d, NEW t,
         colorOf(pc) = d, typeOf(pc) = t
  PROVE  IsPut(p, putPiece(p, pc, sq), pc, d, t, sq)
<1> DEFINE q == putPiece(p, pc, sq)
<1>1. DOMAIN p = Fields
  BY DEF IsPosition
<1>2. IsPosition(q)
  <2>1. DOMAIN q = Fields
    BY <1>1 DEF putPiece
  <2>2. PICK r, v : q = [r EXCEPT !.materialNonPawn = v]
    BY Zenon DEF putPiece
  <2>3. q = [x \in DOMAIN q |-> q[x]]
    BY <2>2
  <2> QED BY <2>1, <2>3 DEF IsPosition
<1>3. SameRest(p, q)
  <2>1. q.nextPlayer = p.nextPlayer /\ q.castlingRights = p.castlingRights
    BY <1>1 DEF Fields, putPiece
  <2>2. q.enPassantSquare = p.enPassantSquare /\ q.halfMoveClock = p.halfMoveClock
    BY <1>1 DEF Fields, putPiece
  <2>3. q.moveNumber = p.moveNumber /\ q.historyState = p.historyState
    BY <1>1 DEF Fields, putPiece
  <2>4. q.hasCheckFlag = p.hasCheckFlag
    BY <1>1 DEF Fields, putPiece
  <2> QED BY <2>1, <2>2, <2>3, <2>4 DEF SameRest
<1>4. q.board = [p.board EXCEPT ![sq] = pc]
  BY <1>1 DEF Fields, putPiece
<1>5. q.kingSquare = [p.kingSquare EXCEPT ![d] = IF t = KING THEN sq ELSE @]
  BY <1>1 DEF Fields, putPiece
<1>6. q.piecesBb = [p.piecesBb EXCEPT ![d][t] = @ \cup {sq}]
  BY <1>1 DEF Fields, putPiece
<1>7. q.occupiedBb = [p.occupiedBb EXCEPT ![d] = @ \cup {sq}]
  BY <1>1 DEF Fields, putPiece
<1>8. q.zobristKey = Xor(p.zobristKey, pieceFeature(pc, sq))
  BY <1>1 DEF Fields, putPiece
<1>9. q.pawnKey = (IF t = PAWN THEN Xor(p.pawnKey, pieceFeature(pc, sq)) ELSE p.pawnKey)
  BY <1>1 DEF Fields, putPiece
<1>10. q.gamePhase = (IF p.gamePhase + phaseValue[t] > GAME_PHASE_MAX THEN GAME_PHASE_MAX
                      ELSE p.gamePhase + phaseValue[t])
  BY <1>1 DEF Fields, putPiece
<1>11. q.material = [p.material EXCEPT ![d] = @ + pieceTypeValue[t]]
  BY <1>1 DEF Fields, putPiece
<1>12. q.materialNonPawn =
         [p.materialNonPawn EXCEPT ![d] = IF t > PAWN THEN @ + pieceTypeValue[t] ELSE @]
  BY <1>1 DEF Fields, putPiece
<1> HIDE DEF q
<1>13. IsPut(p, q, pc, d, t, sq)
  BY <1>2, <1>3, <1>4, <1>5, <1>6, <1>7, <1>8, <1>9, <1>10, <1>11, <1>12 DEF IsPut
<1> QED BY <1>13 DEF q

\* What removePiece writes into each field.
LEMMA RemoveFields ==
  ASSUME NEW p, IsPosition(p), NEW pc, NEW sq, NEW d, NEW t,
         p.board[sq] = pc, colorOf(pc) = d, typeOf(pc) = t
  PROVE  IsRemoved(p, removePiece(p, sq), pc, d, t, sq)
<1> DEFINE q == removePiece(p, sq)
<1>1. DOMAIN p = Fields
  BY DEF IsPosition
<1>2. IsPosition(q)
  <2>1. DOMAIN q = Fields
    BY <1>1 DEF removePiece
  <2>2. PICK r, v : q = [r EXCEPT !.materialNonPawn = v]
    BY Zenon DEF removePiece
  <2>3. q = [x \in DOMAIN q |-> q[x]]
    BY <2>2
  <2> QED BY <2>1, <2>3 DEF IsPosition
<1>3. SameRest(p, q)
  <2>1. q.nextPlayer = p.nextPlayer /\ q.castlingRights = p.castlingRights
    BY <1>1 DEF Fields, removePiece
  <2>2. q.enPassantSquare = p.enPassantSquare /\ q.halfMoveClock = p.halfMoveClock
    BY <1>1 DEF Fields, removePiece
  <2>3. q.moveNumber = p.moveNumber /\ q.historyState = p.historyState
    BY <1>1 DEF Fields, removePiece
  <2>4. q.hasCheckFlag = p.hasCheckFlag
    BY <1>1 DEF Fields, removePiece
  <2> QED BY <2>1, <2>2, <2>3, <2>4 DEF SameRest
<1>4. q.board = [p.board EXCEPT ![sq] = PIECE_NONE]
  BY <1>1 DEF Fields, removePiece
<1>5. q.kingSquare = p.kingSquare
  BY <1>1 DEF Fields, removePiece
<1>6. q.piecesBb = [p.piecesBb EXCEPT ![d][t] = Xor(@, {sq})]
  BY <1>1 DEF Fields, removePiece
<1>7. q.occupiedBb = [p.occupiedBb EXCEPT ![d] = Xor(@, {sq})]
  BY <1>1 DEF Fields, removePiece
<1>8. q.zobristKey = Xor(p.zobristKey, pieceFeature(pc, sq))
  BY <1>1 DEF Fields, removePiece
<1>9. q.pawnKey = (IF t = PAWN THEN Xor(p.pawnKey, pieceFeature(pc, sq)) ELSE p.pawnKey)
  BY <1>1 DEF Fields, removePiece
<1>10. q.gamePhase = Larger(p.gamePhase - phaseValue[t], 0)
  BY <1>1 DEF Fields, removePiece
<1>11. q.material = [p.material EXCEPT ![d] = @ - pieceTypeValue[t]]
  BY <1>1 DEF Fields, removePiece
<1>12. q.materialNonPawn =
         [p.materialNonPawn EXCEPT ![d] = IF t > PAWN THEN @ - pieceTypeValue[t] ELSE @]
  BY <1>1 DEF Fields, removePiece
<1> HIDE DEF q
<1>13. IsRemoved(p, q, pc, d, t, sq)
  BY <1>2, <1>3, <1>4, <1>5, <1>6, <1>7, <1>8, <1>9, <1>10, <1>11, <1>12 DEF IsRemoved
<1> QED BY <1>13 DEF q

-----------------------------------------------------------------------------

\* A piece is its colour and its type.
LEMMA PieceFacts ==
  /\ \A c \in Color, pt \in PieceType :
        /\ makePiece(c, pt) \in Piece
        /\ colorOf(makePiece(c, pt)) = c
        /\ typeOf(makePiece(c, pt)) = pt
  /\ \A pc \in Piece :
        /\ colorOf(pc) \in Color
        /\ typeOf(pc) \in PieceType
        /\ makePiece(colorOf(pc), typeOf(pc)) = pc
        /\ pc # PIECE_NONE
  /\ typeOf(PIECE_NONE) \notin PieceType
<1> USE DEF Color, WHITE, BLACK, PieceType, KING, PAWN, KNIGHT, BISHOP, ROOK, QUEEN
<1>1. ASSUME NEW c \in Color, NEW pt \in PieceType
      PROVE  /\ makePiece(c, pt) \in Piece
             /\ colorOf(makePiece(c, pt)) = c
             /\ typeOf(makePiece(c, pt)) = pt
             /\ makePiece(c, pt) # PIECE_NONE
  BY DEF makePiece, Piece, colorOf, typeOf, PIECE_NONE
<1>2. ASSUME NEW pc \in Piece
      PROVE  \E c \in Color, pt \in PieceType : pc = makePiece(c, pt)
  BY DEF Piece
<1>3. typeOf(PIECE_NONE) \notin PieceType
  BY DEF PIECE_NONE, typeOf
<1>4. ASSUME NEW pc \in Piece
      PROVE  /\ colorOf(pc) \in Color
             /\ typeOf(pc) \in PieceType
             /\ makePiece(colorOf(pc), typeOf(pc)) = pc
             /\ pc # PIECE_NONE
  <2>1. PICK c \in Color, pt \in PieceType : pc = makePiece(c, pt)
    BY <1>2
  <2>2. colorOf(pc) = c /\ typeOf(pc) = pt /\ pc # PIECE_NONE
    BY <1>1, <2>1
  <2> QED BY ONLY <2>1, <2>2, c \in Color, pt \in PieceType
<1> QED BY <1>1, <1>3, <1>4

\* There are finitely many squares.
LEMMA Squares == IsFiniteSet(Square) /\ Square = 0 .. 63
<1>1. \A a, b \in Int : IsFiniteSet(a .. b)
  BY FS_Interval
<1>2. 0 \in Int /\ 63 \in Int
  OBVIOUS
<1>3. IsFiniteSet(0 .. 63)
  BY Zenon, <1>1, <1>2
<1> QED BY <1>3 DEF Square

-----------------------------------------------------------------------------
(* What is kept with the board, as functions of the board. *)

Own(p, c) == {s \in Square : p.board[s] # PIECE_NONE /\ colorOf(p.board[s]) = c}
BoardOK(p) ==
    /\ p.board \in [Square -> Piece \cup {PIECE_NONE}]
    /\ p.piecesBb = [c \in Color |-> [pt \in PieceType |-> Placed(p, c, pt)]]
    /\ p.occupiedBb = [c \in Color |-> Own(p, c)]
    /\ p.pawnKey = PieceFeatures(p, {PAWN})
    /\ p.material = [c \in Color |-> Worth(p, c, PieceType)]
    /\ p.materialNonPawn = [c \in Color |-> Worth(p, c, KNIGHT .. QUEEN)]
\* the features in the key that are no pieces
KeyIs(p, others) == p.zobristKey = PieceFeatures(p, PieceType) \cup others
NoPieces(others) == \A f \in others : f[1] # "piece"

Count(p, c, pt) == Cardinality(Placed(p, c, pt))
Both(p, pt) == Cardinality(Placed(p, WHITE, pt) \cup Placed(p, BLACK, pt))

\* Pieces of a kind can be counted.
LEMMA CountNat ==
  ASSUME NEW p, NEW c, NEW pt
  PROVE  /\ IsFiniteSet(Placed(p, c, pt)) /\ Count(p, c, pt) \in Nat
         /\ IsFiniteSet(Placed(p, WHITE, pt) \cup Placed(p, BLACK, pt)) /\ Both(p, pt) \in Nat
<1>1. Placed(p, c, pt) \subseteq Square /\ Placed(p, WHITE, pt) \cup Placed(p, BLACK, pt) \subseteq Square
  BY DEF Placed
<1>2. IsFiniteSet(Placed(p, c, pt)) /\ IsFiniteSet(Placed(p, WHITE, pt) \cup Placed(p, BLACK, pt))
  BY <1>1, Squares, FS_Subset
<1> QED BY <1>2, FS_CardinalityType DEF Count, Both

\* The game phase of a board, without the types that do not count.
LEMMA PhaseIs ==
  ASSUME NEW p
  PROVE  PhaseOf(p) = Both(p, KNIGHT) + Both(p, BISHOP) + 2 * Both(p, ROOK) + 4 * Both(p, QUEEN)
<1>1. /\ phaseValue[KING] = 0 /\ phaseValue[PAWN] = 0 /\ phaseValue[KNIGHT] = 1
      /\ phaseValue[BISHOP] = 1 /\ phaseValue[ROOK] = 2 /\ phaseValue[QUEEN] = 4
  BY DEF phaseValue, KING, PAWN, KNIGHT, BISHOP, ROOK, QUEEN
<1> DEFINE f == [pt \in PieceType |-> phaseValue[pt] * Both(p, pt)]
<1>2. PhaseOf(p) = SumOverTypes(f)
  BY DEF PhaseOf, Both
<1>3. \A pt \in PieceType : f[pt] = phaseValue[pt] * Both(p, pt)
  OBVIOUS
<1>4. KING \in PieceType /\ PAWN \in PieceType /\ KNIGHT \in PieceType /\ BISHOP \in PieceType
      /\ ROOK \in PieceType /\ QUEEN \in PieceType
  BY DEF PieceType, KING, PAWN, KNIGHT, BISHOP, ROOK, QUEEN
<1> HIDE DEF f
<1>5. \A pt \in PieceType : Both(p, pt) \in Nat
  BY CountNat
<1>6. /\ f[KING] = 0 /\ f[PAWN] = 0 /\ f[KNIGHT] = Both(p, KNIGHT) /\ f[BISHOP] = Both(p, BISHOP)
      /\ f[ROOK] = 2 * Both(p, ROOK) /\ f[QUEEN] = 4 * Both(p, QUEEN)
  BY <1>1, <1>3, <1>4, <1>5
<1> QED BY <1>2, <1>4, <1>5, <1>6 DEF SumOverTypes

\* The material of a board, without the types that do not count.
LEMMA WorthIs ==
  ASSUME NEW p, NEW c
  PROVE  /\ Worth(p, c, KNIGHT .. QUEEN) =
              320 * Count(p, c, KNIGHT) + 330 * Count(p, c, BISHOP) + 500 * Count(p, c, ROOK)
              + 900 * Count(p, c, QUEEN)
         /\ Worth(p, c, PieceType) =
              2000 * Count(p, c, KING) + 100 * Count(p, c, PAWN) + Worth(p, c, KNIGHT .. QUEEN)
         /\ Worth(p, c, PieceType) \in Nat /\ Worth(p, c, KNIGHT .. QUEEN) \in Nat
<1>1. /\ pieceTypeValue[KING] = 2000 /\ pieceTypeValue[PAWN] = 100 /\ pieceTypeValue[KNIGHT] = 320
      /\ pieceTypeValue[BISHOP] = 330 /\ pieceTypeValue[ROOK] = 500 /\ pieceTypeValue[QUEEN] = 900
  BY DEF pieceTypeValue, KING, PAWN, KNIGHT, BISHOP, ROOK, QUEEN
<1> DEFINE f(types) == [pt \in PieceType |->
                          IF pt \in types THEN pieceTypeValue[pt] * Count(p, c, pt) ELSE 0]
<1>2. ASSUME NEW types PROVE Worth(p, c, types) = SumOverTypes(f(types))
  BY DEF Worth, Count
<1>3. ASSUME NEW types, NEW pt \in PieceType
      PROVE  f(types)[pt] = IF pt \in types THEN pieceTypeValue[pt] * Count(p, c, pt) ELSE 0
  OBVIOUS
<1>4. KING \in PieceType /\ PAWN \in PieceType /\ KNIGHT \in PieceType /\ BISHOP \in PieceType
      /\ ROOK \in PieceType /\ QUEEN \in PieceType
  BY DEF PieceType, KING, PAWN, KNIGHT, BISHOP, ROOK, QUEEN
<1>5. KING \notin KNIGHT .. QUEEN /\ PAWN \notin KNIGHT .. QUEEN /\ KNIGHT \in KNIGHT .. QUEEN
      /\ BISHOP \in KNIGHT .. QUEEN /\ ROOK \in KNIGHT .. QUEEN /\ QUEEN \in KNIGHT .. QUEEN
  BY DEF KING, PAWN, KNIGHT, BISHOP, ROOK, QUEEN
<1> HIDE DEF f
<1>7a. \A pt \in PieceType : Count(p, c, pt) \in Nat
  BY CountNat
<1>7b. ASSUME NEW types
      PROVE  /\ f(types)[KING] = IF KING \in types THEN 2000 * Count(p, c, KING) ELSE 0
             /\ f(types)[PAWN] = IF PAWN \in types THEN 100 * Count(p, c, PAWN) ELSE 0
             /\ f(types)[KNIGHT] = IF KNIGHT \in types THEN 320 * Count(p, c, KNIGHT) ELSE 0
             /\ f(types)[BISHOP] = IF BISHOP \in types THEN 330 * Count(p, c, BISHOP) ELSE 0
             /\ f(types)[ROOK] = IF ROOK \in types THEN 500 * Count(p, c, ROOK) ELSE 0
             /\ f(types)[QUEEN] = IF QUEEN \in types THEN 900 * Count(p, c, QUEEN) ELSE 0
  BY <1>1, <1>3, <1>4, <1>7a
<1>8. /\ f(KNIGHT .. QUEEN)[KING] = 0 /\ f(KNIGHT .. QUEEN)[PAWN] = 0
      /\ f(KNIGHT .. QUEEN)[KNIGHT] = 320 * Count(p, c, KNIGHT)
      /\ f(KNIGHT .. QUEEN)[BISHOP] = 330 * Count(p, c, BISHOP)
      /\ f(KNIGHT .. QUEEN)[ROOK] = 500 * Count(p, c, ROOK)
      /\ f(KNIGHT .. QUEEN)[QUEEN] = 900 * Count(p, c, QUEEN)
  BY <1>5, <1>7b
<1>9. /\ f(PieceType)[KING] = 2000 * Count(p, c, KING)
      /\ f(PieceType)[PAWN] = 100 * Count(p, c, PAWN)
      /\ f(PieceType)[KNIGHT] = 320 * Count(p, c, KNIGHT)
      /\ f(PieceType)[BISHOP] = 330 * Count(p, c, BISHOP)
      /\ f(PieceType)[ROOK] = 500 * Count(p, c, ROOK)
      /\ f(PieceType)[QUEEN] = 900 * Count(p, c, QUEEN)
  BY <1>4, <1>7b
<1>10. Worth(p, c, KNIGHT .. QUEEN) = SumOverTypes(f(KNIGHT .. QUEEN)) /\ Worth(p, c, PieceType) = SumOverTypes(f(PieceType))
  BY <1>2
<1>11. /\ Count(p, c, KING) \in Nat /\ Count(p, c, PAWN) \in Nat /\ Count(p, c, KNIGHT) \in Nat
       /\ Count(p, c, BISHOP) \in Nat /\ Count(p, c, ROOK) \in Nat /\ Count(p, c, QUEEN) \in Nat
  BY <1>4, <1>7a
<1>12. Worth(p, c, KNIGHT .. QUEEN) =
         320 * Count(p, c, KNIGHT) + 330 * Count(p, c, BISHOP) + 500 * Count(p, c, ROOK)
         + 900 * Count(p, c, QUEEN)
  BY <1>8, <1>10, <1>11 DEF SumOverTypes
<1>13. Worth(p, c, PieceType) =
         2000 * Count(p, c, KING) + 100 * Count(p, c, PAWN) + 320 * Count(p, c, KNIGHT)
         + 330 * Count(p, c, BISHOP) + 500 * Count(p, c, ROOK) + 900 * Count(p, c, QUEEN)
  BY <1>9, <1>10, <1>11 DEF SumOverTypes
<1>14. Worth(p, c, KNIGHT .. QUEEN) \in Nat
  BY <1>11, <1>12
<1>15. Worth(p, c, PieceType) =
         2000 * Count(p, c, KING) + 100 * Count(p, c, PAWN) + Worth(p, c, KNIGHT .. QUEEN)
  <2> DEFINE i == Count(p, c, KING)
             j == Count(p, c, PAWN)
             k == Count(p, c, KNIGHT)
             l == Count(p, c, BISHOP)
             m == Count(p, c, ROOK)
             n == Count(p, c, QUEEN)
             v == Worth(p, c, PieceType)
             w == Worth(p, c, KNIGHT .. QUEEN)
  <2>1. i \in Nat /\ j \in Nat /\ k \in Nat /\ l \in Nat /\ m \in Nat /\ n \in Nat
    BY <1>11
  <2>2. w = 320 * k + 330 * l + 500 * m + 900 * n
    BY <1>12
  <2>3. v = 2000 * i + 100 * j + 320 * k + 330 * l + 500 * m + 900 * n
    BY <1>13
  <2> HIDE DEF i, j, k, l, m, n, v, w
  <2>4. v = 2000 * i + 100 * j + w
    BY <2>1, <2>2, <2>3
  <2> QED BY <2>4 DEF i, j, v, w
<1>16. Worth(p, c, PieceType) \in Nat
  BY <1>11, <1>14, <1>15
<1> QED BY <1>12, <1>14, <1>15, <1>16

-----------------------------------------------------------------------------
(* A piece is put on an empty square. *)

Gains(p, q, d, t, sq) ==
    /\ q.board \in [Square -> Piece \cup {PIECE_NONE}]
    /\ \A c \in Color, pt \in PieceType :
         /\ Placed(q, c, pt) = IF c = d /\ pt = t THEN Placed(p, c, pt) \cup {sq} ELSE Placed(p, c, pt)
         /\ Count(q, c, pt) = IF c = d /\ pt = t THEN Count(p, c, pt) + 1 ELSE Count(p, c, pt)
    /\ \A pt \in PieceType : Both(q, pt) = IF pt = t THEN Both(p, pt) + 1 ELSE Both(p, pt)
    /\ \A c \in Color : Own(q, c) = IF c = d THEN Own(p, c) \cup {sq} ELSE Own(p, c)
    /\ \A types \in SUBSET PieceType :
         /\ <<"piece", makePiece(d, t), sq>> \notin PieceFeatures(p, types)
         /\ PieceFeatures(q, types) =
               IF t \in types THEN PieceFeatures(p, types) \cup {<<"piece", makePiece(d, t), sq>>}
               ELSE PieceFeatures(p, types)

\* A piece on an empty square is one more of its kind, there.
LEMMA PutPlaces ==
  ASSUME NEW p, NEW q, NEW d \in Color, NEW t \in PieceType, NEW sq \in Square,
         p.board \in [Square -> Piece \cup {PIECE_NONE}], p.board[sq] = PIECE_NONE,
         q.board = [p.board EXCEPT ![sq] = makePiece(d, t)]
  PROVE  Gains(p, q, d, t, sq)
<1> DEFINE pc == makePiece(d, t)
<1>1. pc \in Piece /\ pc # PIECE_NONE /\ colorOf(pc) = d /\ typeOf(pc) = t
  BY PieceFacts
<1>2. q.board \in [Square -> Piece \cup {PIECE_NONE}]
  BY <1>1
<1>3. \A s \in Square : q.board[s] = IF s = sq THEN pc ELSE p.board[s]
  OBVIOUS
<1> HIDE DEF pc
<1>4. ASSUME NEW c \in Color, NEW pt \in PieceType
      PROVE  /\ Placed(q, c, pt) = IF c = d /\ pt = t THEN Placed(p, c, pt) \cup {sq} ELSE Placed(p, c, pt)
             /\ sq \notin Placed(p, c, pt)
  <2>1. pc = makePiece(c, pt) <=> c = d /\ pt = t
    BY PieceFacts DEF pc
  <2>2. PIECE_NONE # makePiece(c, pt)
    BY PieceFacts
  <2> QED BY <1>3, <2>1, <2>2 DEF Placed
<1>5. ASSUME NEW c \in Color, NEW pt \in PieceType
      PROVE  Count(q, c, pt) = IF c = d /\ pt = t THEN Count(p, c, pt) + 1 ELSE Count(p, c, pt)
  <2>1. Cardinality(Placed(p, c, pt) \cup {sq}) = Cardinality(Placed(p, c, pt)) + 1
    BY <1>4, CountNat, FS_AddElement
  <2> QED BY <1>4, <2>1 DEF Count
<1>6. ASSUME NEW pt \in PieceType PROVE Both(q, pt) = IF pt = t THEN Both(p, pt) + 1 ELSE Both(p, pt)
  <2> DEFINE all(x) == Placed(x, WHITE, pt) \cup Placed(x, BLACK, pt)
  <2>1. Color = {WHITE, BLACK}
    BY DEF Color
  <2>2. all(q) = IF pt = t THEN all(p) \cup {sq} ELSE all(p)
    BY <1>4, <2>1
  <2>3. sq \notin all(p) /\ IsFiniteSet(all(p))
    BY <1>4, <2>1, CountNat
  <2> HIDE DEF all
  <2>4. Cardinality(all(p) \cup {sq}) = Cardinality(all(p)) + 1
    BY <2>3, FS_AddElement
  <2>5. Both(q, pt) = Cardinality(all(q)) /\ Both(p, pt) = Cardinality(all(p))
    BY DEF Both, all
  <2> QED BY <2>2, <2>4, <2>5
<1>7. ASSUME NEW c \in Color PROVE Own(q, c) = IF c = d THEN Own(p, c) \cup {sq} ELSE Own(p, c)
  BY <1>1, <1>3 DEF Own
<1>8. ASSUME NEW types \in SUBSET PieceType
      PROVE  /\ PieceFeatures(q, types) = IF t \in types THEN PieceFeatures(p, types) \cup {<<"piece", pc, sq>>}
                                          ELSE PieceFeatures(p, types)
             /\ <<"piece", pc, sq>> \notin PieceFeatures(p, types)
  <2> DEFINE on(x) == {s \in Square : typeOf(x.board[s]) \in types}
  <2>1. sq \notin on(p)
    BY PieceFacts
  <2>2. on(q) = IF t \in types THEN on(p) \cup {sq} ELSE on(p)
    BY <1>1, <1>3, <2>1
  <2>3. \A s \in on(p) : q.board[s] = p.board[s]
    BY <1>3, <2>1
  <2>4. q.board[sq] = pc
    BY <1>3
  <2>5. PieceFeatures(q, types) = {<<"piece", q.board[s], s>> : s \in on(q)}
    BY DEF PieceFeatures
  <2>6. PieceFeatures(p, types) = {<<"piece", p.board[s], s>> : s \in on(p)}
    BY DEF PieceFeatures
  <2> HIDE DEF on
  <2> QED BY <2>1, <2>2, <2>3, <2>4, <2>5, <2>6
<1> QED BY <1>2, <1>4, <1>5, <1>6, <1>7, <1>8 DEF Gains, pc

-----------------------------------------------------------------------------
(* A piece is taken from its square. *)
Loses(p, q, d, t, sq) ==
    /\ q.board \in [Square -> Piece \cup {PIECE_NONE}]
    /\ \A c \in Color, pt \in PieceType :
         /\ Placed(q, c, pt) = IF c = d /\ pt = t THEN Placed(p, c, pt) \ {sq} ELSE Placed(p, c, pt)
         /\ sq \in Placed(p, c, pt) <=> c = d /\ pt = t
         /\ Count(q, c, pt) = IF c = d /\ pt = t THEN Count(p, c, pt) - 1 ELSE Count(p, c, pt)
    /\ \A pt \in PieceType : Both(q, pt) = IF pt = t THEN Both(p, pt) - 1 ELSE Both(p, pt)
    /\ \A c \in Color : Own(q, c) = IF c = d THEN Own(p, c) \ {sq} ELSE Own(p, c)
    /\ sq \in Own(p, d)
    /\ \A types \in SUBSET PieceType :
         /\ t \in types => <<"piece", makePiece(d, t), sq>> \in PieceFeatures(p, types)
         /\ PieceFeatures(q, types) =
               IF t \in types THEN PieceFeatures(p, types) \ {<<"piece", makePiece(d, t), sq>>}
               ELSE PieceFeatures(p, types)

\* A piece taken from its square is one less of its kind, there.
LEMMA RemovePlaces ==
  ASSUME NEW p, NEW q, NEW d \in Color, NEW t \in PieceType, NEW sq \in Square,
         p.board \in [Square -> Piece \cup {PIECE_NONE}], p.board[sq] = makePiece(d, t),
         q.board = [p.board EXCEPT ![sq] = PIECE_NONE]
  PROVE  Loses(p, q, d, t, sq)
<1> DEFINE pc == makePiece(d, t)
<1>1. pc \in Piece /\ pc # PIECE_NONE /\ colorOf(pc) = d /\ typeOf(pc) = t
  BY PieceFacts
<1>2. q.board \in [Square -> Piece \cup {PIECE_NONE}]
  OBVIOUS
<1>3. \A s \in Square : q.board[s] = IF s = sq THEN PIECE_NONE ELSE p.board[s]
  OBVIOUS
<1>0. p.board[sq] = pc
  OBVIOUS
<1> HIDE DEF pc
<1>4. ASSUME NEW c \in Color, NEW pt \in PieceType
      PROVE  /\ Placed(q, c, pt) = IF c = d /\ pt = t THEN Placed(p, c, pt) \ {sq} ELSE Placed(p, c, pt)
             /\ sq \in Placed(p, c, pt) <=> c = d /\ pt = t
  <2>1. pc = makePiece(c, pt) <=> c = d /\ pt = t
    BY PieceFacts DEF pc
  <2>2. PIECE_NONE # makePiece(c, pt)
    BY PieceFacts
  <2> QED BY <1>3, <1>0, <2>1, <2>2 DEF Placed
<1>5. ASSUME NEW c \in Color, NEW pt \in PieceType
      PROVE  Count(q, c, pt) = IF c = d /\ pt = t THEN Count(p, c, pt) - 1 ELSE Count(p, c, pt)
  <2>1. sq \in Placed(p, c, pt) => Cardinality(Placed(p, c, pt) \ {sq}) = Cardinality(Placed(p, c, pt)) - 1
    BY CountNat, FS_RemoveElement
  <2> QED BY <1>4, <2>1 DEF Count
<1>6. ASSUME NEW pt \in PieceType PROVE Both(q, pt) = IF pt = t THEN Both(p, pt) - 1 ELSE Both(p, pt)
  <2> DEFINE all(x) == Placed(x, WHITE, pt) \cup Placed(x, BLACK, pt)
  <2>1. Color = {WHITE, BLACK}
    BY DEF Color
  <2>2. all(q) = IF pt = t THEN all(p) \ {sq} ELSE all(p)
    BY <1>4, <2>1
  <2>3. (pt = t => sq \in all(p)) /\ IsFiniteSet(all(p))
    BY <1>4, <2>1, CountNat
  <2> HIDE DEF all
  <2>4. sq \in all(p) => Cardinality(all(p) \ {sq}) = Cardinality(all(p)) - 1
    BY <2>3, FS_RemoveElement
  <2>5. Both(q, pt) = Cardinality(all(q)) /\ Both(p, pt) = Cardinality(all(p))
    BY DEF Both, all
  <2> QED BY <2>2, <2>3, <2>4, <2>5
<1>7. ASSUME NEW c \in Color
      PROVE  Own(q, c) = (IF c = d THEN Own(p, c) \ {sq} ELSE Own(p, c)) /\ sq \in Own(p, d)
  BY <1>1, <1>3, <1>0 DEF Own
<1>8. ASSUME NEW types \in SUBSET PieceType
      PROVE  /\ PieceFeatures(q, types) = IF t \in types THEN PieceFeatures(p, types) \ {<<"piece", pc, sq>>}
                                          ELSE PieceFeatures(p, types)
             /\ t \in types => <<"piece", pc, sq>> \in PieceFeatures(p, types)
  <2> DEFINE on(x) == {s \in Square : typeOf(x.board[s]) \in types}
  <2>1. sq \notin on(q)
    BY <1>3, PieceFacts
  <2>2. on(q) = IF t \in types THEN on(p) \ {sq} ELSE on(p)
    BY <1>1, <1>3, <1>0, <2>1
  <2>3. \A s \in on(q) : q.board[s] = p.board[s]
    BY <1>3, <2>1
  <2>4. t \in types => sq \in on(p)
    BY <1>1, <1>0
  <2>5. PieceFeatures(q, types) = {<<"piece", q.board[s], s>> : s \in on(q)}
    BY DEF PieceFeatures
  <2>6. PieceFeatures(p, types) = {<<"piece", p.board[s], s>> : s \in on(p)}
    BY DEF PieceFeatures
  <2> HIDE DEF on
  <2>7. CASE t \in types
    <3>1. \A s \in on(p) : <<"piece", p.board[s], s>> = <<"piece", pc, sq>> <=> s = sq
      BY <1>0
    <3>2. PieceFeatures(q, types) = {<<"piece", p.board[s], s>> : s \in on(p) \ {sq}}
      BY <2>2, <2>3, <2>5, <2>7
    <3> QED BY <1>0, <2>4, <2>6, <2>7, <3>1, <3>2
  <2>8. CASE t \notin types
    BY <2>2, <2>3, <2>5, <2>6, <2>8
  <2> QED BY <2>7, <2>8
<1>9. \A c \in Color : Own(q, c) = IF c = d THEN Own(p, c) \ {sq} ELSE Own(p, c)
  BY <1>7
<1>10. sq \in Own(p, d)
  BY <1>7
<1> QED BY <1>2, <1>4, <1>5, <1>6, <1>8, <1>9, <1>10 DEF Loses, pc

\* To XOR a feature in and to XOR it out.
LEMMA XorFacts ==
  /\ \A A, x : x \notin A => Xor(A, {x}) = A \cup {x}
  /\ \A A, x : x \in A => Xor(A, {x}) = A \ {x}
BY DEF Xor, SymDiff

\* Which types the pawn key and the material without pawns count.
LEMMA TypeSets ==
  /\ PieceType \in SUBSET PieceType
  /\ {PAWN} \in SUBSET PieceType
  /\ KNIGHT .. QUEEN \in SUBSET PieceType
  /\ \A pt \in PieceType : pt \in KNIGHT .. QUEEN <=> pt > PAWN
  /\ Color = {WHITE, BLACK} /\ WHITE # BLACK
BY DEF PieceType, KING, PAWN, KNIGHT, QUEEN, Color, WHITE, BLACK

(* Worth changes by the value of the piece. *)
WorthMove(p, q, d, t, step, c) ==
    /\ Worth(q, c, PieceType) =
         IF c = d THEN Worth(p, c, PieceType) + step * pieceTypeValue[t] ELSE Worth(p, c, PieceType)
    /\ Worth(q, c, KNIGHT .. QUEEN) =
         IF c = d /\ t > PAWN THEN Worth(p, c, KNIGHT .. QUEEN) + step * pieceTypeValue[t]
         ELSE Worth(p, c, KNIGHT .. QUEEN)
WorthMoves(p, q, d, t, step) == \A c \in Color : WorthMove(p, q, d, t, step, c)

\* A piece more or less changes the material by its value.
LEMMA WorthStep ==
  ASSUME NEW p, NEW q, NEW d \in Color, NEW t \in PieceType, NEW step \in {1, -1},
         \A c \in Color, pt \in PieceType :
            Count(q, c, pt) = IF c = d /\ pt = t THEN Count(p, c, pt) + step ELSE Count(p, c, pt)
  PROVE  WorthMoves(p, q, d, t, step)
<1> SUFFICES ASSUME NEW c \in Color PROVE WorthMove(p, q, d, t, step, c)
  BY DEF WorthMoves
<1>1. /\ pieceTypeValue[1] = 2000 /\ pieceTypeValue[2] = 100 /\ pieceTypeValue[3] = 320
      /\ pieceTypeValue[4] = 330 /\ pieceTypeValue[5] = 500 /\ pieceTypeValue[6] = 900
  BY DEF pieceTypeValue
<1>2. \A x : /\ Worth(x, c, KNIGHT .. QUEEN) =
                  320 * Count(x, c, 3) + 330 * Count(x, c, 4) + 500 * Count(x, c, 5) + 900 * Count(x, c, 6)
             /\ Worth(x, c, PieceType) =
                  2000 * Count(x, c, 1) + 100 * Count(x, c, 2) + Worth(x, c, KNIGHT .. QUEEN)
  BY WorthIs DEF KING, PAWN, KNIGHT, BISHOP, ROOK, QUEEN
<1>3. \A pt \in PieceType : Count(p, c, pt) \in Nat /\ Count(q, c, pt) \in Nat
  BY CountNat
<1>4. t \in 1 .. 6 /\ PieceType = 1 .. 6 /\ PAWN = 2
  BY DEF PieceType, KING, PAWN, QUEEN
<1>5. CASE c # d
  <2>1. \A pt \in PieceType : Count(q, c, pt) = Count(p, c, pt)
    BY <1>5
  <2>2. Worth(q, c, KNIGHT .. QUEEN) = Worth(p, c, KNIGHT .. QUEEN)
    BY <1>2, <1>4, <2>1
  <2> QED BY <1>2, <1>4, <1>5, <2>1, <2>2 DEF WorthMove
<1>6. CASE c = d
  <2> DEFINE n(x) == Count(p, c, x)
             m(x) == Count(q, c, x)
             v == Worth(p, c, KNIGHT .. QUEEN)
             w == Worth(q, c, KNIGHT .. QUEEN)
  <2>1. \A pt \in 1 .. 6 : n(pt) \in Nat /\ m(pt) = IF pt = t THEN n(pt) + step ELSE n(pt)
    BY <1>3, <1>4, <1>6
  <2>2. /\ v = 320 * n(3) + 330 * n(4) + 500 * n(5) + 900 * n(6)
        /\ w = 320 * m(3) + 330 * m(4) + 500 * m(5) + 900 * m(6)
    BY <1>2
  <2>3. /\ Worth(p, c, PieceType) = 2000 * n(1) + 100 * n(2) + v
        /\ Worth(q, c, PieceType) = 2000 * m(1) + 100 * m(2) + w
    BY <1>2
  <2> HIDE DEF n, m, v, w
  <2>4. n(1) \in Nat /\ n(2) \in Nat /\ n(3) \in Nat /\ n(4) \in Nat /\ n(5) \in Nat /\ n(6) \in Nat
    BY <2>1
  <2>5. /\ m(1) = (IF t = 1 THEN n(1) + step ELSE n(1)) /\ m(2) = (IF t = 2 THEN n(2) + step ELSE n(2))
        /\ m(3) = (IF t = 3 THEN n(3) + step ELSE n(3)) /\ m(4) = (IF t = 4 THEN n(4) + step ELSE n(4))
        /\ m(5) = (IF t = 5 THEN n(5) + step ELSE n(5)) /\ m(6) = (IF t = 6 THEN n(6) + step ELSE n(6))
    BY <1>4, <2>1
  <2>6. v \in Int
    BY <2>2, <2>4
  <2>7. w = IF t > 2 THEN v + step * pieceTypeValue[t] ELSE v
    <3>1. CASE t = 1 \/ t = 2
      BY <1>1, <2>2, <2>4, <2>5, <3>1
    <3>2. CASE t = 3
      BY <1>1, <2>2, <2>4, <2>5, <3>2
    <3>3. CASE t = 4
      BY <1>1, <2>2, <2>4, <2>5, <3>3
    <3>4. CASE t = 5
      BY <1>1, <2>2, <2>4, <2>5, <3>4
    <3>5. CASE t = 6
      BY <1>1, <2>2, <2>4, <2>5, <3>5
    <3> QED BY <1>4, <3>1, <3>2, <3>3, <3>4, <3>5
  <2>8. Worth(q, c, PieceType) = Worth(p, c, PieceType) + step * pieceTypeValue[t]
    <3>1. CASE t = 1
      BY <1>1, <2>3, <2>4, <2>5, <2>6, <2>7, <3>1
    <3>2. CASE t = 2
      BY <1>1, <2>3, <2>4, <2>5, <2>6, <2>7, <3>2
    <3>3. CASE t > 2
      <4>1. step * pieceTypeValue[t] \in Int
        BY <1>1, <1>4
      <4> QED BY <2>3, <2>4, <2>5, <2>6, <2>7, <3>3, <4>1
    <3> QED BY <1>4, <3>1, <3>2, <3>3
  <2> QED BY <1>4, <1>6, <2>7, <2>8 DEF v, w, WorthMove
<1> QED BY <1>5, <1>6

-----------------------------------------------------------------------------
PhaseIn(p) == p.gamePhase = PhaseOf(p)

\* A board has a game phase.
LEMMA PhaseNat == ASSUME NEW p PROVE PhaseOf(p) \in Nat
<1>1. \A pt : Both(p, pt) \in Nat
  BY CountNat
<1> QED BY <1>1, PhaseIs

\* A piece more or less changes the game phase by its value.
LEMMA PhaseStep ==
  ASSUME NEW p, NEW q, NEW t \in PieceType, NEW step \in {1, -1},
         \A pt \in PieceType : Both(q, pt) = IF pt = t THEN Both(p, pt) + step ELSE Both(p, pt)
  PROVE  PhaseOf(q) = PhaseOf(p) + step * phaseValue[t] /\ phaseValue[t] \in 0 .. 4
<1>1. /\ phaseValue[1] = 0 /\ phaseValue[2] = 0 /\ phaseValue[3] = 1
      /\ phaseValue[4] = 1 /\ phaseValue[5] = 2 /\ phaseValue[6] = 4
  BY DEF phaseValue
<1>2. \A x : PhaseOf(x) = Both(x, 3) + Both(x, 4) + 2 * Both(x, 5) + 4 * Both(x, 6)
  BY PhaseIs DEF KNIGHT, BISHOP, ROOK, QUEEN
<1>3. t \in 1 .. 6 /\ PieceType = 1 .. 6
  BY DEF PieceType, KING, PAWN, QUEEN
<1>4. \A pt : Both(p, pt) \in Nat
  BY CountNat
<1> DEFINE n(x) == Both(p, x)
           m(x) == Both(q, x)
<1>5. \A pt \in 1 .. 6 : n(pt) \in Nat /\ m(pt) = IF pt = t THEN n(pt) + step ELSE n(pt)
  BY <1>3, <1>4
<1>6. PhaseOf(p) = n(3) + n(4) + 2 * n(5) + 4 * n(6) /\ PhaseOf(q) = m(3) + m(4) + 2 * m(5) + 4 * m(6)
  BY <1>2
<1> HIDE DEF n, m
<1>7. n(3) \in Nat /\ n(4) \in Nat /\ n(5) \in Nat /\ n(6) \in Nat
  BY <1>5
<1>8. /\ m(3) = (IF t = 3 THEN n(3) + step ELSE n(3)) /\ m(4) = (IF t = 4 THEN n(4) + step ELSE n(4))
      /\ m(5) = (IF t = 5 THEN n(5) + step ELSE n(5)) /\ m(6) = (IF t = 6 THEN n(6) + step ELSE n(6))
  BY <1>3, <1>5
<1>9. CASE t = 1 \/ t = 2
  BY <1>1, <1>6, <1>7, <1>8, <1>9
<1>10. CASE t = 3
  BY <1>1, <1>6, <1>7, <1>8, <1>10
<1>11. CASE t = 4
  BY <1>1, <1>6, <1>7, <1>8, <1>11
<1>12. CASE t = 5
  BY <1>1, <1>6, <1>7, <1>8, <1>12
<1>13. CASE t = 6
  BY <1>1, <1>6, <1>7, <1>8, <1>13
<1> QED BY <1>3, <1>9, <1>10, <1>11, <1>12, <1>13

(* putPiece on an empty square. *)
KeysFollow(p, q) == \A others : NoPieces(others) /\ KeyIs(p, others) => KeyIs(q, others)
Filled(p, q, d, t, sq) ==
    /\ IsPosition(q) /\ BoardOK(q) /\ SameRest(p, q) /\ KeysFollow(p, q)
    /\ q.board = [p.board EXCEPT ![sq] = makePiece(d, t)]
    /\ q.kingSquare = [p.kingSquare EXCEPT ![d] = IF t = KING THEN sq ELSE @]
    /\ PhaseOf(q) = PhaseOf(p) + phaseValue[t]
    /\ PhaseIn(p) /\ PhaseOf(q) <= GAME_PHASE_MAX => PhaseIn(q)
Emptied(p, q, d, t, sq) ==
    /\ IsPosition(q) /\ BoardOK(q) /\ SameRest(p, q) /\ KeysFollow(p, q)
    /\ q.board = [p.board EXCEPT ![sq] = PIECE_NONE]
    /\ q.kingSquare = p.kingSquare
    /\ PhaseOf(q) = PhaseOf(p) - phaseValue[t]
    /\ PhaseIn(p) => PhaseIn(q)

\* putPiece on an empty square keeps all that is kept with the board.
LEMMA PutBoard ==
  ASSUME NEW p, IsPosition(p), BoardOK(p), NEW d \in Color, NEW t \in PieceType, NEW sq \in Square,
         p.board[sq] = PIECE_NONE
  PROVE  Filled(p, putPiece(p, makePiece(d, t), sq), d, t, sq)
<1> DEFINE pc == makePiece(d, t)
<1>1. colorOf(pc) = d /\ typeOf(pc) = t
  BY PieceFacts
<1>2. PICK q : q = putPiece(p, makePiece(d, t), sq)
  OBVIOUS
<1>3. IsPut(p, q, pc, d, t, sq)
  BY <1>1, <1>2, PutFields
<1>4. p.board \in [Square -> Piece \cup {PIECE_NONE}]
  BY DEF BoardOK
<1>5. Gains(p, q, d, t, sq)
  BY <1>3, <1>4, PutPlaces DEF IsPut
<1>6. q.piecesBb = [c \in Color |-> [pt \in PieceType |-> Placed(q, c, pt)]]
  <2>1. p.piecesBb = [c \in Color |-> [pt \in PieceType |-> Placed(p, c, pt)]]
    BY DEF BoardOK
  <2>2. q.piecesBb = [p.piecesBb EXCEPT ![d][t] = @ \cup {sq}]
    BY <1>3 DEF IsPut
  <2>3. \A c \in Color, pt \in PieceType :
          Placed(q, c, pt) = IF c = d /\ pt = t THEN Placed(p, c, pt) \cup {sq} ELSE Placed(p, c, pt)
    BY <1>5 DEF Gains
  <2> DEFINE f(c) == [pt \in PieceType |-> Placed(p, c, pt)]
             g(c) == [pt \in PieceType |-> Placed(q, c, pt)]
  <2>4. [f(d) EXCEPT ![t] = @ \cup {sq}] = g(d)
    BY <2>3
  <2>5. \A c \in Color : c # d => f(c) = g(c)
    BY <2>3
  <2>6. p.piecesBb = [c \in Color |-> f(c)]
    BY <2>1
  <2> HIDE DEF f, g
  <2>7. q.piecesBb = [p.piecesBb EXCEPT ![d] = g(d)]
    BY <2>2, <2>4, <2>6
  <2>8. q.piecesBb = [c \in Color |-> g(c)]
    BY <2>5, <2>6, <2>7
  <2> QED BY <2>8 DEF g
<1>7. q.occupiedBb = [c \in Color |-> Own(q, c)]
  <2>1. p.occupiedBb = [c \in Color |-> Own(p, c)]
    BY DEF BoardOK
  <2>2. q.occupiedBb = [p.occupiedBb EXCEPT ![d] = @ \cup {sq}]
    BY <1>3 DEF IsPut
  <2>3. \A c \in Color : Own(q, c) = IF c = d THEN Own(p, c) \cup {sq} ELSE Own(p, c)
    BY <1>5 DEF Gains
  <2> QED BY <2>1, <2>2, <2>3
<1>8. ASSUME NEW types \in SUBSET PieceType, NEW others, t \in types, NoPieces(others)
      PROVE  Xor(PieceFeatures(p, types) \cup others, pieceFeature(pc, sq)) = PieceFeatures(q, types) \cup others
  <2> DEFINE x == <<"piece", pc, sq>>
  <2>1. x[1] = "piece"
    OBVIOUS
  <2>2. x \notin others
    BY <1>8, <2>1 DEF NoPieces
  <2>3. x \notin PieceFeatures(p, types) /\ PieceFeatures(q, types) = PieceFeatures(p, types) \cup {x}
    BY <1>5, <1>8 DEF Gains
  <2>4. pieceFeature(pc, sq) = {x}
    BY DEF pieceFeature
  <2> HIDE DEF x
  <2> QED BY <2>2, <2>3, <2>4, XorFacts
<1>9. q.pawnKey = PieceFeatures(q, {PAWN})
  <2>1. p.pawnKey = PieceFeatures(p, {PAWN})
    BY DEF BoardOK
  <2>2. q.pawnKey = IF t = PAWN THEN Xor(p.pawnKey, pieceFeature(pc, sq)) ELSE p.pawnKey
    BY <1>3 DEF IsPut
  <2>3. t = PAWN => q.pawnKey = PieceFeatures(q, {PAWN})
    <3>1. NoPieces({})
      BY DEF NoPieces
    <3>2. t = PAWN => Xor(PieceFeatures(p, {PAWN}) \cup {}, pieceFeature(pc, sq)) = PieceFeatures(q, {PAWN}) \cup {}
      BY <1>8, <3>1, TypeSets
    <3> QED BY <2>1, <2>2, <3>2
  <2>4. t # PAWN => PieceFeatures(q, {PAWN}) = PieceFeatures(p, {PAWN})
    BY <1>5, TypeSets DEF Gains
  <2> QED BY <2>1, <2>2, <2>3, <2>4
<1>10. pieceTypeValue[t] \in Int
  BY DEF pieceTypeValue, PieceType, KING, QUEEN
<1>11. WorthMoves(p, q, d, t, 1)
  <2>1. \A c \in Color, pt \in PieceType :
          Count(q, c, pt) = IF c = d /\ pt = t THEN Count(p, c, pt) + (1) ELSE Count(p, c, pt)
    BY <1>5, CountNat DEF Gains
  <2>2. 1 \in {1, -1}
    OBVIOUS
  <2> QED BY <2>1, <2>2, WorthStep
<1>12. \A c \in Color :
         /\ Worth(q, c, PieceType) =
              IF c = d THEN Worth(p, c, PieceType) + pieceTypeValue[t] ELSE Worth(p, c, PieceType)
         /\ Worth(q, c, KNIGHT .. QUEEN) =
              IF c = d /\ t > PAWN THEN Worth(p, c, KNIGHT .. QUEEN) + pieceTypeValue[t]
              ELSE Worth(p, c, KNIGHT .. QUEEN)
  <2>1. \A n \in Nat : n + (1) * pieceTypeValue[t] = n + pieceTypeValue[t]
    BY <1>10
  <2>2. \A c \in Color : Worth(p, c, PieceType) \in Nat /\ Worth(p, c, KNIGHT .. QUEEN) \in Nat
    BY WorthIs
  <2> QED BY <1>11, <2>1, <2>2 DEF WorthMoves, WorthMove
<1>13. q.material = [c \in Color |-> Worth(q, c, PieceType)]
  <2>1. p.material = [c \in Color |-> Worth(p, c, PieceType)]
    BY DEF BoardOK
  <2>2. q.material = [p.material EXCEPT ![d] = @ + pieceTypeValue[t]]
    BY <1>3 DEF IsPut
  <2> QED BY <1>12, <2>1, <2>2
<1>14. q.materialNonPawn = [c \in Color |-> Worth(q, c, KNIGHT .. QUEEN)]
  <2>1. p.materialNonPawn = [c \in Color |-> Worth(p, c, KNIGHT .. QUEEN)]
    BY DEF BoardOK
  <2>2. q.materialNonPawn =
          [p.materialNonPawn EXCEPT ![d] = IF t > PAWN THEN @ + pieceTypeValue[t] ELSE @]
    BY <1>3 DEF IsPut
  <2> QED BY <1>12, <2>1, <2>2
<1>15. q.board \in [Square -> Piece \cup {PIECE_NONE}]
  BY <1>5 DEF Gains
<1>16. BoardOK(q)
  BY <1>6, <1>7, <1>9, <1>13, <1>14, <1>15 DEF BoardOK
<1>17. KeysFollow(p, q)
  <2>1. q.zobristKey = Xor(p.zobristKey, pieceFeature(pc, sq))
    BY <1>3 DEF IsPut
  <2> QED BY <1>8, <2>1, TypeSets DEF KeysFollow, KeyIs
<1>18. PhaseOf(q) = PhaseOf(p) + phaseValue[t] /\ phaseValue[t] \in 0 .. 4
  <2>1. \A pt \in PieceType : Both(q, pt) = IF pt = t THEN Both(p, pt) + (1) ELSE Both(p, pt)
    BY <1>5, CountNat DEF Gains
  <2>2. 1 \in {1, -1}
    OBVIOUS
  <2>3. phaseValue[t] \in 0 .. 4 /\ PhaseOf(q) = PhaseOf(p) + (1) * phaseValue[t]
    BY <2>1, <2>2, PhaseStep
  <2> QED BY <2>3, PhaseNat
<1>19. PhaseIn(p) /\ PhaseOf(q) <= GAME_PHASE_MAX => PhaseIn(q)
  BY <1>3, <1>18, PhaseNat DEF PhaseIn, GAME_PHASE_MAX, IsPut
<1> QED BY <1>2, <1>3, <1>16, <1>17, <1>18, <1>19 DEF Filled, IsPut

\* removePiece from a piece's square keeps all that is kept with the board.
LEMMA RemoveBoard ==
  ASSUME NEW p, IsPosition(p), BoardOK(p), NEW d \in Color, NEW t \in PieceType, NEW sq \in Square,
         p.board[sq] = makePiece(d, t)
  PROVE  Emptied(p, removePiece(p, sq), d, t, sq)
<1> DEFINE pc == makePiece(d, t)
<1>1. colorOf(pc) = d /\ typeOf(pc) = t
  BY PieceFacts
<1>2. PICK q : q = removePiece(p, sq)
  OBVIOUS
<1>3. IsRemoved(p, q, pc, d, t, sq)
  BY <1>1, <1>2, RemoveFields
<1>4. p.board \in [Square -> Piece \cup {PIECE_NONE}]
  BY DEF BoardOK
<1>5. Loses(p, q, d, t, sq)
  BY <1>3, <1>4, RemovePlaces DEF IsRemoved
<1>6. q.piecesBb = [c \in Color |-> [pt \in PieceType |-> Placed(q, c, pt)]]
  <2>1. p.piecesBb = [c \in Color |-> [pt \in PieceType |-> Placed(p, c, pt)]]
    BY DEF BoardOK
  <2>2. q.piecesBb = [p.piecesBb EXCEPT ![d][t] = @ \ {sq}]
    <3>1. p.piecesBb[d][t] = Placed(p, d, t) /\ sq \in Placed(p, d, t)
      BY <1>5, <2>1 DEF Loses
    <3>2. Xor(p.piecesBb[d][t], {sq}) = p.piecesBb[d][t] \ {sq}
      BY <3>1, XorFacts
    <3> QED BY <1>3, <3>2 DEF IsRemoved
  <2>3. \A c \in Color, pt \in PieceType :
          Placed(q, c, pt) = IF c = d /\ pt = t THEN Placed(p, c, pt) \ {sq} ELSE Placed(p, c, pt)
    BY <1>5 DEF Loses
  <2> DEFINE f(c) == [pt \in PieceType |-> Placed(p, c, pt)]
             g(c) == [pt \in PieceType |-> Placed(q, c, pt)]
  <2>4. [f(d) EXCEPT ![t] = @ \ {sq}] = g(d)
    BY <2>3
  <2>5. \A c \in Color : c # d => f(c) = g(c)
    BY <2>3
  <2>6. p.piecesBb = [c \in Color |-> f(c)]
    BY <2>1
  <2> HIDE DEF f, g
  <2>7. q.piecesBb = [p.piecesBb EXCEPT ![d] = g(d)]
    BY <2>2, <2>4, <2>6
  <2>8. q.piecesBb = [c \in Color |-> g(c)]
    BY <2>5, <2>6, <2>7
  <2> QED BY <2>8 DEF g
<1>7. q.occupiedBb = [c \in Color |-> Own(q, c)]
  <2>1. p.occupiedBb = [c \in Color |-> Own(p, c)]
    BY DEF BoardOK
  <2>2. q.occupiedBb = [p.occupiedBb EXCEPT ![d] = @ \ {sq}]
    <3>1. p.occupiedBb[d] = Own(p, d) /\ sq \in Own(p, d)
      BY <1>5, <2>1 DEF Loses
    <3>2. Xor(p.occupiedBb[d], {sq}) = p.occupiedBb[d] \ {sq}
      BY <3>1, XorFacts
    <3> QED BY <1>3, <3>2 DEF IsRemoved
  <2>3. \A c \in Color : Own(q, c) = IF c = d THEN Own(p, c) \ {sq} ELSE Own(p, c)
    BY <1>5 DEF Loses
  <2> QED BY <2>1, <2>2, <2>3
<1>8. ASSUME NEW types \in SUBSET PieceType, NEW others, t \in types, NoPieces(others)
      PROVE  Xor(PieceFeatures(p, types) \cup others, pieceFeature(pc, sq)) = PieceFeatures(q, types) \cup others
  <2> DEFINE x == <<"piece", pc, sq>>
  <2>1. x[1] = "piece"
    OBVIOUS
  <2>2. x \notin others
    BY <1>8, <2>1 DEF NoPieces
  <2>3. x \in PieceFeatures(p, types) /\ PieceFeatures(q, types) = PieceFeatures(p, types) \ {x}
    BY <1>5, <1>8 DEF Loses
  <2>4. pieceFeature(pc, sq) = {x}
    BY DEF pieceFeature
  <2> HIDE DEF x
  <2> QED BY <2>2, <2>3, <2>4, XorFacts
<1>9. q.pawnKey = PieceFeatures(q, {PAWN})
  <2>1. p.pawnKey = PieceFeatures(p, {PAWN})
    BY DEF BoardOK
  <2>2. q.pawnKey = IF t = PAWN THEN Xor(p.pawnKey, pieceFeature(pc, sq)) ELSE p.pawnKey
    BY <1>3 DEF IsRemoved
  <2>3. t = PAWN => q.pawnKey = PieceFeatures(q, {PAWN})
    <3>1. NoPieces({})
      BY DEF NoPieces
    <3>2. t = PAWN => Xor(PieceFeatures(p, {PAWN}) \cup {}, pieceFeature(pc, sq)) = PieceFeatures(q, {PAWN}) \cup {}
      BY <1>8, <3>1, TypeSets
    <3> QED BY <2>1, <2>2, <3>2
  <2>4. t # PAWN => PieceFeatures(q, {PAWN}) = PieceFeatures(p, {PAWN})
    BY <1>5, TypeSets DEF Loses
  <2> QED BY <2>1, <2>2, <2>3, <2>4
<1>10. pieceTypeValue[t] \in Int
  BY DEF pieceTypeValue, PieceType, KING, QUEEN
<1>11. WorthMoves(p, q, d, t, -1)
  <2>1. \A c \in Color, pt \in PieceType :
          Count(q, c, pt) = IF c = d /\ pt = t THEN Count(p, c, pt) + (-1) ELSE Count(p, c, pt)
    BY <1>5, CountNat DEF Loses
  <2>2. -1 \in {1, -1}
    OBVIOUS
  <2> QED BY <2>1, <2>2, WorthStep
<1>12. \A c \in Color :
         /\ Worth(q, c, PieceType) =
              IF c = d THEN Worth(p, c, PieceType) - pieceTypeValue[t] ELSE Worth(p, c, PieceType)
         /\ Worth(q, c, KNIGHT .. QUEEN) =
              IF c = d /\ t > PAWN THEN Worth(p, c, KNIGHT .. QUEEN) - pieceTypeValue[t]
              ELSE Worth(p, c, KNIGHT .. QUEEN)
  <2>1. \A n \in Nat : n + (-1) * pieceTypeValue[t] = n - pieceTypeValue[t]
    BY <1>10
  <2>2. \A c \in Color : Worth(p, c, PieceType) \in Nat /\ Worth(p, c, KNIGHT .. QUEEN) \in Nat
    BY WorthIs
  <2> QED BY <1>11, <2>1, <2>2 DEF WorthMoves, WorthMove
<1>13. q.material = [c \in Color |-> Worth(q, c, PieceType)]
  <2>1. p.material = [c \in Color |-> Worth(p, c, PieceType)]
    BY DEF BoardOK
  <2>2. q.material = [p.material EXCEPT ![d] = @ - pieceTypeValue[t]]
    BY <1>3 DEF IsRemoved
  <2> QED BY <1>12, <2>1, <2>2
<1>14. q.materialNonPawn = [c \in Color |-> Worth(q, c, KNIGHT .. QUEEN)]
  <2>1. p.materialNonPawn = [c \in Color |-> Worth(p, c, KNIGHT .. QUEEN)]
    BY DEF BoardOK
  <2>2. q.materialNonPawn =
          [p.materialNonPawn EXCEPT ![d] = IF t > PAWN THEN @ - pieceTypeValue[t] ELSE @]
    BY <1>3 DEF IsRemoved
  <2> QED BY <1>12, <2>1, <2>2
<1>15. q.board \in [Square -> Piece \cup {PIECE_NONE}]
  BY <1>5 DEF Loses
<1>16. BoardOK(q)
  BY <1>6, <1>7, <1>9, <1>13, <1>14, <1>15 DEF BoardOK
<1>17. KeysFollow(p, q)
  <2>1. q.zobristKey = Xor(p.zobristKey, pieceFeature(pc, sq))
    BY <1>3 DEF IsRemoved
  <2> QED BY <1>8, <2>1, TypeSets DEF KeysFollow, KeyIs
<1>18. PhaseOf(q) = PhaseOf(p) - phaseValue[t] /\ phaseValue[t] \in 0 .. 4
  <2>1. \A pt \in PieceType : Both(q, pt) = IF pt = t THEN Both(p, pt) + (-1) ELSE Both(p, pt)
    BY <1>5, CountNat DEF Loses
  <2>2. -1 \in {1, -1}
    OBVIOUS
  <2>3. phaseValue[t] \in 0 .. 4 /\ PhaseOf(q) = PhaseOf(p) + (-1) * phaseValue[t]
    BY <2>1, <2>2, PhaseStep
  <2> QED BY <2>3, PhaseNat
<1>19. PhaseIn(p) => PhaseIn(q)
  BY <1>3, <1>18, PhaseNat DEF PhaseIn, Larger, IsRemoved
<1> QED BY <1>2, <1>3, <1>16, <1>17, <1>18, <1>19 DEF Emptied, IsRemoved

-----------------------------------------------------------------------------
(* The fields that putPiece and removePiece leave alone. *)
Rest(q, player, rights, square, clock, number, history, flag) ==
    /\ q.nextPlayer = player
    /\ q.castlingRights = rights
    /\ q.enPassantSquare = square
    /\ q.halfMoveClock = clock
    /\ q.moveNumber = number
    /\ q.historyState = history
    /\ q.hasCheckFlag = flag
Entry(p, move, fromPiece, capturedPiece) ==
    [zobristKey |-> p.zobristKey, pawnKey |-> p.pawnKey, move |-> move,
     fromPiece |-> fromPiece, capturedPiece |-> capturedPiece,
     castlingRights |-> p.castlingRights, enPassantSquare |-> p.enPassantSquare,
     halfMoveClock |-> p.halfMoveClock, hasCheckFlag |-> p.hasCheckFlag]
SetClock(p, n) == [p EXCEPT !.halfMoveClock = n]
MarkEnPassant(p, sq) ==
    [p EXCEPT !.enPassantSquare = sq, !.zobristKey = Xor(@, enPassantFeature(sq))]

\* What the loss of castling rights writes into each field.
LEMMA DropFields ==
  ASSUME NEW p, IsPosition(p), NEW rights
  PROVE  LET q == DropRights(p, rights)
         IN /\ IsPosition(q)
            /\ SameBoard(p, q)
            /\ Rest(q, p.nextPlayer, p.castlingRights \ rights, p.enPassantSquare, p.halfMoveClock, p.moveNumber, p.historyState, p.hasCheckFlag)
            /\ q.zobristKey = Xor(Xor(p.zobristKey, castlingFeature(p.castlingRights)), castlingFeature(p.castlingRights \ rights))
<1> DEFINE q == DropRights(p, rights)
<1>1. DOMAIN p = Fields
  BY DEF IsPosition
<1>2. IsPosition(q)
  <2>1. DOMAIN q = Fields
    BY <1>1 DEF DropRights
  <2>2. PICK r, v : q = [r EXCEPT !.zobristKey = v]
    BY Zenon DEF DropRights
  <2>3. q = [x \in DOMAIN q |-> q[x]]
    BY <2>2
  <2> QED BY <2>1, <2>3 DEF IsPosition
<1>3. SameBoard(p, q)
  <2>1. q.board = p.board /\ q.kingSquare = p.kingSquare
    BY <1>1 DEF Fields, DropRights
  <2>2. q.piecesBb = p.piecesBb /\ q.occupiedBb = p.occupiedBb
    BY <1>1 DEF Fields, DropRights
  <2>3. q.pawnKey = p.pawnKey /\ q.material = p.material
    BY <1>1 DEF Fields, DropRights
  <2>4. q.materialNonPawn = p.materialNonPawn /\ q.gamePhase = p.gamePhase
    BY <1>1 DEF Fields, DropRights
  <2> QED BY <2>1, <2>2, <2>3, <2>4 DEF SameBoard
<1>4. Rest(q, p.nextPlayer, p.castlingRights \ rights, p.enPassantSquare, p.halfMoveClock, p.moveNumber, p.historyState, p.hasCheckFlag)
  <2>1. q.nextPlayer = p.nextPlayer
    BY <1>1 DEF Fields, DropRights
  <2>2. q.castlingRights = p.castlingRights \ rights
    BY <1>1 DEF Fields, DropRights
  <2>3. q.enPassantSquare = p.enPassantSquare
    BY <1>1 DEF Fields, DropRights
  <2>4. q.halfMoveClock = p.halfMoveClock
    BY <1>1 DEF Fields, DropRights
  <2>5. q.moveNumber = p.moveNumber
    BY <1>1 DEF Fields, DropRights
  <2>6. q.historyState = p.historyState
    BY <1>1 DEF Fields, DropRights
  <2>7. q.hasCheckFlag = p.hasCheckFlag
    BY <1>1 DEF Fields, DropRights
  <2> QED BY <2>1, <2>2, <2>3, <2>4, <2>5, <2>6, <2>7 DEF Rest
<1>5. q.zobristKey = Xor(Xor(p.zobristKey, castlingFeature(p.castlingRights)), castlingFeature(p.castlingRights \ rights))
  BY <1>1 DEF Fields, DropRights
<1> HIDE DEF q
<1> QED BY <1>2, <1>3, <1>4, <1>5 DEF q

\* What the mark of a double step writes into each field.
LEMMA MarkFields ==
  ASSUME NEW p, IsPosition(p), NEW sq
  PROVE  LET q == MarkEnPassant(p, sq)
         IN /\ IsPosition(q)
            /\ SameBoard(p, q)
            /\ Rest(q, p.nextPlayer, p.castlingRights, sq, p.halfMoveClock, p.moveNumber, p.historyState, p.hasCheckFlag)
            /\ q.zobristKey = Xor(p.zobristKey, enPassantFeature(sq))
<1> DEFINE q == MarkEnPassant(p, sq)
<1>1. DOMAIN p = Fields
  BY DEF IsPosition
<1>2. IsPosition(q)
  <2>1. DOMAIN q = Fields
    BY <1>1 DEF MarkEnPassant
  <2>2. PICK r, v : q = [r EXCEPT !.zobristKey = v]
    BY Zenon DEF MarkEnPassant
  <2>3. q = [x \in DOMAIN q |-> q[x]]
    BY <2>2
  <2> QED BY <2>1, <2>3 DEF IsPosition
<1>3. SameBoard(p, q)
  <2>1. q.board = p.board /\ q.kingSquare = p.kingSquare
    BY <1>1 DEF Fields, MarkEnPassant
  <2>2. q.piecesBb = p.piecesBb /\ q.occupiedBb = p.occupiedBb
    BY <1>1 DEF Fields, MarkEnPassant
  <2>3. q.pawnKey = p.pawnKey /\ q.material = p.material
    BY <1>1 DEF Fields, MarkEnPassant
  <2>4. q.materialNonPawn = p.materialNonPawn /\ q.gamePhase = p.gamePhase
    BY <1>1 DEF Fields, MarkEnPassant
  <2> QED BY <2>1, <2>2, <2>3, <2>4 DEF SameBoard
<1>4. Rest(q, p.nextPlayer, p.castlingRights, sq, p.halfMoveClock, p.moveNumber, p.historyState, p.hasCheckFlag)
  <2>1. q.nextPlayer = p.nextPlayer
    BY <1>1 DEF Fields, MarkEnPassant
  <2>2. q.castlingRights = p.castlingRights
    BY <1>1 DEF Fields, MarkEnPassant
  <2>3. q.enPassantSquare = sq
    BY <1>1 DEF Fields, MarkEnPassant
  <2>4. q.halfMoveClock = p.halfMoveClock
    BY <1>1 DEF Fields, MarkEnPassant
  <2>5. q.moveNumber = p.moveNumber
    BY <1>1 DEF Fields, MarkEnPassant
  <2>6. q.historyState = p.historyState
    BY <1>1 DEF Fields, MarkEnPassant
  <2>7. q.hasCheckFlag = p.hasCheckFlag
    BY <1>1 DEF Fields, MarkEnPassant
  <2> QED BY <2>1, <2>2, <2>3, <2>4, <2>5, <2>6, <2>7 DEF Rest
<1>5. q.zobristKey = Xor(p.zobristKey, enPassantFeature(sq))
  BY <1>1 DEF Fields, MarkEnPassant
<1> HIDE DEF q
<1> QED BY <1>2, <1>3, <1>4, <1>5 DEF q

\* What a new half move clock writes into each field.
LEMMA ClockFields ==
  ASSUME NEW p, IsPosition(p), NEW n
  PROVE  LET q == SetClock(p, n)
         IN /\ IsPosition(q)
            /\ SameBoard(p, q)
            /\ Rest(q, p.nextPlayer, p.castlingRights, p.enPassantSquare, n, p.moveNumber, p.historyState, p.hasCheckFlag)
            /\ q.zobristKey = p.zobristKey
<1> DEFINE q == SetClock(p, n)
<1>1. DOMAIN p = Fields
  BY DEF IsPosition
<1>2. IsPosition(q)
  <2>1. DOMAIN q = Fields
    BY <1>1 DEF SetClock
  <2>2. PICK r, v : q = [r EXCEPT !.halfMoveClock = v]
    BY Zenon DEF SetClock
  <2>3. q = [x \in DOMAIN q |-> q[x]]
    BY <2>2
  <2> QED BY <2>1, <2>3 DEF IsPosition
<1>3. SameBoard(p, q)
  <2>1. q.board = p.board /\ q.kingSquare = p.kingSquare
    BY <1>1 DEF Fields, SetClock
  <2>2. q.piecesBb = p.piecesBb /\ q.occupiedBb = p.occupiedBb
    BY <1>1 DEF Fields, SetClock
  <2>3. q.pawnKey = p.pawnKey /\ q.material = p.material
    BY <1>1 DEF Fields, SetClock
  <2>4. q.materialNonPawn = p.materialNonPawn /\ q.gamePhase = p.gamePhase
    BY <1>1 DEF Fields, SetClock
  <2> QED BY <2>1, <2>2, <2>3, <2>4 DEF SameBoard
<1>4. Rest(q, p.nextPlayer, p.castlingRights, p.enPassantSquare, n, p.moveNumber, p.historyState, p.hasCheckFlag)
  <2>1. q.nextPlayer = p.nextPlayer
    BY <1>1 DEF Fields, SetClock
  <2>2. q.castlingRights = p.castlingRights
    BY <1>1 DEF Fields, SetClock
  <2>3. q.enPassantSquare = p.enPassantSquare
    BY <1>1 DEF Fields, SetClock
  <2>4. q.halfMoveClock = n
    BY <1>1 DEF Fields, SetClock
  <2>5. q.moveNumber = p.moveNumber
    BY <1>1 DEF Fields, SetClock
  <2>6. q.historyState = p.historyState
    BY <1>1 DEF Fields, SetClock
  <2>7. q.hasCheckFlag = p.hasCheckFlag
    BY <1>1 DEF Fields, SetClock
  <2> QED BY <2>1, <2>2, <2>3, <2>4, <2>5, <2>6, <2>7 DEF Rest
<1>5. q.zobristKey = p.zobristKey
  BY <1>1 DEF Fields, SetClock
<1> HIDE DEF q
<1> QED BY <1>2, <1>3, <1>4, <1>5 DEF q

\* What the end of a move writes into each field.
LEMMA SwitchFields ==
  ASSUME NEW p, IsPosition(p)
  PROVE  LET q == SwitchPlayer(p)
         IN /\ IsPosition(q)
            /\ SameBoard(p, q)
            /\ Rest(q, Other(p.nextPlayer), p.castlingRights, p.enPassantSquare, p.halfMoveClock, p.moveNumber + p.nextPlayer, p.historyState, FLAG_TBD)
            /\ q.zobristKey = Xor(p.zobristKey, nextPlayerFeature)
<1> DEFINE q == SwitchPlayer(p)
<1>1. DOMAIN p = Fields
  BY DEF IsPosition
<1>2. IsPosition(q)
  <2>1. DOMAIN q = Fields
    BY <1>1 DEF SwitchPlayer
  <2>2. PICK r, v : q = [r EXCEPT !.zobristKey = v]
    BY Zenon DEF SwitchPlayer
  <2>3. q = [x \in DOMAIN q |-> q[x]]
    BY <2>2
  <2> QED BY <2>1, <2>3 DEF IsPosition
<1>3. SameBoard(p, q)
  <2>1. q.board = p.board /\ q.kingSquare = p.kingSquare
    BY <1>1 DEF Fields, SwitchPlayer
  <2>2. q.piecesBb = p.piecesBb /\ q.occupiedBb = p.occupiedBb
    BY <1>1 DEF Fields, SwitchPlayer
  <2>3. q.pawnKey = p.pawnKey /\ q.material = p.material
    BY <1>1 DEF Fields, SwitchPlayer
  <2>4. q.materialNonPawn = p.materialNonPawn /\ q.gamePhase = p.gamePhase
    BY <1>1 DEF Fields, SwitchPlayer
  <2> QED BY <2>1, <2>2, <2>3, <2>4 DEF SameBoard
<1>4. Rest(q, Other(p.nextPlayer), p.castlingRights, p.enPassantSquare, p.halfMoveClock, p.moveNumber + p.nextPlayer, p.historyState, FLAG_TBD)
  <2>1. q.nextPlayer = Other(p.nextPlayer)
    BY <1>1 DEF Fields, SwitchPlayer
  <2>2. q.castlingRights = p.castlingRights
    BY <1>1 DEF Fields, SwitchPlayer
  <2>3. q.enPassantSquare = p.enPassantSquare
    BY <1>1 DEF Fields, SwitchPlayer
  <2>4. q.halfMoveClock = p.halfMoveClock
    BY <1>1 DEF Fields, SwitchPlayer
  <2>5. q.moveNumber = p.moveNumber + p.nextPlayer
    BY <1>1 DEF Fields, SwitchPlayer
  <2>6. q.historyState = p.historyState
    BY <1>1 DEF Fields, SwitchPlayer
  <2>7. q.hasCheckFlag = FLAG_TBD
    BY <1>1 DEF Fields, SwitchPlayer
  <2> QED BY <2>1, <2>2, <2>3, <2>4, <2>5, <2>6, <2>7 DEF Rest
<1>5. q.zobristKey = Xor(p.zobristKey, nextPlayerFeature)
  BY <1>1 DEF Fields, SwitchPlayer
<1> HIDE DEF q
<1> QED BY <1>2, <1>3, <1>4, <1>5 DEF q

\* What an entry in the history writes into each field.
LEMMA SaveFields ==
  ASSUME NEW p, IsPosition(p), NEW move, NEW fromPiece, NEW capturedPiece
  PROVE  LET q == SaveState(p, move, fromPiece, capturedPiece)
         IN /\ IsPosition(q)
            /\ SameBoard(p, q)
            /\ Rest(q, p.nextPlayer, p.castlingRights, p.enPassantSquare, p.halfMoveClock, p.moveNumber, Append(p.historyState, Entry(p, move, fromPiece, capturedPiece)), p.hasCheckFlag)
            /\ q.zobristKey = p.zobristKey
<1> DEFINE q == SaveState(p, move, fromPiece, capturedPiece)
<1>1. DOMAIN p = Fields
  BY DEF IsPosition
<1>2. IsPosition(q)
  <2>1. DOMAIN q = Fields
    BY <1>1 DEF SaveState, Entry
  <2>2. PICK r, v : q = [r EXCEPT !.historyState = v]
    BY Zenon DEF SaveState, Entry
  <2>3. q = [x \in DOMAIN q |-> q[x]]
    BY <2>2
  <2> QED BY <2>1, <2>3 DEF IsPosition
<1>3. SameBoard(p, q)
  <2>1. q.board = p.board /\ q.kingSquare = p.kingSquare
    BY <1>1 DEF Fields, SaveState, Entry
  <2>2. q.piecesBb = p.piecesBb /\ q.occupiedBb = p.occupiedBb
    BY <1>1 DEF Fields, SaveState, Entry
  <2>3. q.pawnKey = p.pawnKey /\ q.material = p.material
    BY <1>1 DEF Fields, SaveState, Entry
  <2>4. q.materialNonPawn = p.materialNonPawn /\ q.gamePhase = p.gamePhase
    BY <1>1 DEF Fields, SaveState, Entry
  <2> QED BY <2>1, <2>2, <2>3, <2>4 DEF SameBoard
<1>4. Rest(q, p.nextPlayer, p.castlingRights, p.enPassantSquare, p.halfMoveClock, p.moveNumber, Append(p.historyState, Entry(p, move, fromPiece, capturedPiece)), p.hasCheckFlag)
  <2>1. q.nextPlayer = p.nextPlayer
    BY <1>1 DEF Fields, SaveState, Entry
  <2>2. q.castlingRights = p.castlingRights
    BY <1>1 DEF Fields, SaveState, Entry
  <2>3. q.enPassantSquare = p.enPassantSquare
    BY <1>1 DEF Fields, SaveState, Entry
  <2>4. q.halfMoveClock = p.halfMoveClock
    BY <1>1 DEF Fields, SaveState, Entry
  <2>5. q.moveNumber = p.moveNumber
    BY <1>1 DEF Fields, SaveState, Entry
  <2>6. q.historyState = Append(p.historyState, Entry(p, move, fromPiece, capturedPiece))
    BY <1>1 DEF Fields, SaveState, Entry
  <2>7. q.hasCheckFlag = p.hasCheckFlag
    BY <1>1 DEF Fields, SaveState, Entry
  <2> QED BY <2>1, <2>2, <2>3, <2>4, <2>5, <2>6, <2>7 DEF Rest
<1>5. q.zobristKey = p.zobristKey
  BY <1>1 DEF Fields, SaveState, Entry
<1> HIDE DEF q
<1> QED BY <1>2, <1>3, <1>4, <1>5 DEF q

\* What the start of an undo writes into each field.
LEMMA PreviousFields ==
  ASSUME NEW p, IsPosition(p)
  PROVE  LET q == PreviousPlayer(p)
         IN /\ IsPosition(q)
            /\ SameBoard(p, q)
            /\ Rest(q, Other(p.nextPlayer), p.castlingRights, p.enPassantSquare, p.halfMoveClock, p.moveNumber - Other(p.nextPlayer), p.historyState, p.hasCheckFlag)
            /\ q.zobristKey = p.zobristKey
<1> DEFINE q == PreviousPlayer(p)
<1>1. DOMAIN p = Fields
  BY DEF IsPosition
<1>2. IsPosition(q)
  <2>1. DOMAIN q = Fields
    BY <1>1 DEF PreviousPlayer
  <2>2. PICK r, v : q = [r EXCEPT !.moveNumber = v]
    BY Zenon DEF PreviousPlayer
  <2>3. q = [x \in DOMAIN q |-> q[x]]
    BY <2>2
  <2> QED BY <2>1, <2>3 DEF IsPosition
<1>3. SameBoard(p, q)
  <2>1. q.board = p.board /\ q.kingSquare = p.kingSquare
    BY <1>1 DEF Fields, PreviousPlayer
  <2>2. q.piecesBb = p.piecesBb /\ q.occupiedBb = p.occupiedBb
    BY <1>1 DEF Fields, PreviousPlayer
  <2>3. q.pawnKey = p.pawnKey /\ q.material = p.material
    BY <1>1 DEF Fields, PreviousPlayer
  <2>4. q.materialNonPawn = p.materialNonPawn /\ q.gamePhase = p.gamePhase
    BY <1>1 DEF Fields, PreviousPlayer
  <2> QED BY <2>1, <2>2, <2>3, <2>4 DEF SameBoard
<1>4. Rest(q, Other(p.nextPlayer), p.castlingRights, p.enPassantSquare, p.halfMoveClock, p.moveNumber - Other(p.nextPlayer), p.historyState, p.hasCheckFlag)
  <2>1. q.nextPlayer = Other(p.nextPlayer)
    BY <1>1 DEF Fields, PreviousPlayer
  <2>2. q.castlingRights = p.castlingRights
    BY <1>1 DEF Fields, PreviousPlayer
  <2>3. q.enPassantSquare = p.enPassantSquare
    BY <1>1 DEF Fields, PreviousPlayer
  <2>4. q.halfMoveClock = p.halfMoveClock
    BY <1>1 DEF Fields, PreviousPlayer
  <2>5. q.moveNumber = p.moveNumber - Other(p.nextPlayer)
    BY <1>1 DEF Fields, PreviousPlayer
  <2>6. q.historyState = p.historyState
    BY <1>1 DEF Fields, PreviousPlayer
  <2>7. q.hasCheckFlag = p.hasCheckFlag
    BY <1>1 DEF Fields, PreviousPlayer
  <2> QED BY <2>1, <2>2, <2>3, <2>4, <2>5, <2>6, <2>7 DEF Rest
<1>5. q.zobristKey = p.zobristKey
  BY <1>1 DEF Fields, PreviousPlayer
<1> HIDE DEF q
<1> QED BY <1>2, <1>3, <1>4, <1>5 DEF q

\* What the history gives back into each field.
LEMMA RestoreFields ==
  ASSUME NEW p, IsPosition(p), NEW saved, saved = Last(p.historyState)
  PROVE  LET q == RestoreState(p)
         IN /\ IsPosition(q)
            /\ q.board = p.board
            /\ q.kingSquare = p.kingSquare
            /\ q.piecesBb = p.piecesBb
            /\ q.occupiedBb = p.occupiedBb
            /\ q.material = p.material
            /\ q.materialNonPawn = p.materialNonPawn
            /\ q.gamePhase = p.gamePhase
            /\ q.pawnKey = saved.pawnKey
            /\ Rest(q, p.nextPlayer, saved.castlingRights, saved.enPassantSquare, saved.halfMoveClock, p.moveNumber, Front(p.historyState), saved.hasCheckFlag)
            /\ q.zobristKey = saved.zobristKey
<1> DEFINE q == RestoreState(p)
<1>1. DOMAIN p = Fields
  BY DEF IsPosition
<1>2. IsPosition(q)
  <2>1. DOMAIN q = Fields
    BY <1>1 DEF RestoreState
  <2>2. PICK r, v : q = [r EXCEPT !.hasCheckFlag = v]
    BY Zenon DEF RestoreState
  <2>3. q = [x \in DOMAIN q |-> q[x]]
    BY <2>2
  <2> QED BY <2>1, <2>3 DEF IsPosition
<1>3. /\ q.board = p.board
      /\ q.kingSquare = p.kingSquare
      /\ q.piecesBb = p.piecesBb
      /\ q.occupiedBb = p.occupiedBb
      /\ q.pawnKey = saved.pawnKey
      /\ q.material = p.material
      /\ q.materialNonPawn = p.materialNonPawn
      /\ q.gamePhase = p.gamePhase
  <2>1. q.board = p.board /\ q.kingSquare = p.kingSquare
    BY <1>1 DEF Fields, RestoreState
  <2>2. q.piecesBb = p.piecesBb /\ q.occupiedBb = p.occupiedBb
    BY <1>1 DEF Fields, RestoreState
  <2>3. q.pawnKey = saved.pawnKey /\ q.material = p.material
    BY <1>1 DEF Fields, RestoreState
  <2>4. q.materialNonPawn = p.materialNonPawn /\ q.gamePhase = p.gamePhase
    BY <1>1 DEF Fields, RestoreState
  <2> QED BY <2>1, <2>2, <2>3, <2>4
<1>4. Rest(q, p.nextPlayer, saved.castlingRights, saved.enPassantSquare, saved.halfMoveClock, p.moveNumber, Front(p.historyState), saved.hasCheckFlag)
  <2>1. q.nextPlayer = p.nextPlayer
    BY <1>1 DEF Fields, RestoreState
  <2>2. q.castlingRights = saved.castlingRights
    BY <1>1 DEF Fields, RestoreState
  <2>3. q.enPassantSquare = saved.enPassantSquare
    BY <1>1 DEF Fields, RestoreState
  <2>4. q.halfMoveClock = saved.halfMoveClock
    BY <1>1 DEF Fields, RestoreState
  <2>5. q.moveNumber = p.moveNumber
    BY <1>1 DEF Fields, RestoreState
  <2>6. q.historyState = Front(p.historyState)
    BY <1>1 DEF Fields, RestoreState
  <2>7. q.hasCheckFlag = saved.hasCheckFlag
    BY <1>1 DEF Fields, RestoreState
  <2> QED BY <2>1, <2>2, <2>3, <2>4, <2>5, <2>6, <2>7 DEF Rest
<1>5. q.zobristKey = saved.zobristKey
  BY <1>1 DEF Fields, RestoreState
<1> HIDE DEF q
<1> QED BY <1>2, <1>3, <1>4, <1>5 DEF q

\* What clearEnPassant writes into each field.
LEMMA ClearFields ==
  ASSUME NEW p, IsPosition(p)
  PROVE  LET q == clearEnPassant(p)
         IN /\ IsPosition(q)
            /\ SameBoard(p, q)
            /\ Rest(q, p.nextPlayer, p.castlingRights, SQ_NONE, p.halfMoveClock, p.moveNumber, p.historyState, p.hasCheckFlag)
            /\ q.zobristKey = IF p.enPassantSquare = SQ_NONE THEN p.zobristKey
                              ELSE Xor(p.zobristKey, enPassantFeature(p.enPassantSquare))
<1>1. CASE p.enPassantSquare = SQ_NONE
  <2>1. clearEnPassant(p) = p
    BY <1>1 DEF clearEnPassant
  <2> QED BY <1>1, <2>1 DEF SameBoard, Rest
<1>2. CASE p.enPassantSquare # SQ_NONE
  <2> DEFINE q == [p EXCEPT !.zobristKey = Xor(@, enPassantFeature(p.enPassantSquare)), !.enPassantSquare = SQ_NONE]
  <2>1. clearEnPassant(p) = q
    BY <1>2 DEF clearEnPassant
  <2>2. DOMAIN p = Fields
    BY DEF IsPosition
  <2>3. IsPosition(q)
    <3>1. DOMAIN q = Fields
      BY <2>2
    <3>2. q = [x \in DOMAIN q |-> q[x]]
      OBVIOUS
    <3> QED BY <3>1, <3>2 DEF IsPosition
  <2>4. SameBoard(p, q)
    <3>1. q.board = p.board /\ q.kingSquare = p.kingSquare
      BY <2>2 DEF Fields
    <3>2. q.piecesBb = p.piecesBb /\ q.occupiedBb = p.occupiedBb
      BY <2>2 DEF Fields
    <3>3. q.pawnKey = p.pawnKey /\ q.material = p.material
      BY <2>2 DEF Fields
    <3>4. q.materialNonPawn = p.materialNonPawn /\ q.gamePhase = p.gamePhase
      BY <2>2 DEF Fields
    <3> QED BY <3>1, <3>2, <3>3, <3>4 DEF SameBoard
  <2>5. Rest(q, p.nextPlayer, p.castlingRights, SQ_NONE, p.halfMoveClock, p.moveNumber, p.historyState, p.hasCheckFlag)
    <3>1. q.nextPlayer = p.nextPlayer
      BY <2>2 DEF Fields
    <3>2. q.castlingRights = p.castlingRights
      BY <2>2 DEF Fields
    <3>3. q.enPassantSquare = SQ_NONE
      BY <2>2 DEF Fields
    <3>4. q.halfMoveClock = p.halfMoveClock
      BY <2>2 DEF Fields
    <3>5. q.moveNumber = p.moveNumber
      BY <2>2 DEF Fields
    <3>6. q.historyState = p.historyState
      BY <2>2 DEF Fields
    <3>7. q.hasCheckFlag = p.hasCheckFlag
      BY <2>2 DEF Fields
    <3> QED BY <3>1, <3>2, <3>3, <3>4, <3>5, <3>6, <3>7 DEF Rest
  <2>6. q.zobristKey = Xor(p.zobristKey, enPassantFeature(p.enPassantSquare))
    BY <2>2 DEF Fields
  <2> HIDE DEF q
  <2> QED BY <1>2, <2>1, <2>3, <2>4, <2>5, <2>6
<1> QED BY <1>1, <1>2

-----------------------------------------------------------------------------
(* The key: besides the pieces, what the other fields put into it. *)
PlayerFeatures(p) == IF p.nextPlayer = BLACK THEN nextPlayerFeature ELSE {}
Others(p) == EnPassantFeatures(p) \cup castlingFeature(p.castlingRights) \cup PlayerFeatures(p)
KeyOK(p) == KeyIs(p, Others(p))
\* as much of it as holds from any start: the pieces and the player
Tells(key, pieces, player) ==
  \E others : /\ NoPieces(others) /\ key = pieces \cup others
              /\ <<"nextPlayer">> \in others <=> player = BLACK
KeyTells(p) == Tells(p.zobristKey, PieceFeatures(p, PieceType), p.nextPlayer)

\* Features of different kinds differ.
LEMMA Tags ==
  /\ \A pc, sq : pieceFeature(pc, sq) = {<<"piece", pc, sq>>}
  /\ \A p, types, f : f \in PieceFeatures(p, types) => f[1] = "piece"
  /\ \A p, f : f \in EnPassantFeatures(p) => f[1] = "enPassant"
  /\ \A sq : enPassantFeature(sq) = {<<"enPassant", fileOf(sq)>>} /\ <<"enPassant", fileOf(sq)>>[1] = "enPassant"
  /\ \A r : castlingFeature(r) = {<<"castling", r>>} /\ <<"castling", r>>[1] = "castling"
  /\ \A p, f : f \in PlayerFeatures(p) => f[1] = "nextPlayer"
  /\ nextPlayerFeature = {<<"nextPlayer">>} /\ <<"nextPlayer">>[1] = "nextPlayer"
<1>1. \A pc, sq : pieceFeature(pc, sq) = {<<"piece", pc, sq>>}
  BY DEF pieceFeature
<1>2. \A p, types, f : f \in PieceFeatures(p, types) => f[1] = "piece"
  BY DEF PieceFeatures
<1>3. \A sq : enPassantFeature(sq) = {<<"enPassant", fileOf(sq)>>} /\ <<"enPassant", fileOf(sq)>>[1] = "enPassant"
  BY DEF enPassantFeature
<1>4. \A p, f : f \in EnPassantFeatures(p) => f[1] = "enPassant"
  BY <1>3 DEF EnPassantFeatures
<1>5. \A r : castlingFeature(r) = {<<"castling", r>>} /\ <<"castling", r>>[1] = "castling"
  BY DEF castlingFeature
<1>6. nextPlayerFeature = {<<"nextPlayer">>} /\ <<"nextPlayer">>[1] = "nextPlayer"
  BY DEF nextPlayerFeature
<1>7. \A p, f : f \in PlayerFeatures(p) => f[1] = "nextPlayer"
  BY <1>6 DEF PlayerFeatures
<1> QED BY <1>1, <1>2, <1>3, <1>4, <1>5, <1>6, <1>7

\* A feature that is no piece is taken into the key, or out of it.
LEMMA TellsXor ==
  ASSUME NEW key, NEW p, NEW player, NEW later, Tells(key, PieceFeatures(p, PieceType), player),
         NEW x, x[1] # "piece", x = <<"nextPlayer">> <=> ~(later = BLACK <=> player = BLACK)
  PROVE  Tells(Xor(key, {x}), PieceFeatures(p, PieceType), later)
<1> DEFINE pieces == PieceFeatures(p, PieceType)
<1>1. PICK others : /\ NoPieces(others) /\ key = pieces \cup others
                    /\ <<"nextPlayer">> \in others <=> player = BLACK
  BY DEF Tells
<1>2. PICK rest : rest = Xor(others, {x})
  OBVIOUS
<1>3. x \notin pieces
  BY Tags
<1> HIDE DEF pieces
<1>4. Xor(key, {x}) = pieces \cup rest
  BY <1>1, <1>2, <1>3 DEF Xor, SymDiff
<1>5. NoPieces(rest)
  BY <1>1, <1>2 DEF NoPieces, Xor, SymDiff
<1>6. <<"nextPlayer">> \in rest <=> later = BLACK
  <2>1. <<"nextPlayer">> \in rest <=> ~(<<"nextPlayer">> \in others <=> x = <<"nextPlayer">>)
    <3>1. \A y : y \in rest <=> ~(y \in others <=> y = x)
      BY <1>2 DEF Xor, SymDiff
    <3> QED BY <3>1
  <2> QED BY <1>1, <2>1
<1> QED BY <1>4, <1>5, <1>6 DEF Tells, pieces

\* No feature but those of the pieces is a feature of a piece.
LEMMA OthersTagged == \A p : NoPieces(Others(p))
<1> TAKE p
<1> SUFFICES ASSUME NEW f \in Others(p) PROVE f[1] # "piece"
  BY DEF NoPieces
<1>1. f[1] \in {"enPassant", "castling", "nextPlayer"}
  BY Tags DEF Others
<1> QED BY <1>1

\* The features that are no pieces stay with the fields they stand for.
LEMMA OthersCarried ==
  ASSUME NEW p, NEW q, SameRest(p, q)
  PROVE  /\ Others(q) = Others(p)
         /\ KeysFollow(p, q) => (KeyOK(p) => KeyOK(q)) /\ (KeyTells(p) => KeyTells(q))
<1>1. Others(q) = Others(p)
  BY DEF SameRest, Others, EnPassantFeatures, PlayerFeatures
<1>2. ASSUME KeysFollow(p, q), KeyTells(p) PROVE KeyTells(q)
  <2>1. PICK others : /\ NoPieces(others) /\ KeyIs(p, others)
                      /\ <<"nextPlayer">> \in others <=> p.nextPlayer = BLACK
    BY <1>2 DEF KeyTells, Tells, KeyIs
  <2>2. KeyIs(q, others)
    BY <1>2, <2>1 DEF KeysFollow
  <2>3. q.nextPlayer = p.nextPlayer
    BY DEF SameRest
  <2> QED BY <2>1, <2>2, <2>3 DEF KeyTells, Tells, KeyIs
<1> QED BY <1>1, <1>2, OthersTagged DEF KeysFollow, KeyOK

\* All that is computed from the board is the same for the same board.
LEMMA SameBoards ==
  ASSUME NEW p, NEW q, q.board = p.board
  PROVE  /\ \A c, pt : Placed(q, c, pt) = Placed(p, c, pt)
         /\ \A c : Own(q, c) = Own(p, c)
         /\ \A c, types : Worth(q, c, types) = Worth(p, c, types)
         /\ \A types : PieceFeatures(q, types) = PieceFeatures(p, types)
         /\ PhaseOf(q) = PhaseOf(p)
<1>1. \A c, pt : Placed(q, c, pt) = Placed(p, c, pt)
  BY DEF Placed
<1>2. \A c : Own(q, c) = Own(p, c)
  BY DEF Own
<1>3. ASSUME NEW c, NEW types PROVE Worth(q, c, types) = Worth(p, c, types)
  BY <1>1 DEF Worth
<1>4. \A types : PieceFeatures(q, types) = PieceFeatures(p, types)
  BY DEF PieceFeatures
<1>5. PhaseOf(q) = PhaseOf(p)
  BY <1>1 DEF PhaseOf
<1> QED BY <1>1, <1>2, <1>3, <1>4, <1>5

(* What an operation that leaves the board alone keeps. *)
Kept(p, q) ==
    /\ IsPosition(q) /\ BoardOK(q)
    /\ q.board = p.board /\ q.kingSquare = p.kingSquare
    /\ PhaseOf(q) = PhaseOf(p)
    /\ PhaseIn(p) => PhaseIn(q)

\* A step that leaves the board alone keeps all that is kept with it.
LEMMA KeptIs ==
  ASSUME NEW p, NEW q, BoardOK(p), IsPosition(q), SameBoard(p, q)
  PROVE  Kept(p, q)
<1>1. q.board = p.board
  BY DEF SameBoard
<1>2. /\ \A c, pt : Placed(q, c, pt) = Placed(p, c, pt)
      /\ \A c : Own(q, c) = Own(p, c)
      /\ \A c, types : Worth(q, c, types) = Worth(p, c, types)
      /\ \A types : PieceFeatures(q, types) = PieceFeatures(p, types)
      /\ PhaseOf(q) = PhaseOf(p)
  BY <1>1, SameBoards
<1>3. BoardOK(q)
  BY <1>2 DEF BoardOK, SameBoard
<1> QED BY <1>2, <1>3 DEF Kept, SameBoard, PhaseIn

-----------------------------------------------------------------------------
(* The operations on the other fields keep the key. *)

DropKeeps(p, q, rights) ==
    /\ Kept(p, q)
    /\ Rest(q, p.nextPlayer, p.castlingRights \ rights, p.enPassantSquare, p.halfMoveClock,
            p.moveNumber, p.historyState, p.hasCheckFlag)
    /\ KeyOK(p) => KeyOK(q)
    /\ KeyTells(p) => KeyTells(q)

\* Castling rights leave the key with the position.
LEMMA Drop ==
  ASSUME NEW p, IsPosition(p), BoardOK(p), NEW rights
  PROVE  DropKeeps(p, DropRights(p, rights), rights)
<1>1. PICK q : q = DropRights(p, rights)
  OBVIOUS
<1>2. /\ IsPosition(q) /\ SameBoard(p, q)
      /\ Rest(q, p.nextPlayer, p.castlingRights \ rights, p.enPassantSquare, p.halfMoveClock,
              p.moveNumber, p.historyState, p.hasCheckFlag)
      /\ q.zobristKey = Xor(Xor(p.zobristKey, castlingFeature(p.castlingRights)),
                            castlingFeature(p.castlingRights \ rights))
  BY <1>1, DropFields
<1>3. Kept(p, q)
  BY <1>2, KeptIs
<1>4. ASSUME KeyOK(p) PROVE KeyOK(q)
  <2>1. PieceFeatures(q, PieceType) = PieceFeatures(p, PieceType)
    BY <1>2, SameBoards DEF SameBoard
  <2>2. EnPassantFeatures(q) = EnPassantFeatures(p) /\ PlayerFeatures(q) = PlayerFeatures(p)
    BY <1>2 DEF Rest, EnPassantFeatures, PlayerFeatures
  <2> DEFINE a == PieceFeatures(p, PieceType) \cup EnPassantFeatures(p) \cup PlayerFeatures(p)
             x == <<"castling", p.castlingRights>>
             y == <<"castling", p.castlingRights \ rights>>
  <2>3. \A f \in a : f[1] # "castling"
    BY Tags
  <2>4. x \notin a /\ y \notin a
    BY <2>3, Tags
  <2>5. castlingFeature(p.castlingRights) = {x} /\ castlingFeature(q.castlingRights) = {y}
        /\ castlingFeature(p.castlingRights \ rights) = {y}
    BY <1>2, Tags DEF Rest
  <2>6. p.zobristKey = a \cup {x}
    BY <1>4, <2>5 DEF KeyOK, KeyIs, Others
  <2> HIDE DEF x, y
  <2>7. Xor(a \cup {x}, {x}) = a
    BY <2>4 DEF Xor, SymDiff
  <2>8. Xor(a, {y}) = a \cup {y}
    BY <2>4 DEF Xor, SymDiff
  <2>9. q.zobristKey = a \cup {y}
    BY <1>2, <2>5, <2>6, <2>7, <2>8
  <2> QED BY <2>1, <2>2, <2>5, <2>9 DEF KeyOK, KeyIs, Others
<1>5. ASSUME KeyTells(p) PROVE KeyTells(q)
  <2>1. PieceFeatures(q, PieceType) = PieceFeatures(p, PieceType)
    BY <1>2, SameBoards DEF SameBoard
  <2>2. q.nextPlayer = p.nextPlayer
    BY <1>2 DEF Rest
  <2>3. Tells(Xor(p.zobristKey, castlingFeature(p.castlingRights)), PieceFeatures(p, PieceType), p.nextPlayer)
    BY <1>5, TellsXor, Tags DEF KeyTells, castlingFeature
  <2>4. Tells(q.zobristKey, PieceFeatures(p, PieceType), p.nextPlayer)
    <3>1. PICK key : key = Xor(p.zobristKey, castlingFeature(p.castlingRights))
      OBVIOUS
    <3>2. q.zobristKey = Xor(key, {<<"castling", p.castlingRights \ rights>>})
      BY <1>2, <3>1 DEF castlingFeature
    <3>3. Tells(key, PieceFeatures(p, PieceType), p.nextPlayer)
      BY <2>3, <3>1
    <3>4. <<"castling", p.castlingRights \ rights>>[1] = "castling"
      OBVIOUS
    <3>5. <<"castling", p.castlingRights \ rights>>[1] # "piece" /\ <<"castling", p.castlingRights \ rights>> # <<"nextPlayer">>
      BY <3>4
    <3> QED BY <3>2, <3>3, <3>5, TellsXor
  <2> QED BY <2>1, <2>2, <2>4 DEF KeyTells
<1> QED BY <1>1, <1>2, <1>3, <1>4, <1>5 DEF DropKeeps

ClearKeeps(p, q) ==
    /\ Kept(p, q)
    /\ Rest(q, p.nextPlayer, p.castlingRights, SQ_NONE, p.halfMoveClock,
            p.moveNumber, p.historyState, p.hasCheckFlag)
    /\ KeyOK(p) => KeyOK(q)
    /\ KeyTells(p) => KeyTells(q)

\* The en passant square leaves the key with the position.
LEMMA Clear ==
  ASSUME NEW p, IsPosition(p), BoardOK(p)
  PROVE  ClearKeeps(p, clearEnPassant(p))
<1>1. PICK q : q = clearEnPassant(p)
  OBVIOUS
<1>2. /\ IsPosition(q) /\ SameBoard(p, q)
      /\ Rest(q, p.nextPlayer, p.castlingRights, SQ_NONE, p.halfMoveClock,
              p.moveNumber, p.historyState, p.hasCheckFlag)
      /\ q.zobristKey = IF p.enPassantSquare = SQ_NONE THEN p.zobristKey
                        ELSE Xor(p.zobristKey, enPassantFeature(p.enPassantSquare))
  BY <1>1, ClearFields
<1>3. Kept(p, q)
  BY <1>2, KeptIs
<1>4. ASSUME KeyOK(p) PROVE KeyOK(q)
  <2>1. PieceFeatures(q, PieceType) = PieceFeatures(p, PieceType)
    BY <1>2, SameBoards DEF SameBoard
  <2>2. EnPassantFeatures(q) = {} /\ PlayerFeatures(q) = PlayerFeatures(p)
        /\ castlingFeature(q.castlingRights) = castlingFeature(p.castlingRights)
    BY <1>2 DEF Rest, EnPassantFeatures, PlayerFeatures
  <2> DEFINE a == PieceFeatures(p, PieceType) \cup castlingFeature(p.castlingRights) \cup PlayerFeatures(p)
             x == <<"enPassant", fileOf(p.enPassantSquare)>>
  <2>3. \A f \in a : f[1] # "enPassant"
    BY Tags
  <2>4. x \notin a
    BY <2>3, Tags
  <2>5. enPassantFeature(p.enPassantSquare) = {x}
    BY Tags
  <2>6. p.zobristKey = IF p.enPassantSquare = SQ_NONE THEN a ELSE a \cup {x}
    BY <1>4, <2>5 DEF KeyOK, KeyIs, Others, EnPassantFeatures
  <2> HIDE DEF x
  <2>7. Xor(a \cup {x}, {x}) = a
    BY <2>4 DEF Xor, SymDiff
  <2>9. q.zobristKey = a
    BY <1>2, <2>5, <2>6, <2>7
  <2> QED BY <2>1, <2>2, <2>9 DEF KeyOK, KeyIs, Others
<1>5. ASSUME KeyTells(p) PROVE KeyTells(q)
  <2>1. PieceFeatures(q, PieceType) = PieceFeatures(p, PieceType)
    BY <1>2, SameBoards DEF SameBoard
  <2>2. q.nextPlayer = p.nextPlayer
    BY <1>2 DEF Rest
  <2>3. CASE p.enPassantSquare = SQ_NONE
    BY <1>2, <1>5, <2>1, <2>2, <2>3 DEF KeyTells
  <2>4. CASE p.enPassantSquare # SQ_NONE
    <3>1. Tells(q.zobristKey, PieceFeatures(p, PieceType), p.nextPlayer)
      BY <1>2, <1>5, <2>4, TellsXor, Tags DEF KeyTells, enPassantFeature
    <3> QED BY <2>1, <2>2, <3>1 DEF KeyTells
  <2> QED BY <2>3, <2>4
<1> QED BY <1>1, <1>2, <1>3, <1>4, <1>5 DEF ClearKeeps

MarkKeeps(p, q, sq) ==
    /\ Kept(p, q)
    /\ Rest(q, p.nextPlayer, p.castlingRights, sq, p.halfMoveClock,
            p.moveNumber, p.historyState, p.hasCheckFlag)
    /\ KeyOK(p) => KeyOK(q)
    /\ KeyTells(p) => KeyTells(q)

\* The en passant square enters the key with the position.
LEMMA Mark ==
  ASSUME NEW p, IsPosition(p), BoardOK(p), p.enPassantSquare = SQ_NONE, NEW sq, sq # SQ_NONE
  PROVE  MarkKeeps(p, MarkEnPassant(p, sq), sq)
<1>1. PICK q : q = MarkEnPassant(p, sq)
  OBVIOUS
<1>2. /\ IsPosition(q) /\ SameBoard(p, q)
      /\ Rest(q, p.nextPlayer, p.castlingRights, sq, p.halfMoveClock,
              p.moveNumber, p.historyState, p.hasCheckFlag)
      /\ q.zobristKey = Xor(p.zobristKey, enPassantFeature(sq))
  BY <1>1, MarkFields
<1>3. Kept(p, q)
  BY <1>2, KeptIs
<1>4. ASSUME KeyOK(p) PROVE KeyOK(q)
  <2>1. PieceFeatures(q, PieceType) = PieceFeatures(p, PieceType)
    BY <1>2, SameBoards DEF SameBoard
  <2>2. EnPassantFeatures(q) = enPassantFeature(sq) /\ PlayerFeatures(q) = PlayerFeatures(p)
        /\ castlingFeature(q.castlingRights) = castlingFeature(p.castlingRights)
    BY <1>2 DEF Rest, EnPassantFeatures, PlayerFeatures
  <2> DEFINE a == PieceFeatures(p, PieceType) \cup castlingFeature(p.castlingRights) \cup PlayerFeatures(p)
             x == <<"enPassant", fileOf(sq)>>
  <2>3. \A f \in a : f[1] # "enPassant"
    BY Tags
  <2>4. x \notin a
    BY <2>3, Tags
  <2>5. enPassantFeature(sq) = {x}
    BY Tags
  <2>6. p.zobristKey = a
    BY <1>4 DEF KeyOK, KeyIs, Others, EnPassantFeatures
  <2> HIDE DEF x
  <2>7. Xor(a, {x}) = a \cup {x}
    BY <2>4 DEF Xor, SymDiff
  <2>9. q.zobristKey = a \cup {x}
    BY <1>2, <2>5, <2>6, <2>7
  <2> QED BY <2>1, <2>2, <2>5, <2>9 DEF KeyOK, KeyIs, Others
<1>5. ASSUME KeyTells(p) PROVE KeyTells(q)
  <2>1. PieceFeatures(q, PieceType) = PieceFeatures(p, PieceType)
    BY <1>2, SameBoards DEF SameBoard
  <2>2. q.nextPlayer = p.nextPlayer
    BY <1>2 DEF Rest
  <2>3. Tells(q.zobristKey, PieceFeatures(p, PieceType), p.nextPlayer)
    BY <1>2, <1>5, TellsXor, Tags DEF KeyTells, enPassantFeature
  <2> QED BY <2>1, <2>2, <2>3 DEF KeyTells
<1> QED BY <1>1, <1>2, <1>3, <1>4, <1>5 DEF MarkKeeps

ClockKeeps(p, q, n) ==
    /\ Kept(p, q)
    /\ Rest(q, p.nextPlayer, p.castlingRights, p.enPassantSquare, n,
            p.moveNumber, p.historyState, p.hasCheckFlag)
    /\ KeyOK(p) => KeyOK(q)
    /\ KeyTells(p) => KeyTells(q)

\* The half move clock is in no key.
LEMMA Clock ==
  ASSUME NEW p, IsPosition(p), BoardOK(p), NEW n
  PROVE  ClockKeeps(p, SetClock(p, n), n)
<1>1. PICK q : q = SetClock(p, n)
  OBVIOUS
<1>2. /\ IsPosition(q) /\ SameBoard(p, q)
      /\ Rest(q, p.nextPlayer, p.castlingRights, p.enPassantSquare, n,
              p.moveNumber, p.historyState, p.hasCheckFlag)
      /\ q.zobristKey = p.zobristKey
  BY <1>1, ClockFields
<1>3. Kept(p, q)
  BY <1>2, KeptIs
<1>4. ASSUME KeyOK(p) PROVE KeyOK(q)
  <2>1. PieceFeatures(q, PieceType) = PieceFeatures(p, PieceType)
    BY <1>2, SameBoards DEF SameBoard
  <2>2. Others(q) = Others(p)
    BY <1>2 DEF Rest, EnPassantFeatures, PlayerFeatures, Others
  <2> QED BY <1>2, <1>4, <2>1, <2>2 DEF KeyOK, KeyIs
<1>5. ASSUME KeyTells(p) PROVE KeyTells(q)
  <2>1. PieceFeatures(q, PieceType) = PieceFeatures(p, PieceType)
    BY <1>2, SameBoards DEF SameBoard
  <2>2. q.nextPlayer = p.nextPlayer
    BY <1>2 DEF Rest
  <2> QED BY <1>2, <1>5, <2>1, <2>2 DEF KeyTells
<1> QED BY <1>1, <1>2, <1>3, <1>4, <1>5 DEF ClockKeeps

SaveKeeps(p, q, entry) ==
    /\ Kept(p, q)
    /\ Rest(q, p.nextPlayer, p.castlingRights, p.enPassantSquare, p.halfMoveClock,
            p.moveNumber, Append(p.historyState, entry), p.hasCheckFlag)
    /\ KeyOK(p) => KeyOK(q)
    /\ KeyTells(p) => KeyTells(q)

\* The history is in no key.
LEMMA Save ==
  ASSUME NEW p, IsPosition(p), BoardOK(p), NEW move, NEW fromPiece, NEW capturedPiece
  PROVE  SaveKeeps(p, SaveState(p, move, fromPiece, capturedPiece),
                   Entry(p, move, fromPiece, capturedPiece))
<1>1. PICK q : q = SaveState(p, move, fromPiece, capturedPiece)
  OBVIOUS
<1>2. /\ IsPosition(q) /\ SameBoard(p, q)
      /\ Rest(q, p.nextPlayer, p.castlingRights, p.enPassantSquare, p.halfMoveClock,
              p.moveNumber, Append(p.historyState, Entry(p, move, fromPiece, capturedPiece)),
              p.hasCheckFlag)
      /\ q.zobristKey = p.zobristKey
  BY <1>1, SaveFields
<1>3. Kept(p, q)
  BY <1>2, KeptIs
<1>4. ASSUME KeyOK(p) PROVE KeyOK(q)
  <2>1. PieceFeatures(q, PieceType) = PieceFeatures(p, PieceType)
    BY <1>2, SameBoards DEF SameBoard
  <2>2. Others(q) = Others(p)
    BY <1>2 DEF Rest, EnPassantFeatures, PlayerFeatures, Others
  <2> QED BY <1>2, <1>4, <2>1, <2>2 DEF KeyOK, KeyIs
<1>5. ASSUME KeyTells(p) PROVE KeyTells(q)
  <2>1. PieceFeatures(q, PieceType) = PieceFeatures(p, PieceType)
    BY <1>2, SameBoards DEF SameBoard
  <2>2. q.nextPlayer = p.nextPlayer
    BY <1>2 DEF Rest
  <2> QED BY <1>2, <1>5, <2>1, <2>2 DEF KeyTells
<1> QED BY <1>1, <1>2, <1>3, <1>4, <1>5 DEF SaveKeeps

SwitchKeeps(p, q) ==
    /\ Kept(p, q)
    /\ Rest(q, Other(p.nextPlayer), p.castlingRights, p.enPassantSquare, p.halfMoveClock,
            p.moveNumber + p.nextPlayer, p.historyState, FLAG_TBD)
    /\ KeyOK(p) => KeyOK(q)
    /\ KeyTells(p) => KeyTells(q)

\* The player to move enters and leaves the key with the position.
LEMMA Switch ==
  ASSUME NEW p, IsPosition(p), BoardOK(p), p.nextPlayer \in Color
  PROVE  SwitchKeeps(p, SwitchPlayer(p))
<1>1. PICK q : q = SwitchPlayer(p)
  OBVIOUS
<1>2. /\ IsPosition(q) /\ SameBoard(p, q)
      /\ Rest(q, Other(p.nextPlayer), p.castlingRights, p.enPassantSquare, p.halfMoveClock,
            p.moveNumber + p.nextPlayer, p.historyState, FLAG_TBD)
      /\ q.zobristKey = Xor(p.zobristKey, nextPlayerFeature)
  BY <1>1, SwitchFields
<1>3. Kept(p, q)
  BY <1>2, KeptIs
<1>4. ASSUME KeyOK(p) PROVE KeyOK(q)
  <2>1. PieceFeatures(q, PieceType) = PieceFeatures(p, PieceType)
    BY <1>2, SameBoards DEF SameBoard
  <2>2. EnPassantFeatures(q) = EnPassantFeatures(p)
        /\ castlingFeature(q.castlingRights) = castlingFeature(p.castlingRights)
    BY <1>2 DEF Rest, EnPassantFeatures
  <2> DEFINE a == PieceFeatures(p, PieceType) \cup EnPassantFeatures(p) \cup castlingFeature(p.castlingRights)
             x == <<"nextPlayer">>
  <2>3. \A f \in a : f[1] # "nextPlayer"
    BY Tags
  <2>4. x \notin a
    BY <2>3, Tags
  <2>5. nextPlayerFeature = {x}
    BY Tags
  <2>6. PlayerFeatures(p) = (IF p.nextPlayer = BLACK THEN {x} ELSE {})
        /\ PlayerFeatures(q) = (IF p.nextPlayer = BLACK THEN {} ELSE {x})
    BY <1>2, <2>5 DEF PlayerFeatures, Rest, Other, Color, WHITE, BLACK
  <2>7. p.zobristKey = IF p.nextPlayer = BLACK THEN a \cup {x} ELSE a
    BY <1>4, <2>6 DEF KeyOK, KeyIs, Others
  <2> HIDE DEF x
  <2>8. Xor(a \cup {x}, {x}) = a
    BY <2>4 DEF Xor, SymDiff
  <2>9. Xor(a, {x}) = a \cup {x}
    BY <2>4 DEF Xor, SymDiff
  <2>10. q.zobristKey = IF p.nextPlayer = BLACK THEN a ELSE a \cup {x}
    BY <1>2, <2>5, <2>7, <2>8, <2>9
  <2> QED BY <2>1, <2>2, <2>6, <2>10 DEF KeyOK, KeyIs, Others
<1>5. ASSUME KeyTells(p) PROVE KeyTells(q)
  <2>1. PieceFeatures(q, PieceType) = PieceFeatures(p, PieceType)
    BY <1>2, SameBoards DEF SameBoard
  <2>2. q.nextPlayer = Other(p.nextPlayer)
    BY <1>2 DEF Rest
  <2>3. ~(q.nextPlayer = BLACK <=> p.nextPlayer = BLACK)
    BY <2>2 DEF Other, Color, WHITE, BLACK
  <2>4. Tells(q.zobristKey, PieceFeatures(p, PieceType), q.nextPlayer)
    BY <1>2, <1>5, <2>3, TellsXor, Tags DEF KeyTells, nextPlayerFeature
  <2> QED BY <2>1, <2>4 DEF KeyTells
<1> QED BY <1>1, <1>2, <1>3, <1>4, <1>5 DEF SwitchKeeps

-----------------------------------------------------------------------------
(* A composition of steps that ends in a consistent position. *)
PhaseGood(p) == PhaseIn(p) /\ PhaseOf(p) <= GAME_PHASE_MAX
Through(p, q) ==
    /\ IsPosition(q) /\ BoardOK(q)
    /\ KeyOK(p) => KeyOK(q)
    /\ KeyTells(p) => KeyTells(q)
    /\ PhaseGood(p) => PhaseGood(q)

\* Steps that leave the board alone compose.
LEMMA ThroughKept ==
  ASSUME NEW p, NEW q, NEW r, Through(p, q), Kept(q, r), KeyOK(q) => KeyOK(r), KeyTells(q) => KeyTells(r)
  PROVE  Through(p, r)
BY DEF Through, Kept, PhaseGood

\* So does a piece that is taken from its square.
LEMMA ThroughEmptied ==
  ASSUME NEW p, NEW q, NEW r, Through(p, q), NEW d, NEW t \in PieceType, NEW sq, Emptied(q, r, d, t, sq)
  PROVE  Through(p, r)
<1>1. (KeyOK(q) => KeyOK(r)) /\ (KeyTells(q) => KeyTells(r))
  BY OthersCarried DEF Emptied
<1>2. phaseValue[t] \in 0 .. 4
  BY DEF phaseValue, PieceType, KING, QUEEN
<1>3. PhaseGood(q) => PhaseGood(r)
  BY <1>2, PhaseNat DEF PhaseGood, Emptied, GAME_PHASE_MAX
<1> QED BY <1>1, <1>3 DEF Through, Emptied

(* A piece put at the end. *)
Ended(p, q) ==
    /\ IsPosition(q) /\ BoardOK(q)
    /\ KeyOK(p) => KeyOK(q)
    /\ KeyTells(p) => KeyTells(q)
    /\ PhaseGood(p) /\ PhaseOf(q) <= GAME_PHASE_MAX => PhaseGood(q)

\* A piece that is put on the board ends the composition: the phase may be cut off.
LEMMA EndedFilled ==
  ASSUME NEW p, NEW q, NEW r, Through(p, q), NEW d, NEW t, NEW sq, Filled(q, r, d, t, sq)
  PROVE  Ended(p, r)
<1>1. (KeyOK(q) => KeyOK(r)) /\ (KeyTells(q) => KeyTells(r))
  BY OthersCarried DEF Filled
<1> QED BY <1>1 DEF Through, Ended, Filled, PhaseGood

\* Steps that leave the board alone may follow.
LEMMA EndedKept ==
  ASSUME NEW p, NEW q, NEW r, Ended(p, q), Kept(q, r), KeyOK(q) => KeyOK(r), KeyTells(q) => KeyTells(r)
  PROVE  Ended(p, r)
BY DEF Ended, Kept, PhaseGood

\* A composition that puts nothing on the board ends as well.
LEMMA ThroughEnds == ASSUME NEW p, NEW q, Through(p, q) PROVE Ended(p, q)
BY DEF Ended, Through

(* movePiece to an empty square. *)
Relocated(p, q, d, t, from, to) ==
    /\ SameRest(p, q)
    /\ q.board = [p.board EXCEPT ![from] = PIECE_NONE, ![to] = makePiece(d, t)]
    /\ q.kingSquare = [p.kingSquare EXCEPT ![d] = IF t = KING THEN to ELSE @]
    /\ PhaseOf(q) = PhaseOf(p)

\* movePiece takes a piece from one square to an empty one.
LEMMA MoveBoard ==
  ASSUME NEW o, NEW p, Through(o, p), NEW d \in Color, NEW t \in PieceType, NEW from \in Square,
         NEW to \in Square, from # to, p.board[from] = makePiece(d, t), p.board[to] = PIECE_NONE
  PROVE  /\ Relocated(p, movePiece(p, from, to), d, t, from, to)
         /\ Through(o, movePiece(p, from, to))
<1>1. PICK r : r = removePiece(p, from)
  OBVIOUS
<1>2. PICK q : q = putPiece(r, makePiece(d, t), to)
  OBVIOUS
<1>3. q = movePiece(p, from, to)
  BY <1>1, <1>2 DEF movePiece
<1>4. IsPosition(p) /\ BoardOK(p)
  BY DEF Through
<1>5. Emptied(p, r, d, t, from)
  BY <1>1, <1>4, RemoveBoard
<1>6. IsPosition(r) /\ BoardOK(r) /\ r.board = [p.board EXCEPT ![from] = PIECE_NONE]
  BY <1>5 DEF Emptied
<1>7. r.board[to] = PIECE_NONE
  BY <1>4, <1>6 DEF BoardOK
<1>8. Filled(r, q, d, t, to)
  BY <1>2, <1>6, <1>7, PutBoard
<1>9. phaseValue[t] \in 0 .. 4
  BY DEF phaseValue, PieceType, KING, QUEEN
<1>10. PhaseOf(q) = PhaseOf(p)
  BY <1>5, <1>8, <1>9, PhaseNat DEF Emptied, Filled
<1>11. Relocated(p, q, d, t, from, to)
  <2>1. q.board = [[p.board EXCEPT ![from] = PIECE_NONE] EXCEPT ![to] = makePiece(d, t)]
    BY <1>6, <1>8 DEF Filled
  <2>2. SameRest(p, q)
    BY <1>5, <1>8 DEF Emptied, Filled, SameRest
  <2>3. q.kingSquare = [p.kingSquare EXCEPT ![d] = IF t = KING THEN to ELSE @]
    BY <1>5, <1>8 DEF Emptied, Filled
  <2> QED BY <1>10, <2>1, <2>2, <2>3 DEF Relocated
<1>12. Through(o, r)
  BY <1>5, ThroughEmptied
<1>13. Ended(o, q)
  BY <1>8, <1>12, EndedFilled
<1>14. PhaseGood(o) => PhaseGood(p)
  BY DEF Through
<1>15. Through(o, q)
  BY <1>10, <1>13, <1>14 DEF Through, Ended, PhaseGood
<1> QED BY <1>3, <1>11, <1>15

-----------------------------------------------------------------------------
(* doMove, for the moves a generator may come up with. *)

Double(p, m) ==
    typeOf(p.board[m.from]) = PAWN /\ p.board[m.to] = PIECE_NONE /\ distance(m.from, m.to) = 2
Behind(p, m) == m.to + pawnPush(Other(p.nextPlayer))
Record(p, m) == Entry(p, m, p.board[m.from], p.board[m.to])

LandsOn(p, m) ==
    \/ p.board[m.to] = PIECE_NONE
    \/ \E ct \in PieceType : p.board[m.to] = makePiece(Other(p.nextPlayer), ct)
NormalShape(p, m) ==
    /\ \E t \in PieceType : p.board[m.from] = makePiece(p.nextPlayer, t)
    /\ LandsOn(p, m)
    /\ Double(p, m) =>
         /\ Behind(p, m) \in Square
         /\ p.board[Behind(p, m)] = PIECE_NONE
         /\ Behind(p, m) \in Rank(pawnDoubleRank(p.nextPlayer))
PromotionShape(p, m) ==
    /\ p.board[m.from] = makePiece(p.nextPlayer, PAWN)
    /\ LandsOn(p, m)
    /\ m.prom \in KNIGHT .. QUEEN
EnPassantShape(p, m) ==
    /\ p.board[m.from] = makePiece(p.nextPlayer, PAWN)
    /\ p.board[m.to] = PIECE_NONE
    /\ Behind(p, m) \in Square
    /\ p.board[Behind(p, m)] = makePiece(Other(p.nextPlayer), PAWN)
CastlingShape(p, m) ==
    /\ m.from = (IF p.nextPlayer = WHITE THEN E1 ELSE E8)
    /\ m.to \in (IF p.nextPlayer = WHITE THEN {G1, C1} ELSE {G8, C8})
    /\ p.board[m.from] = makePiece(p.nextPlayer, KING)
    /\ p.board[rookCorner[m.to]] = makePiece(p.nextPlayer, ROOK)
    /\ p.board[m.to] = PIECE_NONE
    /\ p.board[rookCrossing[m.to]] = PIECE_NONE
MoveShape(p, m) ==
    /\ m.from \in Square /\ m.to \in Square /\ m.from # m.to
    /\ \/ m.type = NORMAL /\ NormalShape(p, m)
       \/ m.type = PROMOTION /\ PromotionShape(p, m)
       \/ m.type = ENPASSANT /\ EnPassantShape(p, m)
       \/ m.type = CASTLING /\ CastlingShape(p, m)

(* What the moves have in common, and what each does to the board. *)
Turned(p, m, q) ==
    /\ Ended(p, q)
    /\ q.nextPlayer = Other(p.nextPlayer)
    /\ q.moveNumber = p.moveNumber + p.nextPlayer
    /\ q.historyState = Append(p.historyState, Record(p, m))
    /\ q.hasCheckFlag = FLAG_TBD

\* The entry of a move in the history.
LEMMA SaveRecord ==
  ASSUME NEW p, IsPosition(p), BoardOK(p), NEW m
  PROVE  LET q == SaveState(p, m, p.board[m.from], p.board[m.to])
         IN /\ Through(p, q) /\ q.board = p.board /\ q.kingSquare = p.kingSquare /\ PhaseOf(q) = PhaseOf(p)
            /\ Rest(q, p.nextPlayer, p.castlingRights, p.enPassantSquare, p.halfMoveClock,
                    p.moveNumber, Append(p.historyState, Record(p, m)), p.hasCheckFlag)
<1>1. PICK q : q = SaveState(p, m, p.board[m.from], p.board[m.to])
  OBVIOUS
<1>2. SaveKeeps(p, q, Record(p, m))
  BY <1>1, Save DEF Record
<1> QED BY <1>1, <1>2 DEF SaveKeeps, Kept, Through, PhaseGood

\* The end of a move makes a turn of what was done.
LEMMA TurnedSwitch ==
  ASSUME NEW p, NEW m, NEW q, Ended(p, q), p.nextPlayer \in Color,
         q.nextPlayer = p.nextPlayer, q.moveNumber = p.moveNumber,
         q.historyState = Append(p.historyState, Record(p, m))
  PROVE  LET r == SwitchPlayer(q)
         IN /\ Turned(p, m, r)
            /\ r.board = q.board /\ r.kingSquare = q.kingSquare /\ PhaseOf(r) = PhaseOf(q)
            /\ r.castlingRights = q.castlingRights /\ r.enPassantSquare = q.enPassantSquare
            /\ r.halfMoveClock = q.halfMoveClock
<1>1. PICK r : r = SwitchPlayer(q)
  OBVIOUS
<1>2. SwitchKeeps(q, r)
  BY <1>1, Switch DEF Ended
<1>3. Ended(p, r)
  BY <1>2, EndedKept DEF SwitchKeeps
<1> QED BY <1>1, <1>2, <1>3 DEF Turned, SwitchKeeps, Kept, Rest

DoneNormal(p, m, q, t) ==
    /\ Turned(p, m, q)
    /\ q.board = [p.board EXCEPT ![m.from] = PIECE_NONE, ![m.to] = makePiece(p.nextPlayer, t)]
    /\ q.kingSquare = [p.kingSquare EXCEPT ![p.nextPlayer] = IF t = KING THEN m.to ELSE @]
    /\ q.castlingRights = p.castlingRights \ RightsTouched(m)
    /\ q.enPassantSquare = IF Double(p, m) THEN Behind(p, m) ELSE SQ_NONE
    /\ q.halfMoveClock = IF p.board[m.to] # PIECE_NONE \/ typeOf(p.board[m.from]) = PAWN THEN 0
                         ELSE p.halfMoveClock + 1

\* A normal move, with the rights it ends, the capture and the double step.
LEMMA DoNormal ==
  ASSUME NEW p, IsPosition(p), BoardOK(p), p.nextPlayer \in Color, NEW m,
         m.from \in Square, m.to \in Square, m.from # m.to, m.type = NORMAL, NormalShape(p, m),
         NEW t \in PieceType, p.board[m.from] = makePiece(p.nextPlayer, t)
  PROVE  DoneNormal(p, m, doMove(p, m), t)
<1> DEFINE us == p.nextPlayer
           rights == RightsTouched(m)
<1>1. PICK a : a = SaveState(p, m, p.board[m.from], p.board[m.to])
  OBVIOUS
<1>2. PICK b : b = DropRights(a, rights)
  OBVIOUS
<1>3. PICK c : c = clearEnPassant(b)
  OBVIOUS
<1>4. PICK n : n = IF a.board[m.to] # PIECE_NONE \/ typeOf(a.board[m.from]) = PAWN THEN 0
                   ELSE c.halfMoveClock + 1
  OBVIOUS
<1>5. PICK d : d = SetClock(c, n)
  OBVIOUS
<1>6. PICK e : e = IF Double(a, m) THEN MarkEnPassant(d, Behind(a, m)) ELSE d
  OBVIOUS
<1>7. PICK f : f = IF a.board[m.to] # PIECE_NONE THEN removePiece(e, m.to) ELSE e
  OBVIOUS
<1>8. PICK g : g = movePiece(f, m.from, m.to)
  OBVIOUS
<1>9. PICK q : q = SwitchPlayer(g)
  OBVIOUS
<1>10. doMove(p, m) = q
  <2>1. doMove(p, m) = SwitchPlayer(doNormal(a, m))
    BY <1>1 DEF doMove, NORMAL, PROMOTION, ENPASSANT, CASTLING
  <2>2. doNormal(a, m) = g
    <3>1. d = [c EXCEPT !.halfMoveClock = IF a.board[m.to] # PIECE_NONE \/ typeOf(a.board[m.from]) = PAWN
                                          THEN 0 ELSE @ + 1]
      BY <1>4, <1>5 DEF SetClock
    <3>2. e = IF typeOf(a.board[m.from]) = PAWN /\ ~(a.board[m.to] # PIECE_NONE) /\ distance(m.from, m.to) = 2
              THEN [d EXCEPT !.enPassantSquare = m.to + pawnPush(Other(a.nextPlayer)),
                             !.zobristKey = Xor(@, enPassantFeature(m.to + pawnPush(Other(a.nextPlayer))))]
              ELSE d
      BY <1>6 DEF MarkEnPassant, Double, Behind
    <3> QED BY <1>2, <1>3, <1>7, <1>8, <3>1, <3>2 DEF doNormal
  <2> QED BY <1>9, <2>1, <2>2
<1>11. /\ Through(p, a) /\ a.board = p.board /\ a.kingSquare = p.kingSquare
       /\ Rest(a, us, p.castlingRights, p.enPassantSquare, p.halfMoveClock,
               p.moveNumber, Append(p.historyState, Record(p, m)), p.hasCheckFlag)
  BY <1>1, SaveRecord
<1>12. /\ Through(p, b) /\ b.board = p.board /\ b.kingSquare = p.kingSquare
       /\ Rest(b, us, p.castlingRights \ rights, p.enPassantSquare, p.halfMoveClock,
               p.moveNumber, Append(p.historyState, Record(p, m)), p.hasCheckFlag)
  <2>1. DropKeeps(a, b, rights)
    BY <1>2, <1>11, Drop DEF Through
  <2>2. Through(p, b)
    BY <1>11, <2>1, ThroughKept DEF DropKeeps
  <2> QED BY <1>11, <2>1, <2>2 DEF DropKeeps, Kept, Rest
<1>13. /\ Through(p, c) /\ c.board = p.board /\ c.kingSquare = p.kingSquare
       /\ Rest(c, us, p.castlingRights \ rights, SQ_NONE, p.halfMoveClock,
               p.moveNumber, Append(p.historyState, Record(p, m)), p.hasCheckFlag)
  <2>1. ClearKeeps(b, c)
    BY <1>3, <1>12, Clear DEF Through
  <2>2. Through(p, c)
    BY <1>12, <2>1, ThroughKept DEF ClearKeeps
  <2> QED BY <1>12, <2>1, <2>2 DEF ClearKeeps, Kept, Rest
<1>14. /\ Through(p, d) /\ d.board = p.board /\ d.kingSquare = p.kingSquare
       /\ Rest(d, us, p.castlingRights \ rights, SQ_NONE, n,
               p.moveNumber, Append(p.historyState, Record(p, m)), p.hasCheckFlag)
  <2>1. ClockKeeps(c, d, n)
    BY <1>5, <1>13, Clock DEF Through
  <2>2. Through(p, d)
    BY <1>13, <2>1, ThroughKept DEF ClockKeeps
  <2> QED BY <1>13, <2>1, <2>2 DEF ClockKeeps, Kept, Rest
<1>15. Double(a, m) = Double(p, m) /\ Behind(a, m) = Behind(p, m) /\ a.board = p.board
  BY <1>11 DEF Double, Behind, Rest
<1> DEFINE ep == IF Double(p, m) THEN Behind(p, m) ELSE SQ_NONE
<1>16. /\ Through(p, e) /\ e.board = p.board /\ e.kingSquare = p.kingSquare
       /\ Rest(e, us, p.castlingRights \ rights, ep, n,
               p.moveNumber, Append(p.historyState, Record(p, m)), p.hasCheckFlag)
  <2>1. CASE Double(p, m)
    <3>1. e = MarkEnPassant(d, Behind(p, m)) /\ Behind(p, m) \in Square
      BY <1>6, <1>15, <2>1 DEF NormalShape
    <3>2. Behind(p, m) # SQ_NONE
      BY <3>1 DEF Square, SQ_NONE
    <3>3. MarkKeeps(d, e, Behind(p, m))
      BY <1>14, <3>1, <3>2, Mark DEF Through, Rest
    <3>4. Through(p, e)
      BY <1>14, <3>3, ThroughKept DEF MarkKeeps
    <3> QED BY <1>14, <2>1, <3>3, <3>4 DEF MarkKeeps, Kept, Rest
  <2>2. CASE ~Double(p, m)
    BY <1>6, <1>14, <1>15, <2>2
  <2> QED BY <2>1, <2>2
<1>17. /\ Through(p, f) /\ f.board = [p.board EXCEPT ![m.to] = PIECE_NONE] /\ f.kingSquare = p.kingSquare
       /\ SameRest(e, f)
  <2>1. CASE p.board[m.to] = PIECE_NONE
    <3>1. f = e
      BY <1>7, <1>15, <2>1
    <3>2. [p.board EXCEPT ![m.to] = PIECE_NONE] = p.board
      BY <2>1 DEF BoardOK
    <3> QED BY <1>16, <3>1, <3>2 DEF SameRest
  <2>2. CASE p.board[m.to] # PIECE_NONE
    <3>1. PICK ct \in PieceType : p.board[m.to] = makePiece(Other(us), ct)
      BY <2>2 DEF NormalShape, LandsOn
    <3>2. Other(us) \in Color
      BY DEF Other, Color, WHITE, BLACK
    <3>3. Emptied(e, f, Other(us), ct, m.to)
      BY <1>7, <1>15, <1>16, <2>2, <3>1, <3>2, RemoveBoard DEF Through
    <3>4. Through(p, f)
      BY <1>16, <3>3, ThroughEmptied
    <3> QED BY <1>16, <3>3, <3>4 DEF Emptied
  <2> QED BY <2>1, <2>2
<1>18. f.board[m.from] = makePiece(us, t) /\ f.board[m.to] = PIECE_NONE
  BY <1>17 DEF BoardOK
<1>19. Relocated(f, g, us, t, m.from, m.to) /\ Through(p, g)
  BY <1>8, <1>17, <1>18, MoveBoard
<1>20. /\ g.board = [p.board EXCEPT ![m.from] = PIECE_NONE, ![m.to] = makePiece(us, t)]
       /\ g.kingSquare = [p.kingSquare EXCEPT ![us] = IF t = KING THEN m.to ELSE @]
       /\ Rest(g, us, p.castlingRights \ rights, ep, n,
               p.moveNumber, Append(p.historyState, Record(p, m)), p.hasCheckFlag)
  <2>1. g.board = [[p.board EXCEPT ![m.to] = PIECE_NONE] EXCEPT ![m.from] = PIECE_NONE, ![m.to] = makePiece(us, t)]
    BY <1>17, <1>19 DEF Relocated
  <2>2. g.board = [p.board EXCEPT ![m.from] = PIECE_NONE, ![m.to] = makePiece(us, t)]
    BY <2>1 DEF BoardOK
  <2> QED BY <1>16, <1>17, <1>19, <2>2 DEF Relocated, SameRest, Rest
<1>21. Ended(p, g)
  BY <1>19, ThroughEnds
<1>22. /\ Turned(p, m, q)
       /\ q.board = g.board /\ q.kingSquare = g.kingSquare
       /\ q.castlingRights = g.castlingRights /\ q.enPassantSquare = g.enPassantSquare
       /\ q.halfMoveClock = g.halfMoveClock
  <2>1. g.nextPlayer = p.nextPlayer /\ g.moveNumber = p.moveNumber
        /\ g.historyState = Append(p.historyState, Record(p, m))
    BY <1>20 DEF Rest
  <2> HIDE DEF rights, ep
  <2> QED BY <1>9, <1>21, <2>1, TurnedSwitch
<1>23. n = IF p.board[m.to] # PIECE_NONE \/ typeOf(p.board[m.from]) = PAWN THEN 0 ELSE p.halfMoveClock + 1
  BY <1>4, <1>11, <1>13 DEF Rest
<1> QED BY <1>10, <1>20, <1>22, <1>23 DEF DoneNormal, Rest

-----------------------------------------------------------------------------

\* A capture empties the target, if a piece stands there.
LEMMA CaptureBoard ==
  ASSUME NEW p, NEW e, Through(p, e), NEW them \in Color, NEW to \in Square,
         \/ e.board[to] = PIECE_NONE
         \/ \E ct \in PieceType : e.board[to] = makePiece(them, ct)
  PROVE  LET f == IF e.board[to] # PIECE_NONE THEN removePiece(e, to) ELSE e
         IN Through(p, f) /\ f.board = [e.board EXCEPT ![to] = PIECE_NONE]
            /\ f.kingSquare = e.kingSquare /\ SameRest(e, f)
<1>1. PICK f : f = IF e.board[to] # PIECE_NONE THEN removePiece(e, to) ELSE e
  OBVIOUS
<1>2. CASE e.board[to] = PIECE_NONE
  <2>1. f = e
    BY <1>1, <1>2
  <2>2. [e.board EXCEPT ![to] = PIECE_NONE] = e.board
    BY <1>2 DEF BoardOK, Through
  <2> QED BY <1>1, <2>1, <2>2 DEF SameRest
<1>3. CASE e.board[to] # PIECE_NONE
  <2>1. PICK ct \in PieceType : e.board[to] = makePiece(them, ct)
    BY <1>3
  <2>2. Emptied(e, f, them, ct, to)
    BY <1>1, <1>3, <2>1, RemoveBoard DEF Through
  <2>3. Through(p, f)
    BY <2>2, ThroughEmptied
  <2> QED BY <1>1, <2>2, <2>3 DEF Emptied
<1> QED BY <1>2, <1>3

\* The other colour of the other colour.
LEMMA OtherColor == \A c \in Color : Other(c) \in Color /\ Other(c) # c /\ Other(Other(c)) = c
BY DEF Other, Color, WHITE, BLACK

DonePromotion(p, m, q) ==
    /\ Turned(p, m, q)
    /\ q.board = [p.board EXCEPT ![m.from] = PIECE_NONE, ![m.to] = makePiece(p.nextPlayer, m.prom)]
    /\ q.kingSquare = [p.kingSquare EXCEPT ![p.nextPlayer] = @]
    /\ q.castlingRights = p.castlingRights \ RightsTouched(m)
    /\ q.enPassantSquare = SQ_NONE
    /\ q.halfMoveClock = 0

\* A promotion, capturing or not.
LEMMA DoPromotion ==
  ASSUME NEW p, IsPosition(p), BoardOK(p), p.nextPlayer \in Color, NEW m,
         m.from \in Square, m.to \in Square, m.from # m.to, m.type = PROMOTION, PromotionShape(p, m)
  PROVE  DonePromotion(p, m, doMove(p, m))
<1> DEFINE us == p.nextPlayer
           rights == RightsTouched(m)
<1>1. PICK a : a = SaveState(p, m, p.board[m.from], p.board[m.to])
  OBVIOUS
<1>2. PICK b : b = IF a.board[m.to] # PIECE_NONE THEN removePiece(a, m.to) ELSE a
  OBVIOUS
<1>3. PICK c : c = DropRights(b, rights)
  OBVIOUS
<1>4. PICK d : d = clearEnPassant(c)
  OBVIOUS
<1>5. PICK e : e = removePiece(d, m.from)
  OBVIOUS
<1>6. PICK f : f = putPiece(e, makePiece(us, m.prom), m.to)
  OBVIOUS
<1>7. PICK g : g = SetClock(f, 0)
  OBVIOUS
<1>8. PICK q : q = SwitchPlayer(g)
  OBVIOUS
<1>9. /\ Through(p, a) /\ a.board = p.board /\ a.kingSquare = p.kingSquare
      /\ Rest(a, us, p.castlingRights, p.enPassantSquare, p.halfMoveClock,
              p.moveNumber, Append(p.historyState, Record(p, m)), p.hasCheckFlag)
  BY <1>1, SaveRecord
<1>10. doMove(p, m) = q
  <2>1. doMove(p, m) = SwitchPlayer(doPromotion(a, m))
    BY <1>1 DEF doMove, NORMAL, PROMOTION, ENPASSANT, CASTLING
  <2>2. doPromotion(a, m) = g
    <3>1. g = [putPiece(removePiece(d, m.from), makePiece(a.nextPlayer, m.prom), m.to) EXCEPT !.halfMoveClock = 0]
      BY <1>5, <1>6, <1>7, <1>9 DEF SetClock, Rest
    <3> QED BY <1>2, <1>3, <1>4, <3>1 DEF doPromotion
  <2> QED BY <1>8, <2>1, <2>2
<1>11. us \in Color /\ Other(us) \in Color /\ PAWN \in PieceType /\ m.prom \in PieceType /\ m.prom # KING
  BY OtherColor, TypeSets DEF PromotionShape, KNIGHT, QUEEN, KING, PAWN, PieceType
<1>12. Through(p, b) /\ b.board = [p.board EXCEPT ![m.to] = PIECE_NONE]
       /\ b.kingSquare = p.kingSquare /\ SameRest(a, b)
  BY <1>2, <1>9, <1>11, CaptureBoard DEF PromotionShape, LandsOn
<1>13. DropKeeps(b, c, rights)
  BY <1>3, <1>12, Drop DEF Through
<1>14. Through(p, c)
  BY <1>12, <1>13, ThroughKept DEF DropKeeps
<1>15. ClearKeeps(c, d)
  BY <1>4, <1>14, Clear DEF Through
<1>16. Through(p, d)
  BY <1>14, <1>15, ThroughKept DEF ClearKeeps
<1>17. /\ d.board = [p.board EXCEPT ![m.to] = PIECE_NONE] /\ d.kingSquare = p.kingSquare
       /\ d.nextPlayer = us /\ d.castlingRights = p.castlingRights \ rights /\ d.enPassantSquare = SQ_NONE
       /\ d.moveNumber = p.moveNumber /\ d.historyState = Append(p.historyState, Record(p, m))
  BY <1>9, <1>12, <1>13, <1>15 DEF Rest, SameRest, DropKeeps, ClearKeeps, Kept
<1>18. d.board[m.from] = makePiece(us, PAWN)
  BY <1>17 DEF PromotionShape, BoardOK
<1>19. Emptied(d, e, us, PAWN, m.from)
  BY <1>5, <1>11, <1>16, <1>18, RemoveBoard DEF Through
<1>20. Through(p, e)
  BY <1>11, <1>16, <1>19, ThroughEmptied
<1>21. e.board = [[p.board EXCEPT ![m.to] = PIECE_NONE] EXCEPT ![m.from] = PIECE_NONE]
  BY <1>17, <1>19 DEF Emptied
<1>22. e.board[m.to] = PIECE_NONE
  BY <1>21 DEF BoardOK
<1>23. Filled(e, f, us, m.prom, m.to)
  BY <1>6, <1>11, <1>20, <1>22, PutBoard DEF Through
<1>24. Ended(p, f)
  BY <1>20, <1>23, EndedFilled
<1>25. ClockKeeps(f, g, 0)
  BY <1>7, <1>24, Clock DEF Ended
<1>26. Ended(p, g)
  BY <1>24, <1>25, EndedKept DEF ClockKeeps
<1>27. g.nextPlayer = us /\ g.castlingRights = p.castlingRights \ rights /\ g.enPassantSquare = SQ_NONE
       /\ g.moveNumber = p.moveNumber /\ g.historyState = Append(p.historyState, Record(p, m))
       /\ g.halfMoveClock = 0
  BY <1>17, <1>19, <1>23, <1>25 DEF ClockKeeps, Rest, Filled, Emptied, SameRest
<1>28. g.board = [p.board EXCEPT ![m.from] = PIECE_NONE, ![m.to] = makePiece(us, m.prom)]
  <2>1. g.board = [e.board EXCEPT ![m.to] = makePiece(us, m.prom)]
    BY <1>23, <1>25 DEF ClockKeeps, Kept, Filled
  <2> QED BY <1>21, <2>1 DEF BoardOK
<1>29. g.kingSquare = [p.kingSquare EXCEPT ![us] = @]
  BY <1>11, <1>17, <1>19, <1>23, <1>25 DEF ClockKeeps, Kept, Filled, Emptied
<1>30. /\ Turned(p, m, q)
       /\ q.board = g.board /\ q.kingSquare = g.kingSquare
       /\ q.castlingRights = g.castlingRights /\ q.enPassantSquare = g.enPassantSquare
       /\ q.halfMoveClock = g.halfMoveClock
  BY <1>8, <1>26, <1>27, TurnedSwitch
<1> QED BY <1>10, <1>27, <1>28, <1>29, <1>30 DEF DonePromotion

DoneEnPassant(p, m, q) ==
    /\ Turned(p, m, q)
    /\ q.board = [p.board EXCEPT ![Behind(p, m)] = PIECE_NONE, ![m.from] = PIECE_NONE,
                                 ![m.to] = makePiece(p.nextPlayer, PAWN)]
    /\ q.kingSquare = [p.kingSquare EXCEPT ![p.nextPlayer] = @]
    /\ q.castlingRights = p.castlingRights
    /\ q.enPassantSquare = SQ_NONE
    /\ q.halfMoveClock = 0

\* An en passant capture.
LEMMA DoEnPassant ==
  ASSUME NEW p, IsPosition(p), BoardOK(p), p.nextPlayer \in Color, NEW m,
         m.from \in Square, m.to \in Square, m.from # m.to, m.type = ENPASSANT, EnPassantShape(p, m)
  PROVE  DoneEnPassant(p, m, doMove(p, m))
<1> DEFINE us == p.nextPlayer
           cap == Behind(p, m)
<1>1. PICK a : a = SaveState(p, m, p.board[m.from], p.board[m.to])
  OBVIOUS
<1>2. PICK b : b = clearEnPassant(a)
  OBVIOUS
<1>3. PICK c : c = removePiece(b, Behind(a, m))
  OBVIOUS
<1>4. PICK f : f = movePiece(c, m.from, m.to)
  OBVIOUS
<1>7. PICK g : g = SetClock(f, 0)
  OBVIOUS
<1>8. PICK q : q = SwitchPlayer(g)
  OBVIOUS
<1>9. /\ Through(p, a) /\ a.board = p.board /\ a.kingSquare = p.kingSquare
      /\ Rest(a, us, p.castlingRights, p.enPassantSquare, p.halfMoveClock,
              p.moveNumber, Append(p.historyState, Record(p, m)), p.hasCheckFlag)
  BY <1>1, SaveRecord
<1>10. doMove(p, m) = q
  <2>1. doMove(p, m) = SwitchPlayer(doEnPassant(a, m))
    BY <1>1 DEF doMove, NORMAL, PROMOTION, ENPASSANT, CASTLING
  <2>2. doEnPassant(a, m) = g
    <3>1. g = [movePiece(c, m.from, m.to) EXCEPT !.halfMoveClock = 0]
      BY <1>4, <1>7 DEF SetClock
    <3> QED BY <1>2, <1>3, <3>1 DEF doEnPassant, Behind
  <2> QED BY <1>8, <2>1, <2>2
<1>11. us \in Color /\ Other(us) \in Color /\ PAWN \in PieceType /\ PAWN # KING
       /\ cap \in Square /\ cap = Behind(a, m)
  BY <1>9, OtherColor DEF EnPassantShape, KING, PAWN, PieceType, QUEEN, Behind, Rest
<1>15. ClearKeeps(a, b)
  BY <1>2, <1>9, Clear DEF Through
<1>16. Through(p, b)
  BY <1>9, <1>15, ThroughKept DEF ClearKeeps
<1>17. /\ b.board = p.board /\ b.kingSquare = p.kingSquare
       /\ b.nextPlayer = us /\ b.castlingRights = p.castlingRights /\ b.enPassantSquare = SQ_NONE
       /\ b.moveNumber = p.moveNumber /\ b.historyState = Append(p.historyState, Record(p, m))
  BY <1>9, <1>15 DEF Rest, ClearKeeps, Kept
<1>18. b.board[cap] = makePiece(Other(us), PAWN)
  BY <1>17 DEF EnPassantShape
<1>19. Emptied(b, c, Other(us), PAWN, cap)
  BY <1>3, <1>11, <1>16, <1>18, RemoveBoard DEF Through
<1>20. Through(p, c)
  BY <1>11, <1>16, <1>19, ThroughEmptied
<1>21. c.board = [p.board EXCEPT ![cap] = PIECE_NONE] /\ c.kingSquare = p.kingSquare
  BY <1>17, <1>19 DEF Emptied
<1>22. makePiece(us, PAWN) # makePiece(Other(us), PAWN) /\ makePiece(us, PAWN) # PIECE_NONE
  BY <1>11, OtherColor, PieceFacts
<1>23. m.from # cap /\ m.to # cap
  BY <1>22, <1>11, PieceFacts DEF EnPassantShape
<1>24. c.board[m.from] = makePiece(us, PAWN) /\ c.board[m.to] = PIECE_NONE
  BY <1>21, <1>23 DEF EnPassantShape, BoardOK
<1>25. Relocated(c, f, us, PAWN, m.from, m.to) /\ Through(p, f)
  BY <1>4, <1>11, <1>20, <1>24, MoveBoard
<1>26. ClockKeeps(f, g, 0)
  BY <1>7, <1>25, Clock DEF Through
<1>27. Ended(p, g)
  BY <1>25, <1>26, ThroughKept, ThroughEnds DEF ClockKeeps
<1>28. g.nextPlayer = us /\ g.castlingRights = p.castlingRights /\ g.enPassantSquare = SQ_NONE
       /\ g.moveNumber = p.moveNumber /\ g.historyState = Append(p.historyState, Record(p, m))
       /\ g.halfMoveClock = 0
  BY <1>17, <1>19, <1>25, <1>26 DEF ClockKeeps, Rest, Relocated, Emptied, SameRest
<1>29. g.board = [p.board EXCEPT ![cap] = PIECE_NONE, ![m.from] = PIECE_NONE,
                                 ![m.to] = makePiece(us, PAWN)]
  BY <1>21, <1>25, <1>26 DEF ClockKeeps, Kept, Relocated
<1>30. g.kingSquare = [p.kingSquare EXCEPT ![us] = @]
  BY <1>11, <1>21, <1>25, <1>26 DEF ClockKeeps, Kept, Relocated
<1>31. /\ Turned(p, m, q)
       /\ q.board = g.board /\ q.kingSquare = g.kingSquare
       /\ q.castlingRights = g.castlingRights /\ q.enPassantSquare = g.enPassantSquare
       /\ q.halfMoveClock = g.halfMoveClock
  BY <1>8, <1>27, <1>28, TurnedSwitch
<1> QED BY <1>10, <1>28, <1>29, <1>30, <1>31 DEF DoneEnPassant

DoneCastling(p, m, q) ==
    /\ Turned(p, m, q)
    /\ q.board = [p.board EXCEPT ![m.from] = PIECE_NONE, ![m.to] = makePiece(p.nextPlayer, KING),
                                 ![rookCorner[m.to]] = PIECE_NONE,
                                 ![rookCrossing[m.to]] = makePiece(p.nextPlayer, ROOK)]
    /\ q.kingSquare = [p.kingSquare EXCEPT ![p.nextPlayer] = m.to]
    /\ q.castlingRights = p.castlingRights \ Castling(p.nextPlayer)
    /\ q.enPassantSquare = SQ_NONE
    /\ q.halfMoveClock = p.halfMoveClock + 1

\* The squares of the four castlings.
LEMMA CastlingSquares ==
  ASSUME NEW p, p.nextPlayer \in Color, NEW m, CastlingShape(p, m)
  PROVE  /\ rookCorner[m.to] \in Square /\ rookCrossing[m.to] \in Square
         /\ m.from \in Square /\ m.to \in Square
         /\ rookCorner[m.to] \notin {m.from, m.to, rookCrossing[m.to]}
         /\ rookCrossing[m.to] \notin {m.from, m.to}
         /\ m.from # m.to
<1>1. m.to \in castlingTarget
  BY DEF CastlingShape, castlingTarget
<1>2. /\ rookCorner[m.to] = IF m.to \in {G1, G8} THEN m.to + EAST ELSE m.to + 2 * WEST
      /\ rookCrossing[m.to] = IF m.to \in {G1, G8} THEN m.to + WEST ELSE m.to + EAST
  BY <1>1 DEF rookCorner, rookCrossing
<1>3. \/ m.from = 4 /\ m.to = 6
      \/ m.from = 4 /\ m.to = 2
      \/ m.from = 60 /\ m.to = 62
      \/ m.from = 60 /\ m.to = 58
  <2>1. m.from = (IF p.nextPlayer = WHITE THEN E1 ELSE E8)
        /\ m.to \in (IF p.nextPlayer = WHITE THEN {G1, C1} ELSE {G8, C8})
    BY DEF CastlingShape
  <2>2. E1 = 4 /\ E8 = 60 /\ G1 = 6 /\ C1 = 2 /\ G8 = 62 /\ C8 = 58
    BY DEF E1, E8, G1, C1, G8, C8
  <2>3. CASE p.nextPlayer = WHITE
    <3>1. m.from = E1 /\ (m.to = G1 \/ m.to = C1)
      BY <2>1, <2>3
    <3> QED BY <2>2, <3>1
  <2>4. CASE p.nextPlayer # WHITE
    <3>1. m.from = E8 /\ (m.to = G8 \/ m.to = C8)
      BY <2>1, <2>4
    <3> QED BY <2>2, <3>1
  <2> QED BY <2>3, <2>4
<1>4. G1 = 6 /\ G8 = 62 /\ EAST = 1 /\ WEST = -1
  BY DEF G1, G8, EAST, WEST
<1>5. CASE m.from = 4 /\ m.to = 6
  <2>1. rookCorner[m.to] = 7 /\ rookCrossing[m.to] = 5
    BY <1>2, <1>4, <1>5
  <2> QED BY <1>5, <2>1 DEF Square
<1>6. CASE m.from = 4 /\ m.to = 2
  <2>1. rookCorner[m.to] = 0 /\ rookCrossing[m.to] = 3
    BY <1>2, <1>4, <1>6
  <2> QED BY <1>6, <2>1 DEF Square
<1>7. CASE m.from = 60 /\ m.to = 62
  <2>1. rookCorner[m.to] = 63 /\ rookCrossing[m.to] = 61
    BY <1>2, <1>4, <1>7
  <2> QED BY <1>7, <2>1 DEF Square
<1>8. CASE m.from = 60 /\ m.to = 58
  <2>1. rookCorner[m.to] = 56 /\ rookCrossing[m.to] = 59
    BY <1>2, <1>4, <1>8
  <2> QED BY <1>8, <2>1 DEF Square
<1> QED BY <1>3, <1>5, <1>6, <1>7, <1>8

\* A castling, king and rook.
LEMMA DoCastling ==
  ASSUME NEW p, IsPosition(p), BoardOK(p), p.nextPlayer \in Color, NEW m,
         m.type = CASTLING, CastlingShape(p, m), p.kingSquare \in [Color -> Int]
  PROVE  DoneCastling(p, m, doMove(p, m))
<1> DEFINE us == p.nextPlayer
           corner == rookCorner[m.to]
           crossing == rookCrossing[m.to]
<1>1. PICK a : a = SaveState(p, m, p.board[m.from], p.board[m.to])
  OBVIOUS
<1>2. PICK b : b = movePiece(a, m.from, m.to)
  OBVIOUS
<1>3. PICK c : c = movePiece(b, corner, crossing)
  OBVIOUS
<1>4. PICK d : d = DropRights(c, Castling(us))
  OBVIOUS
<1>5. PICK f : f = clearEnPassant(d)
  OBVIOUS
<1>7. PICK g : g = SetClock(f, f.halfMoveClock + 1)
  OBVIOUS
<1>8. PICK q : q = SwitchPlayer(g)
  OBVIOUS
<1>9. /\ Through(p, a) /\ a.board = p.board /\ a.kingSquare = p.kingSquare
      /\ Rest(a, us, p.castlingRights, p.enPassantSquare, p.halfMoveClock,
              p.moveNumber, Append(p.historyState, Record(p, m)), p.hasCheckFlag)
  BY <1>1, SaveRecord
<1>10. doMove(p, m) = q
  <2>1. doMove(p, m) = SwitchPlayer(doCastling(a, m))
    BY <1>1 DEF doMove, NORMAL, PROMOTION, ENPASSANT, CASTLING
  <2>2. doCastling(a, m) = g
    <3>1. a.nextPlayer = us
      BY <1>9 DEF Rest
    <3>2. g = [f EXCEPT !.halfMoveClock = @ + 1]
      BY <1>7 DEF SetClock
    <3> QED BY <1>2, <1>3, <1>4, <1>5, <3>1, <3>2 DEF doCastling
  <2> QED BY <1>8, <2>1, <2>2
<1>11. KING \in PieceType /\ ROOK \in PieceType /\ ROOK # KING
  BY DEF KING, ROOK, PieceType, QUEEN
<1>12. /\ corner \in Square /\ crossing \in Square
       /\ m.from \in Square /\ m.to \in Square
       /\ corner # m.from /\ corner # m.to /\ corner # crossing
       /\ crossing # m.from /\ crossing # m.to /\ m.from # m.to
  BY CastlingSquares
<1>13. a.board[m.from] = makePiece(us, KING) /\ a.board[m.to] = PIECE_NONE
  BY <1>9 DEF CastlingShape
<1>14. Relocated(a, b, us, KING, m.from, m.to) /\ Through(p, b)
  BY <1>2, <1>9, <1>11, <1>12, <1>13, MoveBoard
<1>15. b.board = [p.board EXCEPT ![m.from] = PIECE_NONE, ![m.to] = makePiece(us, KING)]
  BY <1>9, <1>14 DEF Relocated
<1>16. b.board[corner] = makePiece(us, ROOK) /\ b.board[crossing] = PIECE_NONE
  <2>1. p.board[corner] = makePiece(us, ROOK) /\ p.board[crossing] = PIECE_NONE
    BY DEF CastlingShape
  <2> QED BY <1>12, <1>15, <2>1 DEF BoardOK
<1>17. Relocated(b, c, us, ROOK, corner, crossing) /\ Through(p, c)
  BY <1>3, <1>11, <1>12, <1>14, <1>16, MoveBoard
<1>18. DropKeeps(c, d, Castling(us)) /\ Through(p, d)
  <2>1. DropKeeps(c, d, Castling(us))
    BY <1>4, <1>17, Drop DEF Through
  <2> QED BY <1>17, <2>1, ThroughKept DEF DropKeeps
<1>19. ClearKeeps(d, f) /\ Through(p, f)
  <2>1. ClearKeeps(d, f)
    BY <1>5, <1>18, Clear DEF Through
  <2> QED BY <1>18, <2>1, ThroughKept DEF ClearKeeps
<1>20. ClockKeeps(f, g, f.halfMoveClock + 1) /\ Ended(p, g)
  <2>1. ClockKeeps(f, g, f.halfMoveClock + 1)
    BY <1>7, <1>19, Clock DEF Through
  <2> QED BY <1>19, <2>1, ThroughKept, ThroughEnds DEF ClockKeeps
<1>21. g.nextPlayer = us /\ g.castlingRights = p.castlingRights \ Castling(us) /\ g.enPassantSquare = SQ_NONE
       /\ g.moveNumber = p.moveNumber /\ g.historyState = Append(p.historyState, Record(p, m))
       /\ g.halfMoveClock = p.halfMoveClock + 1
  <2>1. c.nextPlayer = us /\ c.castlingRights = p.castlingRights
        /\ c.moveNumber = p.moveNumber /\ c.historyState = Append(p.historyState, Record(p, m))
        /\ c.halfMoveClock = p.halfMoveClock
    BY <1>9, <1>14, <1>17 DEF Relocated, SameRest, Rest
  <2>2. d.nextPlayer = us /\ d.castlingRights = p.castlingRights \ Castling(us)
        /\ d.moveNumber = p.moveNumber /\ d.historyState = Append(p.historyState, Record(p, m))
        /\ d.halfMoveClock = p.halfMoveClock
    BY <1>18, <2>1 DEF DropKeeps, Rest
  <2> QED BY <1>19, <1>20, <2>2 DEF ClearKeeps, ClockKeeps, Rest
<1>22. g.board = c.board /\ g.kingSquare = c.kingSquare
  BY <1>18, <1>19, <1>20 DEF DropKeeps, ClearKeeps, ClockKeeps, Kept
<1>23. g.board = [p.board EXCEPT ![m.from] = PIECE_NONE, ![m.to] = makePiece(us, KING),
                                 ![corner] = PIECE_NONE, ![crossing] = makePiece(us, ROOK)]
  BY <1>15, <1>17, <1>22 DEF Relocated
<1>24. g.kingSquare = [p.kingSquare EXCEPT ![us] = m.to]
  <2>1. b.kingSquare = [p.kingSquare EXCEPT ![us] = m.to]
    BY <1>9, <1>14 DEF Relocated
  <2>2. c.kingSquare = [b.kingSquare EXCEPT ![us] = @]
    BY <1>11, <1>17 DEF Relocated
  <2> QED BY <1>22, <2>1, <2>2
<1>31. /\ Turned(p, m, q)
       /\ q.board = g.board /\ q.kingSquare = g.kingSquare
       /\ q.castlingRights = g.castlingRights /\ q.enPassantSquare = g.enPassantSquare
       /\ q.halfMoveClock = g.halfMoveClock
  <2>1. g.nextPlayer = p.nextPlayer /\ g.moveNumber = p.moveNumber
        /\ g.historyState = Append(p.historyState, Record(p, m))
    BY <1>21
  <2> HIDE DEF corner, crossing
  <2> QED BY <1>8, <1>20, <2>1, TurnedSwitch
<1> QED BY <1>10, <1>21, <1>23, <1>24, <1>31 DEF DoneCastling

-----------------------------------------------------------------------------
IsHistory(h) == \E T : h \in Seq(T)

\* The last entry of a history and the history before it.
LEMMA AppendFacts ==
  ASSUME NEW h, IsHistory(h), NEW e
  PROVE  /\ Last(Append(h, e)) = e /\ Front(Append(h, e)) = h
         /\ IsHistory(Append(h, e)) /\ Len(Append(h, e)) = Len(h) + 1 /\ Len(h) \in Nat
<1>1. PICK T : h \in Seq(T)
  BY DEF IsHistory
<1>2. h \in Seq(T \cup {e})
  BY <1>1
<1>3. Append(h, e) \in Seq(T \cup {e}) /\ Len(Append(h, e)) = Len(h) + 1 /\ Len(h) \in Nat
  BY <1>2
<1>4. Last(Append(h, e)) = e
  BY <1>2, <1>3 DEF Last
<1>5. Front(Append(h, e)) = h
  BY <1>2, <1>3 DEF Front
<1> QED BY <1>3, <1>4, <1>5 DEF IsHistory

(* Two positions that differ at most in the game phase. *)
Alike(p, q) ==
    /\ IsPosition(q)
    /\ \A x \in Fields \ {"gamePhase"} : q[x] = p[x]

\* Two positions are alike if the fields agree one by one.
LEMMA AlikeIs ==
  ASSUME NEW p, IsPosition(p), NEW q, IsPosition(q),
         q.board = p.board, q.nextPlayer = p.nextPlayer, q.castlingRights = p.castlingRights,
         q.enPassantSquare = p.enPassantSquare, q.halfMoveClock = p.halfMoveClock,
         q.moveNumber = p.moveNumber, q.historyState = p.historyState, q.kingSquare = p.kingSquare,
         q.piecesBb = p.piecesBb, q.occupiedBb = p.occupiedBb, q.zobristKey = p.zobristKey,
         q.pawnKey = p.pawnKey, q.material = p.material, q.materialNonPawn = p.materialNonPawn,
         q.hasCheckFlag = p.hasCheckFlag
  PROVE  Alike(p, q)
<1>1. ASSUME NEW x \in Fields \ {"gamePhase"} PROVE q[x] = p[x]
  <2>1. \/ x \in {"board", "nextPlayer", "castlingRights", "enPassantSquare", "halfMoveClock"}
        \/ x \in {"moveNumber", "historyState", "kingSquare", "piecesBb", "occupiedBb"}
        \/ x \in {"zobristKey", "pawnKey", "material", "materialNonPawn", "hasCheckFlag"}
    BY <1>1 DEF Fields
  <2>2. CASE x \in {"board", "nextPlayer", "castlingRights", "enPassantSquare", "halfMoveClock"}
    BY <2>2
  <2>3. CASE x \in {"moveNumber", "historyState", "kingSquare", "piecesBb", "occupiedBb"}
    BY <2>3
  <2>4. CASE x \in {"zobristKey", "pawnKey", "material", "materialNonPawn", "hasCheckFlag"}
    BY <2>4
  <2> QED BY <2>1, <2>2, <2>3, <2>4
<1> QED BY <1>1 DEF Alike

\* The fields that agree in positions that are alike.
LEMMA AlikeFields ==
  ASSUME NEW p, NEW q, Alike(p, q)
  PROVE  /\ q.board = p.board /\ q.nextPlayer = p.nextPlayer /\ q.castlingRights = p.castlingRights
         /\ q.enPassantSquare = p.enPassantSquare /\ q.halfMoveClock = p.halfMoveClock
         /\ q.moveNumber = p.moveNumber /\ q.historyState = p.historyState /\ q.kingSquare = p.kingSquare
         /\ q.piecesBb = p.piecesBb /\ q.occupiedBb = p.occupiedBb /\ q.zobristKey = p.zobristKey
         /\ q.pawnKey = p.pawnKey /\ q.material = p.material /\ q.materialNonPawn = p.materialNonPawn
         /\ q.hasCheckFlag = p.hasCheckFlag
BY DEF Alike, Fields

\* Positions that are alike differ in the game phase at most.
LEMMA AlikeExcept ==
  ASSUME NEW p, IsPosition(p), NEW q, Alike(p, q)
  PROVE  [q EXCEPT !.gamePhase = p.gamePhase] = p
<1>1. /\ DOMAIN p = Fields /\ p = [x \in Fields |-> p[x]]
      /\ DOMAIN q = Fields /\ q = [x \in Fields |-> q[x]]
  BY DEF Alike, IsPosition
<1> DEFINE r == [q EXCEPT !.gamePhase = p.gamePhase]
<1>2. DOMAIN r = Fields /\ r = [x \in Fields |-> r[x]]
  BY <1>1
<1>3. \A x \in Fields : r[x] = p[x]
  BY <1>1 DEF Alike, Fields
<1> HIDE DEF r
<1>4. r = p
  BY <1>1, <1>2, <1>3
<1> QED BY <1>4 DEF r

(* RestoreState after the moves back. *)
BackIn(p, e, x) ==
    /\ IsPosition(x) /\ BoardOK(x)
    /\ x.board = p.board /\ x.kingSquare = p.kingSquare
    /\ x.nextPlayer = p.nextPlayer /\ x.moveNumber = p.moveNumber
    /\ x.historyState = Append(p.historyState, e)

\* The history gives back the fields that were saved.
LEMMA Restored ==
  ASSUME NEW p, IsPosition(p), BoardOK(p), IsHistory(p.historyState), NEW mv, NEW fp, NEW cp,
         NEW x, BackIn(p, Entry(p, mv, fp, cp), x)
  PROVE  Alike(p, RestoreState(x)) /\ RestoreState(x).gamePhase = x.gamePhase
<1>1. PICK r : r = RestoreState(x)
  OBVIOUS
<1>2. PICK e : e = Entry(p, mv, fp, cp)
  OBVIOUS
<1>3. Last(x.historyState) = e /\ Front(x.historyState) = p.historyState
  BY <1>2, AppendFacts DEF BackIn
<1>4. /\ e.castlingRights = p.castlingRights /\ e.enPassantSquare = p.enPassantSquare
      /\ e.halfMoveClock = p.halfMoveClock /\ e.zobristKey = p.zobristKey
      /\ e.pawnKey = p.pawnKey /\ e.hasCheckFlag = p.hasCheckFlag
  BY <1>2 DEF Entry
<1>5. /\ IsPosition(r)
      /\ r.board = x.board /\ r.kingSquare = x.kingSquare /\ r.piecesBb = x.piecesBb
      /\ r.occupiedBb = x.occupiedBb /\ r.material = x.material /\ r.materialNonPawn = x.materialNonPawn
      /\ r.gamePhase = x.gamePhase /\ r.pawnKey = e.pawnKey
      /\ Rest(r, x.nextPlayer, e.castlingRights, e.enPassantSquare, e.halfMoveClock, x.moveNumber,
              p.historyState, e.hasCheckFlag)
      /\ r.zobristKey = e.zobristKey
  BY <1>1, <1>3, RestoreFields DEF BackIn
<1>6. x.piecesBb = p.piecesBb /\ x.occupiedBb = p.occupiedBb /\ x.material = p.material
      /\ x.materialNonPawn = p.materialNonPawn
  <2>1. /\ \A c, pt : Placed(x, c, pt) = Placed(p, c, pt)
        /\ \A c : Own(x, c) = Own(p, c)
        /\ \A c, types : Worth(x, c, types) = Worth(p, c, types)
    BY SameBoards DEF BackIn
  <2> QED BY <2>1 DEF BoardOK, BackIn
<1>7. Alike(p, r)
  BY <1>4, <1>5, <1>6, AlikeIs DEF BackIn, Rest
<1> QED BY <1>1, <1>5, <1>7

\* The start of an undo gives back the player and the move number.
LEMMA Previous ==
  ASSUME NEW p, p.nextPlayer \in Color, p.moveNumber \in Int,
         NEW q, IsPosition(q), BoardOK(q), q.nextPlayer = Other(p.nextPlayer),
         q.moveNumber = p.moveNumber + p.nextPlayer
  PROVE  LET r == PreviousPlayer(q)
         IN /\ Kept(q, r) /\ r.nextPlayer = p.nextPlayer /\ r.moveNumber = p.moveNumber
            /\ r.historyState = q.historyState
<1>1. PICK r : r = PreviousPlayer(q)
  OBVIOUS
<1>2. /\ IsPosition(r) /\ SameBoard(q, r)
      /\ r.nextPlayer = Other(q.nextPlayer) /\ r.moveNumber = q.moveNumber - Other(q.nextPlayer)
      /\ r.historyState = q.historyState
  BY <1>1, PreviousFields DEF Rest
<1>3. Kept(q, r)
  BY <1>2, KeptIs
<1>4. p.nextPlayer \in Int
  BY DEF Color, WHITE, BLACK
<1>5. r.nextPlayer = p.nextPlayer /\ r.moveNumber = p.moveNumber
  BY <1>2, <1>4, OtherColor
<1> QED BY <1>1, <1>2, <1>3, <1>5

-----------------------------------------------------------------------------
KingsKnown(p) ==
    /\ p.kingSquare \in [Color -> Int]
    /\ \A c \in Color, s \in Square : p.board[s] = makePiece(c, KING) => p.kingSquare[c] = s
Ready(p) ==
    /\ IsPosition(p) /\ BoardOK(p) /\ KingsKnown(p)
    /\ p.nextPlayer \in Color /\ p.moveNumber \in Int /\ IsHistory(p.historyState)

\* The captured piece comes back to the square it was taken on.
LEMMA PutBack ==
  ASSUME NEW o, NEW b, Through(o, b), NEW them \in Color, NEW to \in Square, b.board[to] = PIECE_NONE,
         NEW cp, \/ cp = PIECE_NONE
                 \/ \E ct \in PieceType : cp = makePiece(them, ct),
         cp = makePiece(them, KING) => b.kingSquare[them] = to,
         b.kingSquare \in [Color -> Int]
  PROVE  LET x == putCaptured(b, cp, to)
         IN /\ Ended(o, x) /\ SameRest(b, x)
            /\ x.board = [b.board EXCEPT ![to] = cp]
            /\ x.kingSquare = b.kingSquare
<1>1. PICK x : x = putCaptured(b, cp, to)
  OBVIOUS
<1>2. CASE cp = PIECE_NONE
  <2>1. x = b
    BY <1>1, <1>2 DEF putCaptured
  <2>2. [b.board EXCEPT ![to] = cp] = b.board
    BY <1>2 DEF Through, BoardOK
  <2> QED BY <1>1, <2>1, <2>2, ThroughEnds DEF SameRest
<1>3. CASE cp # PIECE_NONE
  <2>1. PICK ct \in PieceType : cp = makePiece(them, ct)
    BY <1>3
  <2>2. x = putPiece(b, makePiece(them, ct), to)
    BY <1>1, <1>3, <2>1 DEF putCaptured
  <2>3. Filled(b, x, them, ct, to)
    BY <2>2, PutBoard DEF Through
  <2>4. Ended(o, x)
    BY <2>3, EndedFilled
  <2>5. x.kingSquare = b.kingSquare
    <3>1. x.kingSquare = [b.kingSquare EXCEPT ![them] = IF ct = KING THEN to ELSE @]
      BY <2>3 DEF Filled
    <3>2. ct = KING => b.kingSquare[them] = to
      BY <2>1
    <3> QED BY <3>1, <3>2
  <2> QED BY <1>1, <2>1, <2>3, <2>4, <2>5 DEF Filled
<1> QED BY <1>2, <1>3

Turn(p, m, q) ==
    /\ q.nextPlayer = Other(p.nextPlayer)
    /\ q.moveNumber = p.moveNumber + p.nextPlayer
    /\ q.historyState = Append(p.historyState, Record(p, m))
Undone(p, q, r) ==
    /\ Alike(p, r)
    /\ PhaseGood(q) /\ PhaseOf(p) <= GAME_PHASE_MAX => PhaseGood(r)

\* What is alike after the pieces are back and the history is read.
LEMMA UndoneIs ==
  ASSUME NEW p, Ready(p), NEW m, NEW q, NEW o, PhaseGood(q) => PhaseGood(o),
         NEW x, Ended(o, x), BackIn(p, Record(p, m), x)
  PROVE  Undone(p, q, RestoreState(x))
<1>1. PICK r : r = RestoreState(x)
  OBVIOUS
<1>2. Alike(p, r) /\ r.gamePhase = x.gamePhase
  BY <1>1, Restored DEF Ready, Record
<1>3. r.board = p.board /\ x.board = p.board
  BY <1>2, AlikeFields DEF BackIn
<1>4. PhaseOf(r) = PhaseOf(p) /\ PhaseOf(x) = PhaseOf(p)
  BY <1>3, SameBoards
<1> QED BY <1>1, <1>2, <1>4 DEF Undone, PhaseGood, PhaseIn, Ended

\* The undo of a move starts with the entry of that move.
LEMMA UndoStarts ==
  ASSUME NEW p, Ready(p), NEW m, NEW q, IsPosition(q), BoardOK(q), Turn(p, m, q)
  PROVE  LET r == PreviousPlayer(q)
         IN /\ Through(r, r) /\ (PhaseGood(q) => PhaseGood(r))
            /\ r.board = q.board /\ r.kingSquare = q.kingSquare
            /\ r.nextPlayer = p.nextPlayer /\ r.moveNumber = p.moveNumber
            /\ r.historyState = Append(p.historyState, Record(p, m))
            /\ Last(q.historyState).move = m
            /\ Last(q.historyState).capturedPiece = p.board[m.to]
<1>1. PICK r : r = PreviousPlayer(q)
  OBVIOUS
<1>2. Kept(q, r) /\ r.nextPlayer = p.nextPlayer /\ r.moveNumber = p.moveNumber
      /\ r.historyState = q.historyState
  BY <1>1, Previous DEF Ready, Turn
<1>4. Last(q.historyState) = Record(p, m)
  BY AppendFacts DEF Turn, Ready
<1>5. Record(p, m).move = m /\ Record(p, m).capturedPiece = p.board[m.to]
  BY DEF Record, Entry
<1> QED BY <1>1, <1>2, <1>4, <1>5 DEF Through, Kept, PhaseGood, Turn

IsNormal(p, m, q, t) ==
    /\ q.board = [p.board EXCEPT ![m.from] = PIECE_NONE, ![m.to] = makePiece(p.nextPlayer, t)]
    /\ q.kingSquare = [p.kingSquare EXCEPT ![p.nextPlayer] = IF t = KING THEN m.to ELSE @]

\* undoMove of a normal move.
LEMMA UndoNormal ==
  ASSUME NEW p, Ready(p), NEW m,
         m.from \in Square, m.to \in Square, m.from # m.to, m.type = NORMAL, NormalShape(p, m),
         NEW t \in PieceType, p.board[m.from] = makePiece(p.nextPlayer, t),
         NEW q, IsPosition(q), BoardOK(q), Turn(p, m, q), IsNormal(p, m, q, t)
  PROVE  Undone(p, q, undoMove(q))
<1> DEFINE us == p.nextPlayer
           cp == p.board[m.to]
<1>1. PICK a : a = PreviousPlayer(q)
  OBVIOUS
<1>2. PICK b : b = movePiece(a, m.to, m.from)
  OBVIOUS
<1>3. PICK x : x = putCaptured(b, cp, m.to)
  OBVIOUS
<1>4. /\ Through(a, a) /\ (PhaseGood(q) => PhaseGood(a))
      /\ a.board = q.board /\ a.kingSquare = q.kingSquare
      /\ a.nextPlayer = p.nextPlayer /\ a.moveNumber = p.moveNumber
      /\ a.historyState = Append(p.historyState, Record(p, m))
      /\ Last(q.historyState).move = m
      /\ Last(q.historyState).capturedPiece = cp
  BY <1>1, UndoStarts
<1>5. undoMove(q) = RestoreState(x)
  BY <1>1, <1>2, <1>3, <1>4 DEF undoMove, NORMAL, PROMOTION, ENPASSANT, CASTLING
<1>6. us \in Color /\ Other(us) \in Color /\ Other(us) # us
  BY OtherColor DEF Ready
<1>7. p.board \in [Square -> Piece \cup {PIECE_NONE}] /\ p.kingSquare \in [Color -> Int]
  BY DEF Ready, BoardOK, KingsKnown
<1>8. a.board[m.to] = makePiece(us, t) /\ a.board[m.from] = PIECE_NONE
  BY <1>4, <1>7 DEF IsNormal
<1>9. Relocated(a, b, us, t, m.to, m.from) /\ Through(a, b)
  BY <1>2, <1>4, <1>6, <1>8, MoveBoard
<1>10. b.board = [[p.board EXCEPT ![m.from] = PIECE_NONE, ![m.to] = makePiece(us, t)]
                   EXCEPT ![m.to] = PIECE_NONE, ![m.from] = makePiece(us, t)]
  BY <1>4, <1>9 DEF Relocated, IsNormal
<1>11. b.board[m.to] = PIECE_NONE
  BY <1>7, <1>10
<1>12. b.kingSquare = p.kingSquare
  <2>1. b.kingSquare = [[p.kingSquare EXCEPT ![us] = IF t = KING THEN m.to ELSE @]
                          EXCEPT ![us] = IF t = KING THEN m.from ELSE @]
    BY <1>4, <1>9 DEF Relocated, IsNormal
  <2>2. t = KING => p.kingSquare[us] = m.from
    BY <1>6 DEF Ready, KingsKnown
  <2> QED BY <1>6, <1>7, <2>1, <2>2
<1>13. cp = makePiece(Other(us), KING) => b.kingSquare[Other(us)] = m.to
  BY <1>6, <1>12 DEF Ready, KingsKnown
<1>14. cp = PIECE_NONE \/ \E ct \in PieceType : cp = makePiece(Other(us), ct)
  BY DEF NormalShape, LandsOn
<1>15. /\ Ended(a, x) /\ SameRest(b, x)
       /\ x.board = [b.board EXCEPT ![m.to] = cp]
       /\ x.kingSquare = b.kingSquare
  BY <1>3, <1>6, <1>7, <1>9, <1>11, <1>12, <1>13, <1>14, PutBack
<1>16. x.board = p.board
  BY <1>7, <1>10, <1>15
<1>17. BackIn(p, Record(p, m), x)
  BY <1>4, <1>9, <1>12, <1>15, <1>16 DEF BackIn, Ended, SameRest, Relocated
<1> QED BY <1>4, <1>5, <1>15, <1>17, UndoneIs

IsPromotion(p, m, q) ==
    /\ q.board = [p.board EXCEPT ![m.from] = PIECE_NONE, ![m.to] = makePiece(p.nextPlayer, m.prom)]
    /\ q.kingSquare = [p.kingSquare EXCEPT ![p.nextPlayer] = @]

\* undoMove of a promotion.
LEMMA UndoPromotion ==
  ASSUME NEW p, Ready(p), NEW m,
         m.from \in Square, m.to \in Square, m.from # m.to, m.type = PROMOTION, PromotionShape(p, m),
         NEW q, IsPosition(q), BoardOK(q), Turn(p, m, q), IsPromotion(p, m, q)
  PROVE  Undone(p, q, undoMove(q))
<1> DEFINE us == p.nextPlayer
           cp == p.board[m.to]
<1>1. PICK a : a = PreviousPlayer(q)
  OBVIOUS
<1>2. PICK c : c = removePiece(a, m.to)
  OBVIOUS
<1>3. PICK b : b = putPiece(c, makePiece(us, PAWN), m.from)
  OBVIOUS
<1>3a. PICK x : x = putCaptured(b, cp, m.to)
  OBVIOUS
<1>4. /\ Through(a, a) /\ (PhaseGood(q) => PhaseGood(a))
      /\ a.board = q.board /\ a.kingSquare = q.kingSquare
      /\ a.nextPlayer = p.nextPlayer /\ a.moveNumber = p.moveNumber
      /\ a.historyState = Append(p.historyState, Record(p, m))
      /\ Last(q.historyState).move = m
      /\ Last(q.historyState).capturedPiece = cp
  BY <1>1, UndoStarts
<1>5. undoMove(q) = RestoreState(x)
  BY <1>1, <1>2, <1>3, <1>3a, <1>4 DEF undoMove, NORMAL, PROMOTION, ENPASSANT, CASTLING
<1>6. us \in Color /\ Other(us) \in Color /\ Other(us) # us /\ PAWN \in PieceType /\ PAWN # KING
      /\ m.prom \in PieceType /\ phaseValue[PAWN] = 0
  BY OtherColor DEF Ready, PromotionShape, KNIGHT, QUEEN, KING, PAWN, PieceType, phaseValue
<1>7. p.board \in [Square -> Piece \cup {PIECE_NONE}] /\ p.kingSquare \in [Color -> Int]
  BY DEF Ready, BoardOK, KingsKnown
<1>8. a.board[m.to] = makePiece(us, m.prom) /\ a.board[m.from] = PIECE_NONE
  BY <1>4, <1>7 DEF IsPromotion
<1>9. Emptied(a, c, us, m.prom, m.to)
  BY <1>2, <1>4, <1>6, <1>8, RemoveBoard DEF Through
<1>9a. Through(a, c)
  BY <1>4, <1>6, <1>9, ThroughEmptied
<1>9b. c.board[m.from] = PIECE_NONE
  BY <1>8, <1>9 DEF Emptied, BoardOK
<1>9c. Filled(c, b, us, PAWN, m.from)
  BY <1>3, <1>6, <1>9a, <1>9b, PutBoard DEF Through
<1>9d. Through(a, b)
  <2>1. Ended(a, b)
    BY <1>9a, <1>9c, EndedFilled
  <2>2. PhaseOf(b) = PhaseOf(c)
    BY <1>6, <1>9c, PhaseNat DEF Filled
  <2> QED BY <1>9a, <2>1, <2>2 DEF Through, Ended, PhaseGood
<1>10. b.board = [[p.board EXCEPT ![m.from] = PIECE_NONE, ![m.to] = makePiece(us, m.prom)]
                   EXCEPT ![m.to] = PIECE_NONE, ![m.from] = makePiece(us, PAWN)]
  BY <1>4, <1>9, <1>9c DEF Emptied, Filled, IsPromotion
<1>11. b.board[m.to] = PIECE_NONE
  BY <1>7, <1>10
<1>12. b.kingSquare = p.kingSquare
  BY <1>4, <1>6, <1>7, <1>9, <1>9c DEF Emptied, Filled, IsPromotion
<1>13. cp = makePiece(Other(us), KING) => b.kingSquare[Other(us)] = m.to
  BY <1>6, <1>12 DEF Ready, KingsKnown
<1>14. cp = PIECE_NONE \/ \E ct \in PieceType : cp = makePiece(Other(us), ct)
  BY DEF PromotionShape, LandsOn
<1>15. /\ Ended(a, x) /\ SameRest(b, x)
       /\ x.board = [b.board EXCEPT ![m.to] = cp]
       /\ x.kingSquare = b.kingSquare
  BY <1>3a, <1>6, <1>7, <1>9d, <1>11, <1>12, <1>13, <1>14, PutBack
<1>16. x.board = p.board
  BY <1>7, <1>10, <1>15 DEF PromotionShape
<1>17. BackIn(p, Record(p, m), x)
  BY <1>4, <1>9, <1>9c, <1>12, <1>15, <1>16 DEF BackIn, Ended, SameRest, Emptied, Filled
<1> QED BY <1>4, <1>5, <1>15, <1>17, UndoneIs

IsEnPassant(p, m, q) ==
    /\ q.board = [p.board EXCEPT ![Behind(p, m)] = PIECE_NONE, ![m.from] = PIECE_NONE,
                                 ![m.to] = makePiece(p.nextPlayer, PAWN)]
    /\ q.kingSquare = [p.kingSquare EXCEPT ![p.nextPlayer] = @]

\* undoMove of an en passant capture.
LEMMA UndoEnPassant ==
  ASSUME NEW p, Ready(p), NEW m,
         m.from \in Square, m.to \in Square, m.from # m.to, m.type = ENPASSANT, EnPassantShape(p, m),
         NEW q, IsPosition(q), BoardOK(q), Turn(p, m, q), IsEnPassant(p, m, q)
  PROVE  Undone(p, q, undoMove(q))
<1> DEFINE us == p.nextPlayer
           them == Other(p.nextPlayer)
           cap == Behind(p, m)
<1>1. PICK a : a = PreviousPlayer(q)
  OBVIOUS
<1>2. PICK b : b = movePiece(a, m.to, m.from)
  OBVIOUS
<1>3. PICK x : x = putPiece(b, makePiece(them, PAWN), cap)
  OBVIOUS
<1>4. /\ Through(a, a) /\ (PhaseGood(q) => PhaseGood(a))
      /\ a.board = q.board /\ a.kingSquare = q.kingSquare
      /\ a.nextPlayer = p.nextPlayer /\ a.moveNumber = p.moveNumber
      /\ a.historyState = Append(p.historyState, Record(p, m))
      /\ Last(q.historyState).move = m
  BY <1>1, UndoStarts
<1>5. undoMove(q) = RestoreState(x)
  <2>1. cap = m.to + pawnPush(Other(a.nextPlayer)) /\ them = Other(a.nextPlayer)
    BY <1>4 DEF Behind
  <2> QED BY <1>1, <1>2, <1>3, <1>4, <2>1 DEF undoMove, NORMAL, PROMOTION, ENPASSANT, CASTLING
<1>6. us \in Color /\ them \in Color /\ them # us /\ PAWN \in PieceType /\ PAWN # KING /\ cap \in Square
  BY OtherColor DEF Ready, EnPassantShape, KING, PAWN, PieceType, QUEEN
<1>7. p.board \in [Square -> Piece \cup {PIECE_NONE}] /\ p.kingSquare \in [Color -> Int]
  BY DEF Ready, BoardOK, KingsKnown
<1>8. p.board[m.from] = makePiece(us, PAWN) /\ p.board[m.to] = PIECE_NONE /\ p.board[cap] = makePiece(them, PAWN)
  BY DEF EnPassantShape
<1>9. makePiece(us, PAWN) # makePiece(them, PAWN) /\ makePiece(them, PAWN) # PIECE_NONE
  BY <1>6, PieceFacts
<1>10. cap # m.from /\ cap # m.to
  BY <1>8, <1>9
<1>11. q.board = [p.board EXCEPT ![cap] = PIECE_NONE, ![m.from] = PIECE_NONE, ![m.to] = makePiece(us, PAWN)]
  BY DEF IsEnPassant
<1> HIDE DEF cap
<1>12. a.board[m.to] = makePiece(us, PAWN) /\ a.board[m.from] = PIECE_NONE
  BY <1>4, <1>6, <1>7, <1>11
<1>13. Relocated(a, b, us, PAWN, m.to, m.from) /\ Through(a, b)
  BY <1>2, <1>4, <1>6, <1>12, MoveBoard
<1>14. b.board = [q.board EXCEPT ![m.to] = PIECE_NONE, ![m.from] = makePiece(us, PAWN)]
  BY <1>4, <1>13 DEF Relocated
<1>15. b.board[cap] = PIECE_NONE
  BY <1>6, <1>7, <1>10, <1>11, <1>14
<1>16. Filled(b, x, them, PAWN, cap)
  BY <1>3, <1>6, <1>13, <1>15, PutBoard DEF Through
<1>17. Ended(a, x)
  BY <1>13, <1>16, EndedFilled
<1>18. x.board = p.board
  <2>1. x.board = [b.board EXCEPT ![cap] = makePiece(them, PAWN)]
    BY <1>16 DEF Filled
  <2> QED BY <1>6, <1>7, <1>8, <1>10, <1>11, <1>14, <2>1
<1>19. x.kingSquare = p.kingSquare
  BY <1>4, <1>6, <1>7, <1>13, <1>16 DEF Relocated, Filled, IsEnPassant
<1>20. BackIn(p, Record(p, m), x)
  BY <1>4, <1>13, <1>16, <1>17, <1>18, <1>19 DEF BackIn, Ended, SameRest, Relocated, Filled
<1> QED BY <1>4, <1>5, <1>17, <1>20, UndoneIs

IsCastling(p, m, q) ==
    /\ q.board = [p.board EXCEPT ![m.from] = PIECE_NONE, ![m.to] = makePiece(p.nextPlayer, KING),
                                 ![rookCorner[m.to]] = PIECE_NONE,
                                 ![rookCrossing[m.to]] = makePiece(p.nextPlayer, ROOK)]
    /\ q.kingSquare = [p.kingSquare EXCEPT ![p.nextPlayer] = m.to]

\* undoMove of a castling.
LEMMA UndoCastling ==
  ASSUME NEW p, Ready(p), NEW m, m.type = CASTLING, CastlingShape(p, m),
         NEW q, IsPosition(q), BoardOK(q), Turn(p, m, q), IsCastling(p, m, q)
  PROVE  Undone(p, q, undoMove(q))
<1> DEFINE us == p.nextPlayer
           corner == rookCorner[m.to]
           crossing == rookCrossing[m.to]
<1>1. PICK a : a = PreviousPlayer(q)
  OBVIOUS
<1>2. PICK b : b = movePiece(a, m.to, m.from)
  OBVIOUS
<1>3. PICK x : x = movePiece(b, crossing, corner)
  OBVIOUS
<1>4. /\ Through(a, a) /\ (PhaseGood(q) => PhaseGood(a))
      /\ a.board = q.board /\ a.kingSquare = q.kingSquare
      /\ a.nextPlayer = p.nextPlayer /\ a.moveNumber = p.moveNumber
      /\ a.historyState = Append(p.historyState, Record(p, m))
      /\ Last(q.historyState).move = m
  BY <1>1, UndoStarts
<1>5. undoMove(q) = RestoreState(x)
  BY <1>1, <1>2, <1>3, <1>4 DEF undoMove, NORMAL, PROMOTION, ENPASSANT, CASTLING
<1>6. us \in Color /\ KING \in PieceType /\ ROOK \in PieceType /\ ROOK # KING
  BY DEF Ready, KING, ROOK, PieceType, QUEEN
<1>7. p.board \in [Square -> Piece \cup {PIECE_NONE}] /\ p.kingSquare \in [Color -> Int]
  BY DEF Ready, BoardOK, KingsKnown
<1>8. /\ p.board[m.from] = makePiece(us, KING) /\ p.board[m.to] = PIECE_NONE
      /\ p.board[corner] = makePiece(us, ROOK) /\ p.board[crossing] = PIECE_NONE
  BY DEF CastlingShape
<1>9. /\ corner \in Square /\ crossing \in Square
      /\ m.from \in Square /\ m.to \in Square
      /\ corner # m.from /\ corner # m.to /\ corner # crossing
      /\ crossing # m.from /\ crossing # m.to /\ m.from # m.to
  BY <1>6, CastlingSquares
<1>10. q.board = [p.board EXCEPT ![m.from] = PIECE_NONE, ![m.to] = makePiece(us, KING),
                                 ![corner] = PIECE_NONE, ![crossing] = makePiece(us, ROOK)]
       /\ q.kingSquare = [p.kingSquare EXCEPT ![us] = m.to]
  BY DEF IsCastling
<1> HIDE DEF corner, crossing
<1>11. a.board[m.to] = makePiece(us, KING) /\ a.board[m.from] = PIECE_NONE
  BY <1>4, <1>7, <1>9, <1>10
<1>12. Relocated(a, b, us, KING, m.to, m.from) /\ Through(a, b)
  BY <1>2, <1>4, <1>6, <1>9, <1>11, MoveBoard
<1>13. b.board = [q.board EXCEPT ![m.to] = PIECE_NONE, ![m.from] = makePiece(us, KING)]
  BY <1>4, <1>12 DEF Relocated
<1>14. b.board[crossing] = makePiece(us, ROOK) /\ b.board[corner] = PIECE_NONE
  BY <1>7, <1>9, <1>10, <1>13
<1>15. Relocated(b, x, us, ROOK, crossing, corner) /\ Through(a, x)
  BY <1>3, <1>6, <1>9, <1>12, <1>14, MoveBoard
<1>16. x.board = p.board
  <2>1. x.board = [b.board EXCEPT ![crossing] = PIECE_NONE, ![corner] = makePiece(us, ROOK)]
    BY <1>15 DEF Relocated
  <2> QED BY <1>7, <1>8, <1>9, <1>10, <1>13, <2>1
<1>17. x.kingSquare = p.kingSquare
  <2>1. b.kingSquare = [q.kingSquare EXCEPT ![us] = m.from]
    BY <1>4, <1>12 DEF Relocated
  <2>2. x.kingSquare = [b.kingSquare EXCEPT ![us] = @]
    BY <1>6, <1>15 DEF Relocated
  <2>3. p.kingSquare[us] = m.from
    BY <1>6, <1>8, <1>9 DEF Ready, KingsKnown
  <2> QED BY <1>6, <1>7, <1>10, <2>1, <2>2, <2>3
<1>18. BackIn(p, Record(p, m), x)
  BY <1>4, <1>12, <1>15, <1>16, <1>17 DEF BackIn, SameRest, Relocated, Through
<1> QED BY <1>4, <1>5, <1>15, <1>18, UndoneIs, ThroughEnds

-----------------------------------------------------------------------------
(* A move made from p has led to q, whatever was remembered there since. *)
Linked(p, m, q) ==
    /\ Turn(p, m, q)
    /\ \/ /\ m.type = NORMAL
          /\ \E t \in PieceType : p.board[m.from] = makePiece(p.nextPlayer, t) /\ IsNormal(p, m, q, t)
       \/ m.type = PROMOTION /\ IsPromotion(p, m, q)
       \/ m.type = ENPASSANT /\ IsEnPassant(p, m, q)
       \/ m.type = CASTLING /\ IsCastling(p, m, q)

\* The types of moves differ.
LEMMA Types == /\ NORMAL # PROMOTION /\ NORMAL # ENPASSANT /\ NORMAL # CASTLING
               /\ PROMOTION # ENPASSANT /\ PROMOTION # CASTLING /\ ENPASSANT # CASTLING
BY DEF NORMAL, PROMOTION, ENPASSANT, CASTLING

\* doMove leads to a position that is linked to the one before.
LEMMA DoLinks ==
  ASSUME NEW p, Ready(p), NEW m, MoveShape(p, m)
  PROVE  Turned(p, m, doMove(p, m)) /\ Linked(p, m, doMove(p, m))
<1>1. PICK q : q = doMove(p, m)
  OBVIOUS
<1>2. IsPosition(p) /\ BoardOK(p) /\ p.nextPlayer \in Color /\ p.kingSquare \in [Color -> Int]
      /\ m.from \in Square /\ m.to \in Square /\ m.from # m.to
  BY DEF Ready, KingsKnown, MoveShape
<1>3. ASSUME Turned(p, m, q) PROVE Turn(p, m, q)
  BY <1>3 DEF Turned, Turn
<1>4. CASE m.type = NORMAL /\ NormalShape(p, m)
  <2>1. PICK t \in PieceType : p.board[m.from] = makePiece(p.nextPlayer, t)
    BY <1>4 DEF NormalShape
  <2>2. DoneNormal(p, m, q, t)
    BY <1>1, <1>2, <1>4, <2>1, DoNormal
  <2> QED BY <1>1, <1>3, <1>4, <2>1, <2>2 DEF DoneNormal, Linked, IsNormal
<1>5. CASE m.type = PROMOTION /\ PromotionShape(p, m)
  <2>1. DonePromotion(p, m, q)
    BY <1>1, <1>2, <1>5, DoPromotion
  <2> QED BY <1>1, <1>3, <1>5, <2>1 DEF DonePromotion, Linked, IsPromotion
<1>6. CASE m.type = ENPASSANT /\ EnPassantShape(p, m)
  <2>1. DoneEnPassant(p, m, q)
    BY <1>1, <1>2, <1>6, DoEnPassant
  <2> QED BY <1>1, <1>3, <1>6, <2>1 DEF DoneEnPassant, Linked, IsEnPassant
<1>7. CASE m.type = CASTLING /\ CastlingShape(p, m)
  <2>1. DoneCastling(p, m, q)
    BY <1>1, <1>2, <1>7, DoCastling
  <2> QED BY <1>1, <1>3, <1>7, <2>1 DEF DoneCastling, Linked, IsCastling
<1> QED BY <1>4, <1>5, <1>6, <1>7 DEF MoveShape

\* undoMove leads back from every position that is linked.
LEMMA UndoLinked ==
  ASSUME NEW p, Ready(p), NEW m, MoveShape(p, m),
         NEW q, IsPosition(q), BoardOK(q), Linked(p, m, q)
  PROVE  Undone(p, q, undoMove(q))
<1>1. Turn(p, m, q) /\ m.from \in Square /\ m.to \in Square /\ m.from # m.to
  BY DEF Linked, MoveShape
<1>2. CASE m.type = NORMAL /\ NormalShape(p, m)
  <2>1. PICK t \in PieceType : p.board[m.from] = makePiece(p.nextPlayer, t) /\ IsNormal(p, m, q, t)
    BY <1>2, Types DEF Linked
  <2> QED BY <1>1, <1>2, <2>1, UndoNormal
<1>3. CASE m.type = PROMOTION /\ PromotionShape(p, m)
  <2>1. IsPromotion(p, m, q)
    BY <1>3, Types DEF Linked
  <2> QED BY <1>1, <1>3, <2>1, UndoPromotion
<1>4. CASE m.type = ENPASSANT /\ EnPassantShape(p, m)
  <2>1. IsEnPassant(p, m, q)
    BY <1>4, Types DEF Linked
  <2> QED BY <1>1, <1>4, <2>1, UndoEnPassant
<1>5. CASE m.type = CASTLING /\ CastlingShape(p, m)
  <2>1. IsCastling(p, m, q)
    BY <1>5, Types DEF Linked
  <2> QED BY <1>1, <1>5, <2>1, UndoCastling
<1> QED BY <1>2, <1>3, <1>4, <1>5 DEF MoveShape

(* undoMove after doMove. *)
LEMMA UndoDo ==
  ASSUME NEW p, Ready(p), NEW m, MoveShape(p, m)
  PROVE  /\ RestoresAllButPhase(p, m)
         /\ PhaseGood(p) => RestoresPhase(p, m)
<1>1. PICK q : q = doMove(p, m)
  OBVIOUS
<1>2. Turned(p, m, q) /\ Linked(p, m, q)
  BY <1>1, DoLinks
<1>3. Ended(p, q)
  BY <1>2 DEF Turned
<1>4. PICK r : r = undoMove(q)
  OBVIOUS
<1>5. Undone(p, q, r)
  BY <1>2, <1>3, <1>4, UndoLinked DEF Ended
<1>6. RestoresAllButPhase(p, m)
  BY <1>1, <1>4, <1>5, AlikeExcept DEF RestoresAllButPhase, Undone, Ready
<1>7. ASSUME PhaseGood(p), PhaseOf(q) <= GAME_PHASE_MAX PROVE r.gamePhase = p.gamePhase
  <2>1. PhaseGood(r)
    BY <1>3, <1>5, <1>7 DEF Ended, Undone, PhaseGood
  <2>2. r.board = p.board
    BY <1>5, AlikeFields DEF Undone
  <2> QED BY <1>7, <2>1, <2>2, SameBoards DEF PhaseGood, PhaseIn
<1> QED BY <1>1, <1>4, <1>6, <1>7 DEF RestoresPhase

-----------------------------------------------------------------------------
(* What a position of a game keeps. *)

KingsOK(p) ==
    /\ p.kingSquare \in [Color -> Square]
    /\ \A c \in Color, s \in Square : p.board[s] = makePiece(c, KING) <=> s = p.kingSquare[c]
EnPassantOK(p) ==
    \/ p.enPassantSquare = SQ_NONE
    \/ LET them == Other(p.nextPlayer)
           pawnSq == p.enPassantSquare + pawnPush(them)
       IN /\ p.enPassantSquare \in Square
          /\ p.enPassantSquare \in Rank(pawnDoubleRank(them))
          /\ p.board[p.enPassantSquare] = PIECE_NONE
          /\ pawnSq \in Square
          /\ p.board[pawnSq] = makePiece(them, PAWN)
Good(p) ==
    /\ IsPosition(p) /\ BoardOK(p) /\ KingsOK(p) /\ RightsMatch(p) /\ EnPassantOK(p)
    /\ p.nextPlayer \in Color /\ p.moveNumber \in Int /\ IsHistory(p.historyState)

\* A sound position is ready for moves.
LEMMA GoodReady == ASSUME NEW p, Good(p) PROVE Ready(p)
BY DEF Good, Ready, KingsOK, KingsKnown, Square

\* A position like a sound one is sound.
LEMMA GoodAlike == ASSUME NEW p, Good(p), NEW q, Alike(p, q) PROVE Good(q)
<1>1. q.board = p.board
  BY AlikeFields
<1>2. /\ \A c, pt : Placed(q, c, pt) = Placed(p, c, pt)
      /\ \A c : Own(q, c) = Own(p, c)
      /\ \A c, types : Worth(q, c, types) = Worth(p, c, types)
      /\ \A types : PieceFeatures(q, types) = PieceFeatures(p, types)
  BY <1>1, SameBoards
<1>3. BoardOK(q)
  BY <1>2, AlikeFields DEF BoardOK, Good
<1>4. KingsOK(q)
  BY AlikeFields DEF KingsOK, Good
<1>5. RightsMatch(q)
  BY AlikeFields DEF RightsMatch, Good
<1>6. EnPassantOK(q)
  BY AlikeFields DEF EnPassantOK, Good
<1> QED BY <1>3, <1>4, <1>5, <1>6, AlikeFields DEF Good, Alike

-----------------------------------------------------------------------------
(* The squares and the pieces of the castling rights. *)
Home(c) == IF c = WHITE THEN E1 ELSE E8

\* A move from or to a home square of king or rook ends the right.
LEMMA RightsEnd ==
  ASSUME NEW c \in Color
  PROVE  /\ Home(c) \in Square /\ Home(c) + 3 \in Square /\ Home(c) - 4 \in Square
         /\ \A s \in {Home(c), Home(c) + 3} : OO(c) \in rightsOf[s]
         /\ \A s \in {Home(c), Home(c) - 4} : OOO(c) \in rightsOf[s]
<1>1. E1 = 4 /\ E8 = 60 /\ H1 = 7 /\ H8 = 63 /\ A1 = 0 /\ A8 = 56
  BY DEF E1, E8, H1, H8, A1, A8
<1>2. /\ Home(c) \in Square /\ Home(c) + 3 \in Square /\ Home(c) - 4 \in Square
      /\ {Home(c), Home(c) + 3} = (IF c = WHITE THEN {E1, H1} ELSE {E8, H8})
      /\ {Home(c), Home(c) - 4} = (IF c = WHITE THEN {E1, A1} ELSE {E8, A8})
  BY <1>1 DEF Home, Square
<1>3. ASSUME NEW s \in Square
      PROVE  rightsOf[s] =
               {OO(e) : e \in {d \in Color : s \in (IF d = WHITE THEN {E1, H1} ELSE {E8, H8})}}
               \cup {OOO(e) : e \in {d \in Color : s \in (IF d = WHITE THEN {E1, A1} ELSE {E8, A8})}}
  BY DEF rightsOf
<1>4. ASSUME NEW s \in {Home(c), Home(c) + 3} PROVE OO(c) \in rightsOf[s]
  BY <1>2, <1>3, <1>4
<1>5. ASSUME NEW s \in {Home(c), Home(c) - 4} PROVE OOO(c) \in rightsOf[s]
  BY <1>2, <1>3, <1>5
<1> QED BY <1>2, <1>4, <1>5

HomeKept(p, c, corner) == p.board[Home(c)] = makePiece(c, KING) /\ p.board[corner] = makePiece(c, ROOK)

\* RightsMatch by the home squares.
LEMMA RightsAre ==
  ASSUME NEW p
  PROVE  RightsMatch(p) <=>
           \A c \in Color : /\ OO(c) \in p.castlingRights => HomeKept(p, c, Home(c) + 3)
                            /\ OOO(c) \in p.castlingRights => HomeKept(p, c, Home(c) - 4)
BY DEF RightsMatch, Home, HomeKept

\* a move of a piece that touches neither king nor rook of a right
LEMMA RightsMoved ==
  ASSUME NEW p, RightsMatch(p), NEW m, m.from \in Square, m.to \in Square, NEW q,
         q.castlingRights = p.castlingRights \ RightsTouched(m),
         \A s \in Square : s # m.from /\ s # m.to => q.board[s] = p.board[s]
  PROVE  RightsMatch(q)
<1> SUFFICES ASSUME NEW c \in Color
             PROVE  /\ OO(c) \in q.castlingRights => HomeKept(q, c, Home(c) + 3)
                    /\ OOO(c) \in q.castlingRights => HomeKept(q, c, Home(c) - 4)
  BY RightsAre
<1>1. RightsTouched(m) = rightsOf[m.from] \cup rightsOf[m.to]
  BY DEF RightsTouched
<1>2. ASSUME OO(c) \in q.castlingRights PROVE HomeKept(q, c, Home(c) + 3)
  <2>1. OO(c) \in p.castlingRights /\ OO(c) \notin rightsOf[m.from] /\ OO(c) \notin rightsOf[m.to]
    BY <1>1, <1>2
  <2>2. \A s \in {Home(c), Home(c) + 3} : s \in Square /\ s # m.from /\ s # m.to
    BY <2>1, RightsEnd
  <2>3. HomeKept(p, c, Home(c) + 3)
    BY <2>1, RightsAre
  <2> QED BY <2>2, <2>3 DEF HomeKept
<1>3. ASSUME OOO(c) \in q.castlingRights PROVE HomeKept(q, c, Home(c) - 4)
  <2>1. OOO(c) \in p.castlingRights /\ OOO(c) \notin rightsOf[m.from] /\ OOO(c) \notin rightsOf[m.to]
    BY <1>1, <1>3
  <2>2. \A s \in {Home(c), Home(c) - 4} : s \in Square /\ s # m.from /\ s # m.to
    BY <2>1, RightsEnd
  <2>3. HomeKept(p, c, Home(c) - 4)
    BY <2>1, RightsAre
  <2> QED BY <2>2, <2>3 DEF HomeKept
<1> QED BY <1>2, <1>3

\* a move that changes no square with a king or a rook
LEMMA RightsStay ==
  ASSUME NEW p, RightsMatch(p), NEW q, q.castlingRights \subseteq p.castlingRights,
         \A c \in Color, s \in Square :
            p.board[s] \in {makePiece(c, KING), makePiece(c, ROOK)} => q.board[s] = p.board[s]
  PROVE  RightsMatch(q)
<1> SUFFICES ASSUME NEW c \in Color
             PROVE  /\ OO(c) \in q.castlingRights => HomeKept(q, c, Home(c) + 3)
                    /\ OOO(c) \in q.castlingRights => HomeKept(q, c, Home(c) - 4)
  BY RightsAre
<1>1. \A s \in Square : p.board[s] \in {makePiece(c, KING), makePiece(c, ROOK)} => q.board[s] = p.board[s]
  OBVIOUS
<1>2. /\ OO(c) \in p.castlingRights => HomeKept(p, c, Home(c) + 3)
      /\ OOO(c) \in p.castlingRights => HomeKept(p, c, Home(c) - 4)
  BY RightsAre
<1>3. Home(c) \in Square /\ Home(c) + 3 \in Square /\ Home(c) - 4 \in Square
  BY RightsEnd
<1>4. \A s \in Square : p.board[s] = makePiece(c, KING) \/ p.board[s] = makePiece(c, ROOK) => q.board[s] = p.board[s]
  BY <1>1
<1> QED BY <1>2, <1>3, <1>4 DEF HomeKept

\* Pieces differ in colour or in type.
LEMMA Kinds ==
  /\ \A c, d \in Color, s, t \in PieceType : makePiece(c, s) = makePiece(d, t) <=> c = d /\ s = t
  /\ \A c \in Color, t \in PieceType : makePiece(c, t) # PIECE_NONE
  /\ KING \in PieceType /\ PAWN \in PieceType /\ ROOK \in PieceType
  /\ KING # PAWN /\ KING # ROOK /\ ROOK # PAWN
<1>1. KING \in PieceType /\ PAWN \in PieceType /\ ROOK \in PieceType /\ KING # PAWN /\ KING # ROOK /\ ROOK # PAWN
  BY DEF KING, PAWN, ROOK, QUEEN, PieceType
<1> QED BY <1>1, PieceFacts

\* Kings, rights and en passant square after a normal move.
LEMMA StaysNormal ==
  ASSUME NEW p, Good(p), NEW m, m.from \in Square, m.to \in Square, m.from # m.to,
         NormalShape(p, m), p.board[m.to] # makePiece(Other(p.nextPlayer), KING),
         NEW t \in PieceType, p.board[m.from] = makePiece(p.nextPlayer, t),
         NEW q, DoneNormal(p, m, q, t)
  PROVE  KingsOK(q) /\ RightsMatch(q) /\ EnPassantOK(q)
<1> DEFINE us == p.nextPlayer
           them == Other(p.nextPlayer)
<1>1. us \in Color /\ them \in Color /\ them # us /\ Other(them) = us
  BY OtherColor DEF Good
<1>2. q.board = [p.board EXCEPT ![m.from] = PIECE_NONE, ![m.to] = makePiece(us, t)]
      /\ q.kingSquare = [p.kingSquare EXCEPT ![us] = IF t = KING THEN m.to ELSE @]
      /\ q.castlingRights = p.castlingRights \ RightsTouched(m)
      /\ q.enPassantSquare = (IF Double(p, m) THEN Behind(p, m) ELSE SQ_NONE)
      /\ q.nextPlayer = them
  BY DEF DoneNormal, Turned
<1>3. p.board \in [Square -> Piece \cup {PIECE_NONE}] /\ p.kingSquare \in [Color -> Square]
  BY DEF Good, BoardOK, KingsOK
<1>4. \A s \in Square : q.board[s] = IF s = m.to THEN makePiece(us, t)
                                     ELSE IF s = m.from THEN PIECE_NONE ELSE p.board[s]
  BY <1>2, <1>3
<1>5. KingsOK(q)
  <2>1. q.kingSquare \in [Color -> Square]
    BY <1>2, <1>3
  <2>2. ASSUME NEW c \in Color, NEW s \in Square
        PROVE  q.board[s] = makePiece(c, KING) <=> s = q.kingSquare[c]
    <3>1. \A z \in Square : p.board[z] = makePiece(c, KING) <=> z = p.kingSquare[c]
      BY DEF Good, KingsOK
    <3>2. makePiece(c, KING) # PIECE_NONE /\ (makePiece(us, t) = makePiece(c, KING) <=> c = us /\ t = KING)
      BY <1>1, Kinds
    <3>3. q.kingSquare[c] = IF c = us /\ t = KING THEN m.to ELSE p.kingSquare[c]
      BY <1>2, <1>3
    <3>4. q.board[s] = IF s = m.to THEN makePiece(us, t)
                       ELSE IF s = m.from THEN PIECE_NONE ELSE p.board[s]
      BY <1>4
    <3>5. CASE c = us /\ t = KING
      <4>1. p.kingSquare[c] = m.from
        BY <3>1, <3>5
      <4> QED BY <3>1, <3>2, <3>3, <3>4, <3>5, <4>1
    <3>6. CASE ~(c = us /\ t = KING)
      <4>1. p.board[m.from] # makePiece(c, KING)
        BY <3>2, <3>6
      <4>2. p.board[m.to] # makePiece(c, KING)
        <5>1. CASE c = us
          <6>1. p.board[m.to] = PIECE_NONE \/ \E ct \in PieceType : p.board[m.to] = makePiece(them, ct)
            BY DEF NormalShape, LandsOn
          <6>2. \A ct \in PieceType : makePiece(them, ct) # makePiece(c, KING)
            BY <1>1, <5>1, Kinds
          <6> QED BY <3>2, <6>1, <6>2
        <5>2. CASE c = them
          BY <5>2
        <5> QED BY <1>1, <5>1, <5>2 DEF Color, Other, WHITE, BLACK
      <4> QED BY <3>1, <3>2, <3>3, <3>4, <3>6, <4>1, <4>2
    <3> QED BY <3>5, <3>6
  <2> QED BY <2>1, <2>2 DEF KingsOK
<1>6. RightsMatch(q)
  <2>1. \A s \in Square : s # m.from /\ s # m.to => q.board[s] = p.board[s]
    BY <1>4
  <2>2. RightsMatch(p) /\ q.castlingRights = p.castlingRights \ RightsTouched(m)
    BY <1>2 DEF Good
  <2> QED BY <2>1, <2>2, RightsMoved
<1>7. EnPassantOK(q)
  <2>1. CASE ~Double(p, m)
    BY <1>2, <2>1 DEF EnPassantOK
  <2>2. CASE Double(p, m)
    <3> DEFINE b == Behind(p, m)
    <3>1. q.enPassantSquare = b /\ b \in Square /\ p.board[b] = PIECE_NONE /\ b \in Rank(pawnDoubleRank(us))
          /\ b = m.to + pawnPush(them)
      BY <1>2, <2>2 DEF NormalShape, Behind
    <3>2. pawnPush(them) \in Int /\ pawnPush(us) = -pawnPush(them) /\ pawnPush(them) # 0 /\ m.to \in Int
      BY <1>1 DEF pawnPush, Color, WHITE, BLACK, Other, NORTH, SOUTH, Square
    <3> HIDE DEF b
    <3>3. b + pawnPush(us) = m.to /\ b # m.to
      BY <3>1, <3>2
    <3>4. t = PAWN
      <4>1. typeOf(p.board[m.from]) = PAWN
        BY <2>2 DEF Double
      <4> QED BY <1>1, <4>1, PieceFacts
    <3>5. b # m.from
      BY <1>1, <3>1, Kinds
    <3>6. q.board[b] = PIECE_NONE /\ q.board[m.to] = makePiece(us, PAWN)
      BY <1>4, <3>1, <3>3, <3>4, <3>5
    <3>7. Other(q.nextPlayer) = us
      BY <1>1, <1>2
    <3> QED BY <3>1, <3>3, <3>6, <3>7 DEF EnPassantOK
  <2> QED BY <2>1, <2>2
<1> QED BY <1>5, <1>6, <1>7

\* Kings, rights and en passant square after a promotion.
LEMMA StaysPromotion ==
  ASSUME NEW p, Good(p), NEW m, m.from \in Square, m.to \in Square, m.from # m.to,
         PromotionShape(p, m), p.board[m.to] # makePiece(Other(p.nextPlayer), KING),
         NEW q, DonePromotion(p, m, q)
  PROVE  KingsOK(q) /\ RightsMatch(q) /\ EnPassantOK(q)
<1> DEFINE us == p.nextPlayer
           them == Other(p.nextPlayer)
<1>1. us \in Color /\ them \in Color /\ them # us /\ m.prom \in PieceType /\ m.prom # KING
  BY OtherColor DEF Good, PromotionShape, KNIGHT, QUEEN, KING, PieceType
<1>2. q.board = [p.board EXCEPT ![m.from] = PIECE_NONE, ![m.to] = makePiece(us, m.prom)]
      /\ q.kingSquare = [p.kingSquare EXCEPT ![us] = @]
      /\ q.castlingRights = p.castlingRights \ RightsTouched(m)
      /\ q.enPassantSquare = SQ_NONE
  BY DEF DonePromotion
<1>3. p.board \in [Square -> Piece \cup {PIECE_NONE}] /\ p.kingSquare \in [Color -> Square]
  BY DEF Good, BoardOK, KingsOK
<1>4. \A s \in Square : q.board[s] = IF s = m.to THEN makePiece(us, m.prom)
                                     ELSE IF s = m.from THEN PIECE_NONE ELSE p.board[s]
  BY <1>2, <1>3
<1>5. KingsOK(q)
  <2>1. q.kingSquare \in [Color -> Square] /\ q.kingSquare = p.kingSquare
    BY <1>2, <1>3
  <2>2. ASSUME NEW c \in Color, NEW s \in Square
        PROVE  q.board[s] = makePiece(c, KING) <=> s = q.kingSquare[c]
    <3>1. \A z \in Square : p.board[z] = makePiece(c, KING) <=> z = p.kingSquare[c]
      BY DEF Good, KingsOK
    <3>2. makePiece(c, KING) # PIECE_NONE /\ makePiece(us, m.prom) # makePiece(c, KING)
      BY <1>1, Kinds
    <3>4. q.board[s] = IF s = m.to THEN makePiece(us, m.prom)
                       ELSE IF s = m.from THEN PIECE_NONE ELSE p.board[s]
      BY <1>4
    <3>5. p.board[m.from] # makePiece(c, KING)
      BY <1>1, Kinds DEF PromotionShape
    <3>6. p.board[m.to] # makePiece(c, KING)
      <4>1. CASE c = us
        <5>1. p.board[m.to] = PIECE_NONE \/ \E ct \in PieceType : p.board[m.to] = makePiece(them, ct)
          BY DEF PromotionShape, LandsOn
        <5>2. \A ct \in PieceType : makePiece(them, ct) # makePiece(c, KING)
          BY <1>1, <4>1, Kinds
        <5> QED BY <3>2, <5>1, <5>2
      <4>2. CASE c = them
        BY <4>2
      <4> QED BY <1>1, <4>1, <4>2 DEF Color, Other, WHITE, BLACK
    <3> QED BY <2>1, <3>1, <3>2, <3>4, <3>5, <3>6
  <2> QED BY <2>1, <2>2 DEF KingsOK
<1>6. RightsMatch(q)
  <2>1. \A s \in Square : s # m.from /\ s # m.to => q.board[s] = p.board[s]
    BY <1>4
  <2>2. RightsMatch(p) /\ q.castlingRights = p.castlingRights \ RightsTouched(m)
    BY <1>2 DEF Good
  <2> QED BY <2>1, <2>2, RightsMoved
<1> QED BY <1>2, <1>5, <1>6 DEF EnPassantOK

\* Kings, rights and en passant square after an en passant capture.
LEMMA StaysEnPassant ==
  ASSUME NEW p, Good(p), NEW m, m.from \in Square, m.to \in Square, m.from # m.to,
         EnPassantShape(p, m), NEW q, DoneEnPassant(p, m, q)
  PROVE  KingsOK(q) /\ RightsMatch(q) /\ EnPassantOK(q)
<1> DEFINE us == p.nextPlayer
           them == Other(p.nextPlayer)
           cap == Behind(p, m)
<1>1. us \in Color /\ them \in Color /\ them # us /\ cap \in Square
  BY OtherColor DEF Good, EnPassantShape
<1>2. q.board = [p.board EXCEPT ![cap] = PIECE_NONE, ![m.from] = PIECE_NONE, ![m.to] = makePiece(us, PAWN)]
      /\ q.kingSquare = [p.kingSquare EXCEPT ![us] = @]
      /\ q.castlingRights = p.castlingRights
      /\ q.enPassantSquare = SQ_NONE
  BY DEF DoneEnPassant
<1>3. p.board \in [Square -> Piece \cup {PIECE_NONE}] /\ p.kingSquare \in [Color -> Square]
  BY DEF Good, BoardOK, KingsOK
<1>3a. p.board[m.from] = makePiece(us, PAWN) /\ p.board[m.to] = PIECE_NONE
       /\ p.board[cap] = makePiece(them, PAWN)
  BY DEF EnPassantShape
<1> HIDE DEF cap
<1>4. \A s \in Square : q.board[s] = IF s = m.to THEN makePiece(us, PAWN)
                                     ELSE IF s = m.from \/ s = cap THEN PIECE_NONE ELSE p.board[s]
  BY <1>1, <1>2, <1>3
<1>5. KingsOK(q)
  <2>1. q.kingSquare \in [Color -> Square] /\ q.kingSquare = p.kingSquare
    BY <1>2, <1>3
  <2>2. ASSUME NEW c \in Color, NEW s \in Square
        PROVE  q.board[s] = makePiece(c, KING) <=> s = q.kingSquare[c]
    <3>1. p.board[s] = makePiece(c, KING) <=> s = p.kingSquare[c]
      BY DEF Good, KingsOK
    <3>2. /\ makePiece(c, KING) # PIECE_NONE /\ makePiece(us, PAWN) # makePiece(c, KING)
          /\ makePiece(them, PAWN) # makePiece(c, KING)
      BY <1>1, Kinds
    <3>3. q.board[s] = IF s = m.to THEN makePiece(us, PAWN)
                       ELSE IF s = m.from \/ s = cap THEN PIECE_NONE ELSE p.board[s]
      BY <1>4
    <3> QED BY <1>3a, <2>1, <3>1, <3>2, <3>3
  <2> QED BY <2>1, <2>2 DEF KingsOK
<1>6. RightsMatch(q)
  <2>1. ASSUME NEW c \in Color, NEW s \in Square, p.board[s] \in {makePiece(c, KING), makePiece(c, ROOK)}
        PROVE  q.board[s] = p.board[s]
    <3>1. /\ makePiece(c, KING) # PIECE_NONE /\ makePiece(us, PAWN) # makePiece(c, KING)
          /\ makePiece(them, PAWN) # makePiece(c, KING)
          /\ makePiece(c, ROOK) # PIECE_NONE /\ makePiece(us, PAWN) # makePiece(c, ROOK)
          /\ makePiece(them, PAWN) # makePiece(c, ROOK)
      BY <1>1, Kinds
    <3>2. s # m.from /\ s # m.to /\ s # cap
      BY <1>3a, <2>1, <3>1
    <3> QED BY <1>4, <3>2
  <2> QED BY <1>2, <2>1, RightsStay DEF Good
<1> QED BY <1>2, <1>5, <1>6 DEF EnPassantOK

(* The squares of a castling are on one rank. *)
LEMMA CastlingRank ==
  ASSUME NEW p, p.nextPlayer \in Color, NEW m, CastlingShape(p, m), NEW c \in Color, c # p.nextPlayer,
         NEW s \in {Home(c), Home(c) + 3, Home(c) - 4}
  PROVE  s \notin {m.from, m.to, rookCorner[m.to], rookCrossing[m.to]}
<1>1. E1 = 4 /\ E8 = 60 /\ G1 = 6 /\ C1 = 2 /\ G8 = 62 /\ C8 = 58 /\ EAST = 1 /\ WEST = -1
  BY DEF E1, E8, G1, C1, G8, C8, EAST, WEST
<1>2. m.from = (IF p.nextPlayer = WHITE THEN E1 ELSE E8)
      /\ m.to \in (IF p.nextPlayer = WHITE THEN {G1, C1} ELSE {G8, C8})
  BY DEF CastlingShape
<1>3. m.to \in castlingTarget
  BY <1>2 DEF castlingTarget
<1>4. /\ rookCorner[m.to] = IF m.to \in {G1, G8} THEN m.to + EAST ELSE m.to + 2 * WEST
      /\ rookCrossing[m.to] = IF m.to \in {G1, G8} THEN m.to + WEST ELSE m.to + EAST
  BY <1>3 DEF rookCorner, rookCrossing
<1> DEFINE a == rookCorner[m.to]
           b == rookCrossing[m.to]
<1>5. CASE p.nextPlayer = WHITE
  <2>1. m.from = 4 /\ m.to \in {6, 2}
    BY <1>1, <1>2, <1>5
  <2>2. a \in 0 .. 7 /\ b \in 0 .. 7
    BY <1>1, <1>4, <2>1
  <2>3. s >= 56
    BY <1>1, <1>5 DEF Home, Color, WHITE, BLACK
  <2> QED BY <2>1, <2>2, <2>3
<1>6. CASE p.nextPlayer # WHITE
  <2>1. m.from = 60 /\ m.to \in {62, 58}
    BY <1>1, <1>2, <1>6
  <2>2. a \in 56 .. 63 /\ b \in 56 .. 63
    BY <1>1, <1>4, <2>1
  <2>3. s <= 7
    BY <1>1, <1>6 DEF Home, Color, WHITE, BLACK
  <2> QED BY <2>1, <2>2, <2>3
<1> QED BY <1>5, <1>6

\* The rights of one colour are not those of the other.
LEMMA RightNames ==
  \A c, d \in Color : c # d => OO(c) \notin Castling(d) /\ OOO(c) \notin Castling(d)
BY DEF OO, OOO, Castling, Color, WHITE, BLACK

\* Kings, rights and en passant square after a castling.
LEMMA StaysCastling ==
  ASSUME NEW p, Good(p), NEW m, CastlingShape(p, m), NEW q, DoneCastling(p, m, q)
  PROVE  KingsOK(q) /\ RightsMatch(q) /\ EnPassantOK(q)
<1> DEFINE us == p.nextPlayer
           corner == rookCorner[m.to]
           crossing == rookCrossing[m.to]
<1>1. us \in Color
  BY DEF Good
<1>2. q.board = [p.board EXCEPT ![m.from] = PIECE_NONE, ![m.to] = makePiece(us, KING),
                                ![corner] = PIECE_NONE, ![crossing] = makePiece(us, ROOK)]
      /\ q.kingSquare = [p.kingSquare EXCEPT ![us] = m.to]
      /\ q.castlingRights = p.castlingRights \ Castling(us)
      /\ q.enPassantSquare = SQ_NONE
  BY DEF DoneCastling
<1>3. p.board \in [Square -> Piece \cup {PIECE_NONE}] /\ p.kingSquare \in [Color -> Square]
  BY DEF Good, BoardOK, KingsOK
<1>4. /\ p.board[m.from] = makePiece(us, KING) /\ p.board[m.to] = PIECE_NONE
      /\ p.board[corner] = makePiece(us, ROOK) /\ p.board[crossing] = PIECE_NONE
  BY DEF CastlingShape
<1>5. /\ corner \in Square /\ crossing \in Square
      /\ m.from \in Square /\ m.to \in Square
      /\ corner # m.from /\ corner # m.to /\ corner # crossing
      /\ crossing # m.from /\ crossing # m.to /\ m.from # m.to
  BY <1>1, CastlingSquares
<1>5a. \A c \in Color : c # us =>
         \A s \in {Home(c), Home(c) + 3, Home(c) - 4} : s \notin {m.from, m.to, corner, crossing}
  BY <1>1, CastlingRank
<1> HIDE DEF corner, crossing
<1>6. \A s \in Square : q.board[s] = IF s = crossing THEN makePiece(us, ROOK)
                                     ELSE IF s = corner THEN PIECE_NONE
                                     ELSE IF s = m.to THEN makePiece(us, KING)
                                     ELSE IF s = m.from THEN PIECE_NONE ELSE p.board[s]
  BY <1>2, <1>3, <1>5
<1>7. KingsOK(q)
  <2>1. q.kingSquare \in [Color -> Square]
    BY <1>2, <1>3, <1>5
  <2>2. ASSUME NEW c \in Color, NEW s \in Square
        PROVE  q.board[s] = makePiece(c, KING) <=> s = q.kingSquare[c]
    <3>1. \A z \in Square : p.board[z] = makePiece(c, KING) <=> z = p.kingSquare[c]
      BY DEF Good, KingsOK
    <3>2. /\ makePiece(c, KING) # PIECE_NONE /\ makePiece(us, ROOK) # makePiece(c, KING)
          /\ (makePiece(us, KING) = makePiece(c, KING) <=> c = us)
      BY <1>1, Kinds
    <3>3. q.kingSquare[c] = IF c = us THEN m.to ELSE p.kingSquare[c]
      BY <1>2, <1>3
    <3>4. q.board[s] = IF s = crossing THEN makePiece(us, ROOK)
                       ELSE IF s = corner THEN PIECE_NONE
                       ELSE IF s = m.to THEN makePiece(us, KING)
                       ELSE IF s = m.from THEN PIECE_NONE ELSE p.board[s]
      BY <1>6
    <3>5. CASE c = us
      <4>1. p.kingSquare[c] = m.from
        BY <1>4, <1>5, <3>1, <3>5
      <4> QED BY <1>5, <3>1, <3>2, <3>3, <3>4, <3>5, <4>1
    <3>6. CASE c # us
      <4>1. p.kingSquare[c] # m.from /\ p.kingSquare[c] # m.to
            /\ p.kingSquare[c] # corner /\ p.kingSquare[c] # crossing
        BY <1>4, <1>5, <3>1, <3>2, <3>6
      <4> QED BY <3>1, <3>2, <3>3, <3>4, <3>6, <4>1
    <3> QED BY <3>5, <3>6
  <2> QED BY <2>1, <2>2 DEF KingsOK
<1>8. RightsMatch(q)
  <2> SUFFICES ASSUME NEW c \in Color
               PROVE  /\ OO(c) \in q.castlingRights => HomeKept(q, c, Home(c) + 3)
                      /\ OOO(c) \in q.castlingRights => HomeKept(q, c, Home(c) - 4)
    BY RightsAre
  <2>1. CASE c = us
    <3>1. OO(c) \notin q.castlingRights /\ OOO(c) \notin q.castlingRights
      BY <1>2, <2>1 DEF Castling
    <3> QED BY <3>1
  <2>2. CASE c # us
    <3>1. /\ OO(c) \in p.castlingRights => HomeKept(p, c, Home(c) + 3)
          /\ OOO(c) \in p.castlingRights => HomeKept(p, c, Home(c) - 4)
      BY RightsAre DEF Good
    <3>2. q.castlingRights \subseteq p.castlingRights
      BY <1>2
    <3>3. \A s \in {Home(c), Home(c) + 3, Home(c) - 4} :
              s \in Square /\ s # m.from /\ s # m.to /\ s # corner /\ s # crossing
      BY <1>5a, <2>2, RightsEnd
    <3>4. \A s \in {Home(c), Home(c) + 3, Home(c) - 4} : q.board[s] = p.board[s]
      BY <1>6, <3>3
    <3> QED BY <3>1, <3>2, <3>4 DEF HomeKept
  <2> QED BY <2>1, <2>2
<1> QED BY <1>2, <1>7, <1>8 DEF EnPassantOK

(* doMove keeps a position good. *)
LEMMA GoodStays ==
  ASSUME NEW p, Good(p), NEW m, MoveShape(p, m),
         m.type \in {NORMAL, PROMOTION} => p.board[m.to] # makePiece(Other(p.nextPlayer), KING)
  PROVE  Good(doMove(p, m))
<1>1. PICK q : q = doMove(p, m)
  OBVIOUS
<1>2. Ready(p) /\ IsPosition(p) /\ BoardOK(p) /\ p.nextPlayer \in Color /\ p.kingSquare \in [Color -> Int]
      /\ m.from \in Square /\ m.to \in Square /\ m.from # m.to
  BY GoodReady DEF Ready, KingsKnown, MoveShape
<1>3. Turned(p, m, q)
  BY <1>1, <1>2, DoLinks
<1>8. KingsOK(q) /\ RightsMatch(q) /\ EnPassantOK(q)
  <2>4. CASE m.type = NORMAL /\ NormalShape(p, m)
    <3>1. PICK t \in PieceType : p.board[m.from] = makePiece(p.nextPlayer, t)
      BY <2>4 DEF NormalShape
    <3>2. DoneNormal(p, m, q, t)
      BY <1>1, <1>2, <2>4, <3>1, DoNormal
    <3> QED BY <1>2, <2>4, <3>1, <3>2, StaysNormal
  <2>5. CASE m.type = PROMOTION /\ PromotionShape(p, m)
    <3>1. DonePromotion(p, m, q)
      BY <1>1, <1>2, <2>5, DoPromotion
    <3> QED BY <1>2, <2>5, <3>1, StaysPromotion
  <2>6. CASE m.type = ENPASSANT /\ EnPassantShape(p, m)
    <3>1. DoneEnPassant(p, m, q)
      BY <1>1, <1>2, <2>6, DoEnPassant
    <3> QED BY <1>2, <2>6, <3>1, StaysEnPassant
  <2>7. CASE m.type = CASTLING /\ CastlingShape(p, m)
    <3>1. DoneCastling(p, m, q)
      BY <1>1, <1>2, <2>7, DoCastling
    <3> QED BY <2>7, <3>1, StaysCastling
  <2> QED BY <2>4, <2>5, <2>6, <2>7 DEF MoveShape
<1>9. q.nextPlayer \in Color /\ q.moveNumber \in Int /\ IsHistory(q.historyState)
  BY <1>3, OtherColor, AppendFacts DEF Turned, Good, Color, WHITE, BLACK
<1> QED BY <1>1, <1>3, <1>8, <1>9 DEF Good, Turned, Ended

-----------------------------------------------------------------------------
NullEntry(p) == Entry(p, MOVE_NONE, PIECE_NONE, PIECE_NONE)
LinkedNull(p, q) ==
    /\ q.board = p.board /\ q.kingSquare = p.kingSquare
    /\ q.nextPlayer = Other(p.nextPlayer) /\ q.moveNumber = p.moveNumber + p.nextPlayer
    /\ q.historyState = Append(p.historyState, NullEntry(p))

\* A null move keeps a sound position sound.
LEMMA DoNull ==
  ASSUME NEW p, Good(p)
  PROVE  LET q == doNullMove(p)
         IN /\ Ended(p, q) /\ LinkedNull(p, q) /\ Good(q) /\ q.hasCheckFlag = FLAG_TBD
            /\ q.halfMoveClock = p.halfMoveClock /\ q.enPassantSquare = SQ_NONE
<1>1. PICK a : a = SaveState(p, MOVE_NONE, PIECE_NONE, PIECE_NONE)
  OBVIOUS
<1>2. PICK b : b = clearEnPassant(a)
  OBVIOUS
<1>3. PICK q : q = SwitchPlayer(b)
  OBVIOUS
<1>4. q = doNullMove(p)
  BY <1>1, <1>2, <1>3 DEF doNullMove
<1>5. SaveKeeps(p, a, NullEntry(p))
  BY <1>1, Save DEF NullEntry, Good
<1>6. Through(p, p)
  BY DEF Through, Good
<1>7. Through(p, a)
  BY <1>5, <1>6, ThroughKept DEF SaveKeeps
<1>8. ClearKeeps(a, b)
  BY <1>2, <1>7, Clear DEF Through
<1>9. Through(p, b)
  BY <1>7, <1>8, ThroughKept DEF ClearKeeps
<1>10. b.nextPlayer = p.nextPlayer /\ p.nextPlayer \in Color
  BY <1>5, <1>8 DEF SaveKeeps, ClearKeeps, Rest, Good
<1>11. SwitchKeeps(b, q)
  BY <1>3, <1>9, <1>10, Switch DEF Through
<1>12. Through(p, q)
  BY <1>9, <1>11, ThroughKept DEF SwitchKeeps
<1>13. q.board = p.board /\ q.kingSquare = p.kingSquare
  BY <1>5, <1>8, <1>11 DEF SaveKeeps, ClearKeeps, SwitchKeeps, Kept
<1>14. /\ q.nextPlayer = Other(p.nextPlayer) /\ q.moveNumber = p.moveNumber + p.nextPlayer
       /\ q.historyState = Append(p.historyState, NullEntry(p))
       /\ q.castlingRights = p.castlingRights /\ q.enPassantSquare = SQ_NONE /\ q.hasCheckFlag = FLAG_TBD
       /\ q.halfMoveClock = p.halfMoveClock
  BY <1>5, <1>8, <1>11 DEF SaveKeeps, ClearKeeps, SwitchKeeps, Rest
<1>15. KingsOK(q)
  BY <1>13 DEF KingsOK, Good
<1>16. RightsMatch(q)
  BY <1>13, <1>14 DEF RightsMatch, Good
<1>17. q.nextPlayer \in Color /\ q.moveNumber \in Int /\ IsHistory(q.historyState)
  BY <1>10, <1>14, OtherColor, AppendFacts DEF Good, Color, WHITE, BLACK
<1>18. Good(q)
  BY <1>12, <1>14, <1>15, <1>16, <1>17 DEF Good, Through, EnPassantOK
<1> QED BY <1>4, <1>12, <1>13, <1>14, <1>18, ThroughEnds DEF LinkedNull

\* undoNullMove leads back from every position that is linked.
LEMMA UndoNull ==
  ASSUME NEW p, Ready(p), NEW q, IsPosition(q), BoardOK(q), LinkedNull(p, q)
  PROVE  Undone(p, q, undoNullMove(q))
<1>1. PICK a : a = PreviousPlayer(q)
  OBVIOUS
<1>2. PICK r : r = RestoreState(a)
  OBVIOUS
<1>3. r = undoNullMove(q)
  BY <1>1, <1>2 DEF undoNullMove
<1>4. Kept(q, a) /\ a.nextPlayer = p.nextPlayer /\ a.moveNumber = p.moveNumber /\ a.historyState = q.historyState
  BY <1>1, Previous DEF Ready, LinkedNull
<1>5. BackIn(p, NullEntry(p), a)
  BY <1>4 DEF BackIn, LinkedNull, Kept
<1>6. Alike(p, r) /\ r.gamePhase = a.gamePhase
  BY <1>2, <1>5, Restored DEF NullEntry, Ready
<1>7. r.board = p.board /\ q.board = p.board /\ a.board = p.board
  BY <1>4, <1>6, AlikeFields DEF LinkedNull, Kept
<1>8. PhaseOf(r) = PhaseOf(p) /\ PhaseOf(q) = PhaseOf(p) /\ PhaseOf(a) = PhaseOf(p)
  BY <1>7, SameBoards
<1> QED BY <1>3, <1>4, <1>6, <1>8 DEF Undone, Kept, PhaseGood, PhaseIn

(* hasCheck remembers. *)
LEMMA RememberFields ==
  ASSUME NEW p, IsPosition(p)
  PROVE  LET q == RememberCheck(p)
         IN /\ IsPosition(q)
            /\ \A x \in Fields \ {"hasCheckFlag"} : q[x] = p[x]
            /\ q.hasCheckFlag = IF hasCheck(p) THEN FLAG_TRUE ELSE FLAG_FALSE
<1> DEFINE f == IF hasCheck(p) THEN FLAG_TRUE ELSE FLAG_FALSE
           q == [p EXCEPT !.hasCheckFlag = f]
<1>1. RememberCheck(p) = q
  BY DEF RememberCheck
<1>2. DOMAIN p = Fields /\ "hasCheckFlag" \in Fields
  BY DEF IsPosition, Fields
<1> HIDE DEF f
<1>3. DOMAIN q = Fields /\ q = [x \in Fields |-> q[x]]
  BY <1>2
<1>4. \A x \in Fields \ {"hasCheckFlag"} : q[x] = p[x]
  BY <1>2
<1>5. q.hasCheckFlag = f
  BY <1>2
<1>6. IsPosition(q)
  BY <1>3 DEF IsPosition
<1> HIDE DEF q
<1> QED BY <1>1, <1>4, <1>5, <1>6 DEF f

(* Two positions that differ at most in the game phase and the check flag. *)
Near(p, q) ==
    /\ IsPosition(q)
    /\ \A x \in Fields \ {"gamePhase", "hasCheckFlag"} : q[x] = p[x]

\* The fields that agree in positions that are near.
LEMMA NearFields ==
  ASSUME NEW p, NEW q, Near(p, q)
  PROVE  /\ q.board = p.board /\ q.nextPlayer = p.nextPlayer /\ q.castlingRights = p.castlingRights
         /\ q.enPassantSquare = p.enPassantSquare /\ q.halfMoveClock = p.halfMoveClock
         /\ q.moveNumber = p.moveNumber /\ q.historyState = p.historyState /\ q.kingSquare = p.kingSquare
         /\ q.piecesBb = p.piecesBb /\ q.occupiedBb = p.occupiedBb /\ q.zobristKey = p.zobristKey
         /\ q.pawnKey = p.pawnKey /\ q.material = p.material /\ q.materialNonPawn = p.materialNonPawn
BY DEF Near, Fields

\* A position near a sound one is sound.
LEMMA GoodNear == ASSUME NEW p, Good(p), NEW q, Near(p, q) PROVE Good(q)
<1>1. q.board = p.board
  BY NearFields
<1>2. /\ \A c, pt : Placed(q, c, pt) = Placed(p, c, pt)
      /\ \A c : Own(q, c) = Own(p, c)
      /\ \A c, types : Worth(q, c, types) = Worth(p, c, types)
      /\ \A types : PieceFeatures(q, types) = PieceFeatures(p, types)
  BY <1>1, SameBoards
<1>3. BoardOK(q)
  BY <1>2, NearFields DEF BoardOK, Good
<1>4. KingsOK(q)
  BY NearFields DEF KingsOK, Good
<1>5. RightsMatch(q)
  BY NearFields DEF RightsMatch, Good
<1>6. EnPassantOK(q)
  BY NearFields DEF EnPassantOK, Good
<1> QED BY <1>3, <1>4, <1>5, <1>6, NearFields DEF Good, Near

-----------------------------------------------------------------------------
(* How far a slider gets. *)
Directions == rookDirections \cup bishopDirections
OnBoard(d, s, i) == s + i * d \in Square /\ distance(s + i * d, s + (i - 1) * d) = 1
Free(d, s, n) == \A i \in 1 .. n : OnBoard(d, s, i)

\* The eight directions.
LEMMA DirectionsAre == Directions = {8, 1, -8, -1, 9, -7, -9, 7}
BY DEF Directions, rookDirections, bishopDirections, NORTH, EAST, SOUTH, WEST

\* A set of numbers from 1 on is told by how many they are.
LEMMA Prefix ==
  ASSUME NEW D, D \subseteq 1 .. 7, \A m, n \in 1 .. 7 : n \in D /\ m <= n => m \in D
  PROVE  Cardinality(D) \in 0 .. 7 /\ D = 1 .. Cardinality(D)
<1>1. ASSUME NEW r \in 0 .. 7, D = 1 .. r PROVE Cardinality(D) \in 0 .. 7 /\ D = 1 .. Cardinality(D)
  <2>1. r \in Int /\ 1 \in Int
    OBVIOUS
  <2>2. \A a, b \in Int : Cardinality(a .. b) = IF a > b THEN 0 ELSE b - a + 1
    BY FS_Interval
  <2>3. Cardinality(1 .. r) = IF 1 > r THEN 0 ELSE r - 1 + 1
    BY Zenon, <2>1, <2>2
  <2>4. Cardinality(1 .. r) = r
    BY <2>3
  <2> QED BY <1>1, <2>4
<1>2. ASSUME NEW r \in 0 .. 7, r = 0 \/ r \in D, r = 7 \/ r + 1 \notin D PROVE D = 1 .. r
  <2>1. ASSUME NEW x \in D PROVE x \in 1 .. r
    <3>1. x \in 1 .. 7
      OBVIOUS
    <3>2. CASE x > r
      <4>1. r + 1 \in 1 .. 7 /\ r + 1 <= x
        BY <3>1, <3>2
      <4>2. r + 1 \in D
        BY <3>1, <4>1
      <4> QED BY <1>2, <3>1, <3>2, <4>2
    <3> QED BY <3>1, <3>2
  <2>2. ASSUME NEW x \in 1 .. r PROVE x \in D
    <3>1. x \in 1 .. 7 /\ r \in 1 .. 7 /\ x <= r
      OBVIOUS
    <3>2. r \in D
      BY <1>2, <3>1
    <3> QED BY <3>1, <3>2
  <2> QED BY <2>1, <2>2
<1>3. \E r \in 0 .. 7 : (r = 0 \/ r \in D) /\ (r = 7 \/ r + 1 \notin D)
  <2>1. CASE 1 \notin D
    BY <2>1
  <2>2. CASE 1 \in D /\ 2 \notin D
    BY <2>2
  <2>3. CASE 2 \in D /\ 3 \notin D
    BY <2>3
  <2>4. CASE 3 \in D /\ 4 \notin D
    BY <2>4
  <2>5. CASE 4 \in D /\ 5 \notin D
    BY <2>5
  <2>6. CASE 5 \in D /\ 6 \notin D
    BY <2>6
  <2>7. CASE 6 \in D /\ 7 \notin D
    BY <2>7
  <2>8. CASE 7 \in D
    BY <2>8
  <2> QED BY <2>1, <2>2, <2>3, <2>4, <2>5, <2>6, <2>7, <2>8
<1> QED BY <1>1, <1>2, <1>3

\* Reach is how far the line is free of the edge.
LEMMA ReachIs ==
  ASSUME NEW d \in Directions, NEW s \in Square
  PROVE  /\ Reach[d][s] \in 0 .. 7
         /\ \A n \in 1 .. 7 : n <= Reach[d][s] <=> Free(d, s, n)
<1> DEFINE D == {n \in 1 .. 7 : Free(d, s, n)}
<1>1. Reach[d][s] = Cardinality(D)
  <2>1. Reach = [e \in Directions |-> [z \in Square |-> Cardinality({n \in 1 .. 7 : Free(e, z, n)})]]
    BY DEF Reach, Directions, Free, OnBoard
  <2> QED BY <2>1
<1>2. ASSUME NEW m \in 1 .. 7, NEW n \in 1 .. 7, n \in D, m <= n PROVE m \in D
  BY <1>2 DEF Free
<1>3. D \subseteq 1 .. 7
  OBVIOUS
<1>4. \A n \in 1 .. 7 : n \in D <=> Free(d, s, n)
  OBVIOUS
<1> HIDE DEF D
<1>5. Cardinality(D) \in 0 .. 7 /\ D = 1 .. Cardinality(D)
  BY <1>2, <1>3, Prefix
<1>6. \A n \in 1 .. 7 : n \in D <=> n <= Cardinality(D)
  BY <1>5
<1> QED BY <1>1, <1>4, <1>5, <1>6

(* The squares a ray passes, up to the first blocker. *)
LEMMA RayIs ==
  ASSUME NEW d \in Directions, NEW s \in Square, NEW occupied, NEW t
  PROVE  t \in Ray(d, s, occupied) <=>
           \E n \in 1 .. 7 : /\ t = s + n * d
                             /\ Free(d, s, n)
                             /\ \A i \in 1 .. n - 1 : s + i * d \notin occupied
<1> DEFINE r == Reach[d][s]
           blocks == {n \in 1 .. r : s + n * d \in occupied}
           last == IF blocks = {} THEN r ELSE CHOOSE n \in blocks : \A m \in blocks : n <= m
<1>1. r \in 0 .. 7 /\ \A n \in 1 .. 7 : n <= r <=> Free(d, s, n)
  BY ReachIs
<1>2. Ray(d, s, occupied) = {s + n * d : n \in 1 .. last}
  BY DEF Ray
<1> HIDE DEF r
<1>3. last \in 0 .. r /\ \A n \in 1 .. r : n <= last <=> \A i \in 1 .. n - 1 : i \notin blocks
  <2>1. CASE blocks = {}
    BY <1>1, <2>1
  <2>2. CASE blocks # {}
    <3>0. blocks \subseteq 1 .. r
      OBVIOUS
    <3> HIDE DEF blocks
    <3>1. \E n \in blocks : \A m \in blocks : n <= m
      <4>1. blocks \subseteq 1 .. 7
        BY <1>1, <3>0
      <4>2. ASSUME ~ \E n \in blocks : \A m \in blocks : n <= m PROVE FALSE
        <5>1. 1 \notin blocks
          BY <4>1, <4>2
        <5>2. 2 \notin blocks
          BY <4>1, <4>2, <5>1
        <5>3. 3 \notin blocks
          BY <4>1, <4>2, <5>1, <5>2
        <5>4. 4 \notin blocks
          BY <4>1, <4>2, <5>1, <5>2, <5>3
        <5>5. 5 \notin blocks
          BY <4>1, <4>2, <5>1, <5>2, <5>3, <5>4
        <5>6. 6 \notin blocks
          BY <4>1, <4>2, <5>1, <5>2, <5>3, <5>4, <5>5
        <5>7a. \A m \in blocks : m = 7
          <6> TAKE m \in blocks
          <6>1. m \in 1 .. 7 /\ m # 1 /\ m # 2 /\ m # 3 /\ m # 4 /\ m # 5 /\ m # 6
            BY <4>1, <5>1, <5>2, <5>3, <5>4, <5>5, <5>6
          <6> QED BY <6>1
        <5>7b. \A m \in blocks : 7 <= m
          BY <5>7a
        <5>7. 7 \notin blocks
          BY <4>2, <5>7b
        <5>8. \A m : m \notin blocks
          BY <5>7, <5>7a
        <5> QED BY <2>2, <5>8
      <4> QED BY <4>2
    <3> DEFINE k == CHOOSE n \in blocks : \A m \in blocks : n <= m
    <3>2. k \in blocks /\ \A m \in blocks : k <= m
      BY <3>1
    <3>3. last = k
      BY <2>2
    <3> HIDE DEF k, last
    <3>4. k \in 1 .. r
      BY <3>0, <3>2
    <3>5. ASSUME NEW n \in 1 .. r PROVE n <= k <=> \A i \in 1 .. n - 1 : i \notin blocks
      BY <1>1, <3>2, <3>4
    <3> QED BY <1>1, <3>3, <3>4, <3>5
  <2> QED BY <2>1, <2>2
<1>4. \A i \in 1 .. r : i \in blocks <=> s + i * d \in occupied
  OBVIOUS
<1> HIDE DEF blocks, last
<1>5. \A n \in 1 .. r : n <= last <=> \A i \in 1 .. n - 1 : s + i * d \notin occupied
  <2> TAKE n \in 1 .. r
  <2>1. \A i \in 1 .. n - 1 : i \in 1 .. r
    BY <1>1
  <2> QED BY <1>3, <1>4, <2>1
<1>6. ASSUME t \in Ray(d, s, occupied)
      PROVE  \E n \in 1 .. 7 : /\ t = s + n * d /\ Free(d, s, n)
                               /\ \A i \in 1 .. n - 1 : s + i * d \notin occupied
  <2>1. PICK n \in 1 .. last : t = s + n * d
    BY <1>2, <1>6
  <2>2. n \in 1 .. r /\ n \in 1 .. 7 /\ n <= last
    BY <1>1, <1>3
  <2>3. Free(d, s, n)
    BY <1>1, <2>2
  <2> QED BY <1>5, <2>1, <2>2, <2>3
<1>7. ASSUME NEW n \in 1 .. 7, t = s + n * d, Free(d, s, n),
             \A i \in 1 .. n - 1 : s + i * d \notin occupied
      PROVE  t \in Ray(d, s, occupied)
  <2>1. n \in 1 .. r
    BY <1>1, <1>7
  <2>2. n <= last
    BY <1>5, <1>7, <2>1
  <2>3. n \in 1 .. last
    BY <1>1, <1>3, <2>1, <2>2
  <2> QED BY <1>2, <1>7, <2>3
<1> QED BY <1>6, <1>7

-----------------------------------------------------------------------------
(* A direction in files and ranks. *)
Run(d) == IF d \in {1, 9, -7} THEN 1 ELSE IF d \in {-1, -9, 7} THEN -1 ELSE 0
Rise(d) == IF d \in {8, 9, 7} THEN 1 ELSE IF d \in {-8, -9, -7} THEN -1 ELSE 0

\* A square is its file and its rank.
LEMMA Coordinates ==
  \A s \in Square : /\ fileOf(s) \in 0 .. 7 /\ rankOf(s) \in 0 .. 7
                    /\ s = 8 * rankOf(s) + fileOf(s)
BY DEF Square, fileOf, rankOf

\* The gap of two numbers.
LEMMA GapIs == \A m, n \in Int : Gap(m, n) = (IF m > n THEN m - n ELSE n - m) /\ Gap(m, n) \in Nat
BY DEF Gap, Larger

\* The gap is symmetric, and 1 at most between neighbours.
LEMMA GapFacts ==
  ASSUME NEW m \in Int, NEW n \in Int
  PROVE  Gap(m, n) = Gap(n, m) /\ Gap(m, n) \in Nat /\ (Gap(m, n) <= 1 => n - m \in -1 .. 1)
<1>1. CASE m > n
  BY <1>1 DEF Gap, Larger
<1>2. CASE ~(m > n)
  BY <1>2 DEF Gap, Larger
<1> QED BY <1>1, <1>2

\* The distance is symmetric, and 1 between neighbours.
LEMMA DistanceSame ==
  \A s, t \in Square : /\ distance(s, t) = distance(t, s)
                       /\ distance(s, t) = 1 =>
                            /\ fileOf(t) - fileOf(s) \in -1 .. 1
                            /\ rankOf(t) - rankOf(s) \in -1 .. 1
<1> TAKE s, t \in Square
<1>1. fileOf(s) \in Int /\ fileOf(t) \in Int /\ rankOf(s) \in Int /\ rankOf(t) \in Int
  BY Coordinates
<1> DEFINE a == fileOf(s)
           b == fileOf(t)
           i == rankOf(s)
           j == rankOf(t)
<1>2. /\ Gap(a, b) = Gap(b, a) /\ Gap(i, j) = Gap(j, i)
      /\ Gap(a, b) \in Nat /\ Gap(i, j) \in Nat
      /\ Gap(a, b) <= 1 => b - a \in -1 .. 1
      /\ Gap(i, j) <= 1 => j - i \in -1 .. 1
  <2> a \in Int /\ b \in Int /\ i \in Int /\ j \in Int
    BY <1>1
  <2> HIDE DEF a, b, i, j
  <2> QED BY GapFacts
<1>3. distance(s, t) = Larger(Gap(a, b), Gap(i, j)) /\ distance(t, s) = Larger(Gap(b, a), Gap(j, i))
  BY DEF distance
<1> HIDE DEF a, b, i, j
<1>4. distance(s, t) = distance(t, s)
  BY <1>2, <1>3
<1>5. distance(s, t) = 1 => b - a \in -1 .. 1 /\ j - i \in -1 .. 1
  BY <1>2, <1>3 DEF Larger
<1> QED BY <1>4, <1>5 DEF a, b, i, j

\* A step in a direction that stays on the board, in files and ranks.
LEMMA Step ==
  ASSUME NEW d \in Directions, NEW s \in Square, s + d \in Square, distance(s + d, s) = 1
  PROVE  fileOf(s + d) = fileOf(s) + Run(d) /\ rankOf(s + d) = rankOf(s) + Rise(d)
<1>1. /\ fileOf(s + d) - fileOf(s) \in -1 .. 1
      /\ rankOf(s + d) - rankOf(s) \in -1 .. 1
  BY DistanceSame
<1>2. /\ fileOf(s) \in 0 .. 7 /\ rankOf(s) \in 0 .. 7 /\ s = 8 * rankOf(s) + fileOf(s)
      /\ fileOf(s + d) \in 0 .. 7 /\ rankOf(s + d) \in 0 .. 7 /\ s + d = 8 * rankOf(s + d) + fileOf(s + d)
  BY Coordinates
<1>3. d \in {8, 1, -8, -1, 9, -7, -9, 7}
  BY DirectionsAre
<1> DEFINE f == fileOf(s)
           r == rankOf(s)
           g == fileOf(s + d)
           h == rankOf(s + d)
<1>4. /\ f \in 0 .. 7 /\ r \in 0 .. 7 /\ g \in 0 .. 7 /\ h \in 0 .. 7
      /\ 8 * r + f + d = 8 * h + g /\ g - f \in -1 .. 1 /\ h - r \in -1 .. 1
  BY <1>1, <1>2
<1> HIDE DEF f, r, g, h
<1>5. g - f = Run(d) /\ h - r = Rise(d)
  <2>1. CASE d = 8 BY <1>4, <2>1 DEF Run, Rise
  <2>2. CASE d = 1 BY <1>4, <2>2 DEF Run, Rise
  <2>3. CASE d = -8 BY <1>4, <2>3 DEF Run, Rise
  <2>4. CASE d = -1 BY <1>4, <2>4 DEF Run, Rise
  <2>5. CASE d = 9 BY <1>4, <2>5 DEF Run, Rise
  <2>6. CASE d = -7 BY <1>4, <2>6 DEF Run, Rise
  <2>7. CASE d = -9 BY <1>4, <2>7 DEF Run, Rise
  <2>8. CASE d = 7 BY <1>4, <2>8 DEF Run, Rise
  <2> QED BY <1>3, <2>1, <2>2, <2>3, <2>4, <2>5, <2>6, <2>7, <2>8
<1>6. Run(d) \in Int /\ Rise(d) \in Int
  BY DEF Run, Rise
<1>7. g = f + Run(d) /\ h = r + Rise(d)
  BY <1>4, <1>5, <1>6
<1> QED BY <1>7 DEF f, r, g, h

(* Multiples of a direction. *)
LEMMA Multiples ==
  ASSUME NEW d \in Directions, NEW s \in Int
  PROVE  /\ \A i \in Int : i * d \in Int
         /\ \A i \in Int : s + (i - 1) * d = (s + i * d) - d
         /\ \A n, i \in Int : (s + n * d) + i * (-d) = s + (n - i) * d
         /\ s + 1 * d = s + d /\ s + 0 * d = s
         /\ d \in Int
<1>1. d \in {8, 1, -8, -1, 9, -7, -9, 7}
  BY DirectionsAre
<1>2. CASE d = 8 BY <1>2
<1>3. CASE d = 1 BY <1>3
<1>4. CASE d = -8 BY <1>4
<1>5. CASE d = -1 BY <1>5
<1>6. CASE d = 9 BY <1>6
<1>7. CASE d = -7 BY <1>7
<1>8. CASE d = -9 BY <1>8
<1>9. CASE d = 7 BY <1>9
<1> QED BY <1>1, <1>2, <1>3, <1>4, <1>5, <1>6, <1>7, <1>8, <1>9

(* Where the squares of a free line are. *)
LEMMA Line ==
  ASSUME NEW d \in Directions, NEW s \in Square, NEW n \in 0 .. 7, Free(d, s, n)
  PROVE  \A i \in 0 .. n : /\ s + i * d \in Square
                           /\ fileOf(s + i * d) = fileOf(s) + i * Run(d)
                           /\ rankOf(s + i * d) = rankOf(s) + i * Rise(d)
<1> DEFINE a(i) == s + i * d
           Is(i) == /\ a(i) \in Square
                    /\ fileOf(a(i)) = fileOf(s) + i * Run(d)
                    /\ rankOf(a(i)) = rankOf(s) + i * Rise(d)
<1>1. s \in Int /\ fileOf(s) \in Int /\ rankOf(s) \in Int /\ Run(d) \in {0, 1, -1} /\ Rise(d) \in {0, 1, -1}
  BY Coordinates DEF Square, Run, Rise
<1>2. Is(0)
  <2>1. a(0) = s
    BY <1>1, Multiples
  <2>2. 0 * Run(d) = 0 /\ 0 * Rise(d) = 0
    BY <1>1
  <2> QED BY <1>1, <2>1, <2>2
<1>3. ASSUME NEW i \in 1 .. n, Is(i - 1) PROVE Is(i)
  <2>1. a(i) \in Square /\ distance(a(i), a(i - 1)) = 1
    BY DEF Free, OnBoard
  <2>2. a(i - 1) + d = a(i)
    BY <1>1, Multiples
  <2> HIDE DEF a
  <2>3. fileOf(a(i)) = fileOf(a(i - 1)) + Run(d) /\ rankOf(a(i)) = rankOf(a(i - 1)) + Rise(d)
    BY <1>3, <2>1, <2>2, Step
  <2>4. (i - 1) * Run(d) + Run(d) = i * Run(d) /\ (i - 1) * Rise(d) + Rise(d) = i * Rise(d)
        /\ (i - 1) * Run(d) \in Int /\ (i - 1) * Rise(d) \in Int
    <3>1. i \in Int
      OBVIOUS
    <3>2. \A k \in {0, 1, -1} : (i - 1) * k + k = i * k /\ (i - 1) * k \in Int
      BY <3>1
    <3> QED BY <1>1, <3>2
  <2>5. fileOf(a(i)) = fileOf(s) + i * Run(d)
    BY <1>1, <1>3, <2>3, <2>4
  <2>6. rankOf(a(i)) = rankOf(s) + i * Rise(d)
    BY <1>1, <1>3, <2>3, <2>4
  <2> QED BY <2>1, <2>5, <2>6
<1> HIDE DEF Is
<1>4. 1 <= n => Is(1) BY <1>2, <1>3
<1>5. 2 <= n => Is(2) BY <1>3, <1>4
<1>6. 3 <= n => Is(3) BY <1>3, <1>5
<1>7. 4 <= n => Is(4) BY <1>3, <1>6
<1>8. 5 <= n => Is(5) BY <1>3, <1>7
<1>9. 6 <= n => Is(6) BY <1>3, <1>8
<1>10. 7 <= n => Is(7) BY <1>3, <1>9
<1>11. \A i \in 0 .. n : Is(i)
  <2> TAKE i \in 0 .. n
  <2>1. i \in {0, 1, 2, 3, 4, 5, 6, 7} /\ i <= n
    OBVIOUS
  <2> QED BY <1>2, <1>4, <1>5, <1>6, <1>7, <1>8, <1>9, <1>10, <2>1
<1> QED BY <1>11 DEF Is

(* The line the other way. *)
LEMMA Back ==
  ASSUME NEW d \in Directions, NEW s \in Square, NEW n \in 1 .. 7, Free(d, s, n)
  PROVE  -d \in Directions /\ Free(-d, s + n * d, n)
<1>1. -d \in Directions
  BY DirectionsAre
<1>2. s \in Int
  BY DEF Square
<1>3. ASSUME NEW i \in 1 .. n PROVE OnBoard(-d, s + n * d, i)
  <2> DEFINE a(j) == s + j * d
  <2>1. (s + n * d) + i * (-d) = a(n - i) /\ (s + n * d) + (i - 1) * (-d) = a(n - (i - 1))
    <3>1. \A k, l \in Int : (s + k * d) + l * (-d) = s + (k - l) * d
      BY <1>2, Multiples
    <3>2. n \in Int /\ i \in Int /\ i - 1 \in Int
      OBVIOUS
    <3> QED BY <3>1, <3>2
  <2>2. n - i \in 0 .. n /\ n - (i - 1) \in 1 .. n /\ n - i = (n - (i - 1)) - 1
        /\ n - (i - 1) \in 0 .. n
    OBVIOUS
  <2>3. \A j \in 0 .. n : a(j) \in Square
    BY Line
  <2>4. distance(a(n - (i - 1)), a((n - (i - 1)) - 1)) = 1
    BY <2>2 DEF Free, OnBoard
  <2> HIDE DEF a
  <2>5. distance(a(n - i), a(n - (i - 1))) = 1
    <3> DEFINE u == a(n - i)
               v == a(n - (i - 1))
    <3>1. u \in Square /\ v \in Square
      BY <2>2, <2>3
    <3>2. distance(v, u) = 1
      BY <2>2, <2>4
    <3> HIDE DEF u, v
    <3>3. distance(u, v) = 1
      BY <3>1, <3>2, DistanceSame
    <3> QED BY <3>3 DEF u, v
  <2> QED BY <2>1, <2>2, <2>3, <2>5 DEF OnBoard
<1> QED BY <1>1, <1>3 DEF Free

(* The squares between are no edges. *)
LEMMA Inside ==
  ASSUME NEW d \in Directions, NEW s \in Square, NEW n \in 1 .. 7, Free(d, s, n), NEW j \in 1 .. n - 1
  PROVE  s + j * d \in Square /\ s + j * d \notin Edges[s]
<1> DEFINE x == s + j * d
           y == s + (j + 1) * d
<1>1. j \in 0 .. n /\ j + 1 \in 0 .. n
  OBVIOUS
<1>2. /\ x \in Square /\ fileOf(x) = fileOf(s) + j * Run(d) /\ rankOf(x) = rankOf(s) + j * Rise(d)
      /\ y \in Square /\ fileOf(y) = fileOf(s) + (j + 1) * Run(d)
      /\ rankOf(y) = rankOf(s) + (j + 1) * Rise(d)
  BY <1>1, Line
<1>3. Run(d) \in {0, 1, -1} /\ Rise(d) \in {0, 1, -1}
  BY DEF Run, Rise
<1>4. /\ fileOf(s) \in 0 .. 7 /\ rankOf(s) \in 0 .. 7 /\ fileOf(x) \in 0 .. 7 /\ rankOf(x) \in 0 .. 7
      /\ fileOf(y) \in 0 .. 7 /\ rankOf(y) \in 0 .. 7
  BY <1>2, Coordinates
<1> HIDE DEF x, y
<1>5. fileOf(x) = fileOf(s) \/ fileOf(x) \in 1 .. 6
  <2>1. CASE Run(d) = 0
    BY <1>2, <1>4, <2>1
  <2>2. CASE Run(d) = 1
    BY <1>2, <1>4, <2>2
  <2>3. CASE Run(d) = -1
    BY <1>2, <1>4, <2>3
  <2> QED BY <1>3, <2>1, <2>2, <2>3
<1>6. rankOf(x) = rankOf(s) \/ rankOf(x) \in 1 .. 6
  <2>1. CASE Rise(d) = 0
    BY <1>2, <1>4, <2>1
  <2>2. CASE Rise(d) = 1
    BY <1>2, <1>4, <2>2
  <2>3. CASE Rise(d) = -1
    BY <1>2, <1>4, <2>3
  <2> QED BY <1>3, <2>1, <2>2, <2>3
<1>7. Edges[s] = ((rankBb[0] \cup rankBb[7]) \ rankBb[rankOf(s)])
                  \cup ((fileBb[0] \cup fileBb[7]) \ fileBb[fileOf(s)])
  BY DEF Edges
<1>8. \A k \in 0 .. 7 : rankBb[k] = {z \in Square : rankOf(z) = k} /\ fileBb[k] = {z \in Square : fileOf(z) = k}
  BY DEF rankBb, fileBb, Rank, File
<1>9. \A k \in 0 .. 7 : (x \in rankBb[k] <=> rankOf(x) = k) /\ (x \in fileBb[k] <=> fileOf(x) = k)
  BY <1>2, <1>8
<1>10. x \notin Edges[s]
  <2>1. 0 \in 0 .. 7 /\ 7 \in 0 .. 7
    OBVIOUS
  <2>2. x \in rankBb[0] \cup rankBb[7] => x \in rankBb[rankOf(s)]
    BY <1>4, <1>6, <1>9, <2>1
  <2>3. x \in fileBb[0] \cup fileBb[7] => x \in fileBb[fileOf(s)]
    BY <1>4, <1>5, <1>9, <2>1
  <2> QED BY <1>7, <2>2, <2>3
<1> QED BY <1>2, <1>10 DEF x

-----------------------------------------------------------------------------
(* The bitboards of a good position, and what stands where a move may go. *)
LEMMA BitboardsAre ==
  ASSUME NEW p, Good(p)
  PROVE  /\ \A c \in Color, pt \in PieceType : p.piecesBb[c][pt] = Placed(p, c, pt)
         /\ \A c \in Color : p.occupiedBb[c] = Own(p, c)
         /\ getOccupiedBb(p) = {s \in Square : p.board[s] # PIECE_NONE}
         /\ p.nextPlayer \in Color /\ Other(p.nextPlayer) \in Color
         /\ \A s \in Square : p.board[s] = PIECE_NONE \/ p.board[s] \in Piece
<1>1. /\ \A c \in Color, pt \in PieceType : p.piecesBb[c][pt] = Placed(p, c, pt)
      /\ \A c \in Color : p.occupiedBb[c] = Own(p, c)
      /\ \A s \in Square : p.board[s] = PIECE_NONE \/ p.board[s] \in Piece
  BY DEF Good, BoardOK
<1>2. p.nextPlayer \in Color /\ Other(p.nextPlayer) \in Color
  BY OtherColor DEF Good
<1>3. getOccupiedBb(p) = Own(p, WHITE) \cup Own(p, BLACK)
  BY <1>1 DEF getOccupiedBb, Color
<1>4. \A s \in Square : p.board[s] # PIECE_NONE =>
          colorOf(p.board[s]) = WHITE \/ colorOf(p.board[s]) = BLACK
  BY <1>1, PieceFacts DEF Color
<1>5. getOccupiedBb(p) = {s \in Square : p.board[s] # PIECE_NONE}
  BY <1>3, <1>4 DEF Own
<1> QED BY <1>1, <1>2, <1>5

TheirPiece(p, s) == \E ct \in PieceType : p.board[s] = makePiece(Other(p.nextPlayer), ct)

\* The squares of the opponent's pieces.
LEMMA TheirsAre ==
  ASSUME NEW p, Good(p)
  PROVE  /\ \A s \in Theirs(p) : s \in Square /\ TheirPiece(p, s)
         /\ \A mode : \A s \in Destinations(p, mode) :
              s \in Square /\ (p.board[s] = PIECE_NONE \/ TheirPiece(p, s))
<1>1. ASSUME NEW s \in Theirs(p) PROVE s \in Square /\ TheirPiece(p, s)
  <2>1. s \in Own(p, Other(p.nextPlayer))
    BY <1>1, BitboardsAre DEF Theirs
  <2>2. s \in Square /\ p.board[s] # PIECE_NONE /\ colorOf(p.board[s]) = Other(p.nextPlayer)
    BY <2>1 DEF Own
  <2>3. p.board[s] \in Piece
    BY <2>2, BitboardsAre
  <2>4. typeOf(p.board[s]) \in PieceType /\ makePiece(colorOf(p.board[s]), typeOf(p.board[s])) = p.board[s]
    BY <2>3, PieceFacts
  <2> QED BY <2>2, <2>4 DEF TheirPiece
<1>2. ASSUME NEW mode, NEW s \in Destinations(p, mode)
      PROVE  s \in Square /\ (p.board[s] = PIECE_NONE \/ TheirPiece(p, s))
  <2>1. s \in Theirs(p) \/ s \in Square \ getOccupiedBb(p)
    BY <1>2 DEF Destinations
  <2> QED BY <1>1, <2>1, BitboardsAre
<1> QED BY <1>1, <1>2

(* No piece of one's own is where one may go. *)
LEMMA Elsewhere ==
  ASSUME NEW p, Good(p), NEW s, NEW t, NEW pt \in PieceType, p.board[s] = makePiece(p.nextPlayer, pt),
         p.board[t] = PIECE_NONE \/ TheirPiece(p, t)
  PROVE  s # t
<1>1. p.board[s] # PIECE_NONE /\ colorOf(p.board[s]) = p.nextPlayer
  BY PieceFacts, BitboardsAre
<1>2. TheirPiece(p, t) => colorOf(p.board[t]) # p.nextPlayer
  BY PieceFacts, BitboardsAre, OtherColor DEF TheirPiece
<1> QED BY <1>1, <1>2

\* A square that shiftBb gives comes from one of its squares.
LEMMA Shifted ==
  ASSUME NEW d \in Int, NEW squares, squares \subseteq Square, NEW t \in shiftBb(d, squares)
  PROVE  t \in Square /\ t - d \in squares /\ t \in shiftBb(d, {t - d})
<1>1. PICK s \in squares : t = s + d
  BY DEF shiftBb
<1>2. t \in Square /\ s \in Square
  BY <1>1 DEF shiftBb
<1>3. t - d = s
  BY <1>1, <1>2 DEF Square
<1>4. t \in {u + d : u \in {s}} \cap Square
  BY <1>1, <1>2
<1>5. t \in shiftBb(d, {s})
  BY <1>4 DEF shiftBb
<1> QED BY <1>2, <1>3, <1>5

\* The pawns of the colours go in opposite directions.
LEMMA Pushes ==
  \A c \in Color : /\ pawnPush(c) \in {8, -8} /\ pawnPush(Other(c)) = -pawnPush(c)
                   /\ pawnPush(c) \in Int
BY DEF Color, WHITE, BLACK, Other, pawnPush, NORTH, SOUTH

\* A single step of a pawn is no double step.
LEMMA OneStep == \A s, t \in Square : t = s + 8 \/ t = s - 8 => distance(s, t) = 1
<1> TAKE s, t \in Square
<1>1. /\ fileOf(s) \in 0 .. 7 /\ rankOf(s) \in 0 .. 7 /\ s = 8 * rankOf(s) + fileOf(s)
      /\ fileOf(t) \in 0 .. 7 /\ rankOf(t) \in 0 .. 7 /\ t = 8 * rankOf(t) + fileOf(t)
  BY Coordinates
<1> HAVE t = s + 8 \/ t = s - 8
<1>2. fileOf(s) = fileOf(t) /\ (rankOf(t) = rankOf(s) + 1 \/ rankOf(s) = rankOf(t) + 1)
  BY <1>1
<1> DEFINE a == fileOf(s)
           b == fileOf(t)
           i == rankOf(s)
           j == rankOf(t)
<1>3. Gap(a, b) = 0 /\ Gap(i, j) = 1
  <2>1. a = b /\ a \in Int /\ i \in Int /\ j \in Int /\ (j = i + 1 \/ i = j + 1)
    BY <1>1, <1>2
  <2> HIDE DEF a, b, i, j
  <2> QED BY <2>1 DEF Gap, Larger
<1> QED BY <1>3 DEF distance, Larger

-----------------------------------------------------------------------------
(* The kinds of moves the generator makes. *)
Stepper(p, m, pt) ==
    m.from \in Square /\ m.to \in Square /\ p.board[m.from] = makePiece(p.nextPlayer, pt)
Ordinary(m) == m.type = NORMAL \/ (m.type = PROMOTION /\ m.prom \in KNIGHT .. QUEEN)
PawnTakes(p, m) ==
    /\ Stepper(p, m, PAWN) /\ Ordinary(m) /\ TheirPiece(p, m.to)
    /\ \E dir \in {WEST, EAST} :
          LET d == pawnPush(p.nextPlayer) + dir
          IN m.from = m.to - d /\ m.to \in shiftBb(d, {m.from})
PawnPasses(p, m) ==
    /\ Stepper(p, m, PAWN) /\ m.type = ENPASSANT
    /\ p.enPassantSquare # SQ_NONE /\ m.to = p.enPassantSquare
    /\ \E dir \in {WEST, EAST} : m.to = m.from + pawnPush(p.nextPlayer) - dir
PawnSteps(p, m) ==
    /\ Stepper(p, m, PAWN) /\ Ordinary(m) /\ p.board[m.to] = PIECE_NONE
    /\ m.from = m.to - pawnPush(p.nextPlayer)
PawnJumps(p, m) ==
    /\ Stepper(p, m, PAWN) /\ m.type = NORMAL /\ p.board[m.to] = PIECE_NONE
    /\ Behind(p, m) \in Square
    /\ m.from = (m.to - pawnPush(p.nextPlayer)) - pawnPush(p.nextPlayer)
    /\ p.board[Behind(p, m)] = PIECE_NONE
    /\ Behind(p, m) \in Rank(pawnDoubleRank(p.nextPlayer))
PieceGoes(p, m) ==
    /\ m.type = NORMAL
    /\ p.board[m.to] = PIECE_NONE \/ TheirPiece(p, m.to)
    /\ \E pt \in KNIGHT .. QUEEN :
          Stepper(p, m, pt) /\ m.to \in getAttacksBb(pt, m.from, getOccupiedBb(p))
KingGoes(p, m) ==
    /\ m.type = NORMAL /\ Stepper(p, m, KING)
    /\ p.board[m.to] = PIECE_NONE \/ TheirPiece(p, m.to)
    /\ m.to \in kingAttacks[m.from]
Castles(p, m) ==
    m.type = CASTLING /\ m.from \in Square /\ m.to \in Square /\ CastlingShape(p, m)
Generated(p, m) ==
    \/ PawnTakes(p, m) \/ PawnPasses(p, m) \/ PawnSteps(p, m) \/ PawnJumps(p, m)
    \/ PieceGoes(p, m) \/ KingGoes(p, m) \/ Castles(p, m)

\* The fields of the moves that are generated.
LEMMA Made ==
  /\ \A from, to, type : /\ createMove(from, to, type).from = from
                         /\ createMove(from, to, type).to = to
                         /\ createMove(from, to, type).type = type
  /\ \A from, to, pts, m : m \in Promotions(from, to, pts) =>
        m.from = from /\ m.to = to /\ m.type = PROMOTION /\ m.prom \in pts
BY DEF createMove, createPromotion, Promotions


\* What the generator makes of the pawns' captures.
LEMMA TakesGenerated ==
  ASSUME NEW p, Good(p), NEW m, m \in PawnCaptures(p, Square)
  PROVE  PawnTakes(p, m) \/ PawnPasses(p, m) \/ PawnSteps(p, m)
<1> DEFINE us == p.nextPlayer
           up == pawnPush(us)
           myPawns == p.piecesBb[us][PAWN]
           back == pawnPush(Other(us))
           captures(dir) == shiftBb(up + dir, myPawns) \cap Theirs(p) \cap Square
           promCaptures(dir) == captures(dir) \cap rankBb[promotionRank(us)]
           prom(dir) == UNION {Promotions(t + back - dir, t, KNIGHT .. QUEEN) : t \in promCaptures(dir)}
           plain(dir) == {createMove(t + back - dir, t, NORMAL) : t \in captures(dir) \ promCaptures(dir)}
           passing(dir) == {createMove(s, s + up - dir, ENPASSANT) :
                              s \in shiftBb(back + dir, {p.enPassantSquare} \ {SQ_NONE}) \cap myPawns}
           promMoves == ((shiftBb(up, myPawns) \ getOccupiedBb(p)) \cap rankBb[promotionRank(us)]) \cap Square
<1>1. \/ \E dir \in {WEST, EAST} : m \in prom(dir) \/ m \in plain(dir) \/ m \in passing(dir)
      \/ \E t \in promMoves : m \in Promotions(t + back, t, {QUEEN, KNIGHT})
  <2>1. PawnCaptures(p, Square) =
          (UNION {(prom(dir) \cup plain(dir)) \cup passing(dir) : dir \in {WEST, EAST}})
            \cup (UNION {Promotions(t + back, t, {QUEEN, KNIGHT}) : t \in promMoves})
    BY Zenon DEF PawnCaptures
  <2> HIDE DEF prom, plain, passing, promMoves, back
  <2>2. m \in UNION {(prom(dir) \cup plain(dir)) \cup passing(dir) : dir \in {WEST, EAST}}
        \/ m \in UNION {Promotions(t + back, t, {QUEEN, KNIGHT}) : t \in promMoves}
    BY <2>1
  <2> HIDE DEF up, myPawns, us
  <2>3. CASE m \in UNION {(prom(dir) \cup plain(dir)) \cup passing(dir) : dir \in {WEST, EAST}}
    BY <2>3
  <2>4. CASE m \in UNION {Promotions(t + back, t, {QUEEN, KNIGHT}) : t \in promMoves}
    BY <2>4
  <2> QED BY <2>2, <2>3, <2>4
<1>2. /\ us \in Color /\ up \in Int /\ back = -up
      /\ \A dir \in {WEST, EAST} : up + dir \in Int /\ back + dir \in Int /\ dir \in Int
  BY BitboardsAre, Pushes DEF WEST, EAST
<1>3. PAWN \in PieceType /\ myPawns = Placed(p, us, PAWN)
  BY BitboardsAre DEF PAWN, PieceType, KING, QUEEN
<1>4. myPawns \subseteq Square /\ \A s \in myPawns : p.board[s] = makePiece(us, PAWN)
  BY <1>3 DEF Placed
<1>5. ASSUME NEW dir \in {WEST, EAST}, NEW t \in captures(dir)
      PROVE  /\ t \in Square /\ t - (up + dir) \in myPawns /\ t \in shiftBb(up + dir, {t - (up + dir)})
             /\ TheirPiece(p, t) /\ t + back - dir = t - (up + dir)
  <2>1. t \in shiftBb(up + dir, myPawns) /\ t \in Theirs(p)
    OBVIOUS
  <2> HIDE DEF us, up, myPawns, back, captures
  <2>2. t \in Square /\ t - (up + dir) \in myPawns /\ t \in shiftBb(up + dir, {t - (up + dir)})
    BY <1>2, <1>4, <2>1, Shifted
  <2>3. TheirPiece(p, t)
    BY <2>1, TheirsAre
  <2>4. t + back - dir = t - (up + dir)
    BY <1>2, <2>2 DEF Square
  <2> QED BY <2>2, <2>3, <2>4
<1>6. ASSUME NEW dir \in {WEST, EAST}, m \in prom(dir) PROVE PawnTakes(p, m)
  <2>1. PICK t \in promCaptures(dir) : m \in Promotions(t + back - dir, t, KNIGHT .. QUEEN)
    BY <1>6
  <2>2. m.from = t + back - dir /\ m.to = t /\ m.type = PROMOTION /\ m.prom \in KNIGHT .. QUEEN
    BY <2>1, Made
  <2>3. t \in captures(dir)
    OBVIOUS
  <2> HIDE DEF myPawns, back, captures, promCaptures, prom
  <2>4. m.from = m.to - (up + dir) /\ m.from \in myPawns /\ m.to \in shiftBb(up + dir, {m.from})
        /\ TheirPiece(p, m.to) /\ m.to \in Square
    BY <1>5, <2>2, <2>3
  <2>5. Stepper(p, m, PAWN)
    BY <1>4, <2>4 DEF Stepper
  <2> QED BY <2>2, <2>4, <2>5 DEF PawnTakes, Ordinary
<1>7. ASSUME NEW dir \in {WEST, EAST}, m \in plain(dir) PROVE PawnTakes(p, m)
  <2>1. PICK t \in captures(dir) : m = createMove(t + back - dir, t, NORMAL)
    BY <1>7
  <2>2. m.from = t + back - dir /\ m.to = t /\ m.type = NORMAL
    BY <2>1, Made
  <2> HIDE DEF myPawns, back, captures, promCaptures, plain
  <2>4. m.from = m.to - (up + dir) /\ m.from \in myPawns /\ m.to \in shiftBb(up + dir, {m.from})
        /\ TheirPiece(p, m.to) /\ m.to \in Square
    BY <1>5, <2>1, <2>2
  <2>5. Stepper(p, m, PAWN)
    BY <1>4, <2>4 DEF Stepper
  <2> QED BY <2>2, <2>4, <2>5 DEF PawnTakes, Ordinary
<1>8. ASSUME NEW dir \in {WEST, EAST}, m \in passing(dir) PROVE PawnPasses(p, m)
  <2> DEFINE ep == p.enPassantSquare
  <2>1. PICK s \in shiftBb(back + dir, {ep} \ {SQ_NONE}) \cap myPawns :
            m = createMove(s, s + up - dir, ENPASSANT)
    BY <1>8
  <2>2. m.from = s /\ m.to = s + up - dir /\ m.type = ENPASSANT
    BY <2>1, Made
  <2> HIDE DEF up, myPawns, back, passing
  <2>3. ep = SQ_NONE \/ ep \in Square
    BY DEF Good, EnPassantOK
  <2>4. s - (back + dir) \in {ep} \ {SQ_NONE} /\ s \in Square
    <3>1. {ep} \ {SQ_NONE} \subseteq Square
      BY <2>3
    <3>2. s \in shiftBb(back + dir, {ep} \ {SQ_NONE}) /\ back + dir \in Int
      BY <1>2, <2>1
    <3> HIDE DEF ep
    <3> QED BY <3>1, <3>2, Shifted
  <2>5. s - (back + dir) = s + up - dir
    BY <1>2, <2>4 DEF Square
  <2>6. m.to = ep /\ ep # SQ_NONE
    BY <2>2, <2>4, <2>5
  <2>7. Stepper(p, m, PAWN)
    BY <1>4, <2>1, <2>2, <2>3, <2>4, <2>6 DEF Stepper
  <2>8. \E e \in {WEST, EAST} : m.to = m.from + pawnPush(p.nextPlayer) - e
    BY <2>2 DEF up
  <2> QED BY <2>2, <2>6, <2>7, <2>8 DEF PawnPasses
<1>9. ASSUME NEW t \in promMoves, m \in Promotions(t + back, t, {QUEEN, KNIGHT}) PROVE PawnSteps(p, m)
  <2>1. m.from = t + back /\ m.to = t /\ m.type = PROMOTION /\ m.prom \in {QUEEN, KNIGHT}
    BY <1>9, Made
  <2>2. t \in shiftBb(up, myPawns) /\ t \notin getOccupiedBb(p)
    OBVIOUS
  <2> HIDE DEF up, myPawns, back, promMoves
  <2>3. t \in Square /\ t - up \in myPawns
    BY <1>2, <1>4, <2>2, Shifted
  <2>4. t + back = t - up
    BY <1>2, <2>3 DEF Square
  <2>5. p.board[m.to] = PIECE_NONE
    BY <2>1, <2>2, <2>3, BitboardsAre
  <2>6. Stepper(p, m, PAWN)
    BY <1>4, <2>1, <2>3, <2>4 DEF Stepper
  <2>7. m.prom \in KNIGHT .. QUEEN
    BY <2>1 DEF KNIGHT, QUEEN
  <2> QED BY <2>1, <2>4, <2>5, <2>6, <2>7 DEF PawnSteps, Ordinary, up
<1> HIDE DEF prom, plain, passing, promMoves
<1> QED BY <1>1, <1>6, <1>7, <1>8, <1>9

-----------------------------------------------------------------------------

\* What the generator makes of the pawns' steps.
LEMMA PushesGenerated ==
  ASSUME NEW p, Good(p), NEW m, m \in PawnPushes(p, Square)
  PROVE  PawnSteps(p, m) \/ PawnJumps(p, m)
<1> DEFINE us == p.nextPlayer
           up == pawnPush(us)
           myPawns == p.piecesBb[us][PAWN]
           back == pawnPush(Other(us))
           occupied == getOccupiedBb(p)
           single == shiftBb(up, myPawns) \ occupied
           double == (shiftBb(up, single \cap rankBb[pawnDoubleRank(us)]) \ occupied) \cap Square
           promMoves == (single \cap Square) \cap rankBb[promotionRank(us)]
           proms == UNION {Promotions(t + back, t, {ROOK, BISHOP}) : t \in promMoves}
           jumps == {createMove(t + 2 * back, t, NORMAL) : t \in double}
           steps == {createMove(t + back, t, NORMAL) : t \in (single \cap Square) \ promMoves}
<1>1. PawnPushes(p, Square) = proms \cup jumps \cup steps
  BY Zenon DEF PawnPushes
<1>2. us \in Color /\ up \in {8, -8} /\ back = -up /\ up \in Int
  BY BitboardsAre, Pushes
<1>3. PAWN \in PieceType /\ myPawns = Placed(p, us, PAWN)
  BY BitboardsAre DEF PAWN, PieceType, KING, QUEEN
<1>4. myPawns \subseteq Square /\ \A s \in myPawns : p.board[s] = makePiece(us, PAWN)
  BY <1>3 DEF Placed
<1>5. ASSUME NEW t \in single
      PROVE  t \in Square /\ t - up \in myPawns /\ p.board[t] = PIECE_NONE /\ t + back = t - up
  <2>1. t \in shiftBb(up, myPawns) /\ t \notin occupied
    OBVIOUS
  <2> HIDE DEF up, myPawns, back, occupied, single
  <2>2. t \in Square /\ t - up \in myPawns
    BY <1>2, <1>4, <2>1, Shifted
  <2>3. p.board[t] = PIECE_NONE
    BY <2>1, <2>2, BitboardsAre DEF occupied
  <2>4. t + back = t - up
    BY <1>2, <2>2 DEF Square
  <2> QED BY <2>2, <2>3, <2>4
<1>6. ASSUME NEW t \in single, m.from = t + back, m.to = t, Ordinary(m) PROVE PawnSteps(p, m)
  <2>1. t \in Square /\ t - up \in myPawns /\ p.board[t] = PIECE_NONE /\ t + back = t - up
    BY <1>5
  <2> HIDE DEF myPawns, back, single
  <2>2. Stepper(p, m, PAWN)
    BY <1>4, <1>6, <2>1 DEF Stepper
  <2> QED BY <1>6, <2>1, <2>2 DEF PawnSteps
<1>7. ASSUME m \in proms PROVE PawnSteps(p, m)
  <2>1. PICK t \in promMoves : m \in Promotions(t + back, t, {ROOK, BISHOP})
    BY <1>7
  <2>2. m.from = t + back /\ m.to = t /\ m.type = PROMOTION /\ m.prom \in {ROOK, BISHOP}
    BY <2>1, Made
  <2>3. t \in single
    OBVIOUS
  <2>4. Ordinary(m)
    BY <2>2 DEF Ordinary, ROOK, BISHOP, KNIGHT, QUEEN
  <2> QED BY <1>6, <2>2, <2>3, <2>4
<1>8. ASSUME m \in steps PROVE PawnSteps(p, m)
  <2>1. PICK t \in single : m = createMove(t + back, t, NORMAL)
    BY <1>8
  <2>2. m.from = t + back /\ m.to = t /\ m.type = NORMAL
    BY <2>1, Made
  <2> QED BY <1>6, <2>2 DEF Ordinary
<1>9. ASSUME m \in jumps PROVE PawnJumps(p, m)
  <2>1. PICK t \in double : m = createMove(t + 2 * back, t, NORMAL)
    BY <1>9
  <2>2. m.from = t + 2 * back /\ m.to = t /\ m.type = NORMAL
    BY <2>1, Made
  <2>3. t \in shiftBb(up, single \cap rankBb[pawnDoubleRank(us)]) /\ t \notin occupied
    OBVIOUS
  <2>4. single \cap rankBb[pawnDoubleRank(us)] \subseteq Square
    BY <1>5
  <2>5. t \in Square /\ t - up \in single \cap rankBb[pawnDoubleRank(us)]
    <3> HIDE DEF up, single, us
    <3> QED BY <1>2, <2>3, <2>4, Shifted
  <2>6. (t - up) - up \in myPawns /\ p.board[t - up] = PIECE_NONE /\ t - up \in Square
    BY <1>5, <2>5
  <2>7. p.board[t] = PIECE_NONE
    BY <2>3, <2>5, BitboardsAre
  <2> HIDE DEF up, myPawns, back, single, double, occupied
  <2>8. t + 2 * back = (t - up) - up /\ t + back = t - up
    BY <1>2, <2>5 DEF Square
  <2>9. Stepper(p, m, PAWN)
    BY <1>4, <2>2, <2>5, <2>6, <2>8 DEF Stepper
  <2>10. Behind(p, m) = t - up
    BY <2>2, <2>8 DEF Behind, back, us
  <2>11. pawnDoubleRank(us) \in 0 .. 7
    BY <1>2 DEF pawnDoubleRank, Color, WHITE, BLACK
  <2>12. Behind(p, m) \in Rank(pawnDoubleRank(us))
    BY <2>5, <2>10, <2>11 DEF rankBb
  <2>13. m.from = (m.to - up) - up
    BY <2>2, <2>8
  <2> QED BY <2>2, <2>6, <2>7, <2>9, <2>10, <2>12, <2>13 DEF PawnJumps, up
<1> HIDE DEF proms, jumps, steps
<1> QED BY <1>1, <1>7, <1>8, <1>9

\* What the generator makes of knights, bishops, rooks and queens.
LEMMA PiecesGenerated ==
  ASSUME NEW p, Good(p), NEW mode, NEW m, m \in generateMoves(p, mode, Square)
  PROVE  PieceGoes(p, m)
<1> DEFINE us == p.nextPlayer
           squares == Destinations(p, mode) \cap Square
<1>1a. PICK pt \in KNIGHT .. QUEEN :
          \E from \in p.piecesBb[us][pt] :
             \E t \in getAttacksBb(pt, from, getOccupiedBb(p)) \cap squares : m = createMove(from, t, NORMAL)
  BY DEF generateMoves
<1>1b. PICK from \in p.piecesBb[us][pt] :
          \E t \in getAttacksBb(pt, from, getOccupiedBb(p)) \cap squares : m = createMove(from, t, NORMAL)
  BY <1>1a
<1>1. PICK t \in getAttacksBb(pt, from, getOccupiedBb(p)) \cap squares : m = createMove(from, t, NORMAL)
  BY <1>1b
<1>2. pt \in PieceType /\ us \in Color
  BY BitboardsAre DEF KNIGHT, QUEEN, PieceType, KING
<1>3. from \in Placed(p, us, pt)
  BY <1>2, BitboardsAre
<1>4. m.from = from /\ m.to = t /\ m.type = NORMAL
  BY <1>1, Made
<1>5. t \in Square /\ (p.board[t] = PIECE_NONE \/ TheirPiece(p, t))
  BY TheirsAre
<1>6. Stepper(p, m, pt)
  BY <1>3, <1>4, <1>5 DEF Stepper, Placed
<1> QED BY <1>1, <1>4, <1>5, <1>6 DEF PieceGoes

\* What the generator makes of the king.
LEMMA KingsGenerated ==
  ASSUME NEW p, Good(p), NEW mode, NEW m, m \in generateKingMoves(p, mode, FALSE)
  PROVE  KingGoes(p, m)
<1> DEFINE us == p.nextPlayer
           from == CHOOSE s \in p.piecesBb[us][KING] : TRUE
<1>1. PICK t \in kingAttacks[from] \cap Destinations(p, mode) : m = createMove(from, t, NORMAL)
  BY DEF generateKingMoves
<1>2. KING \in PieceType /\ us \in Color
  BY BitboardsAre DEF PieceType, KING, QUEEN
<1>3. p.piecesBb[us][KING] = Placed(p, us, KING)
  BY <1>2, BitboardsAre
<1>4. p.kingSquare[us] \in Placed(p, us, KING)
  BY <1>2 DEF Good, KingsOK, Placed
<1>5. from \in Placed(p, us, KING)
  BY <1>3, <1>4
<1> HIDE DEF from
<1>6. m.from = from /\ m.to = t /\ m.type = NORMAL
  BY <1>1, Made
<1>7. t \in Square /\ (p.board[t] = PIECE_NONE \/ TheirPiece(p, t))
  BY TheirsAre
<1>8. Stepper(p, m, KING)
  BY <1>5, <1>6, <1>7 DEF Stepper, Placed
<1> QED BY <1>1, <1>6, <1>7, <1>8 DEF KingGoes

-----------------------------------------------------------------------------
(* The squares a slider passes are between its square and where it gets. *)
LEMMA Passed ==
  ASSUME NEW d \in Directions, NEW s \in Square, NEW n \in 1 .. 7, Free(d, s, n), NEW i \in 1 .. n - 1
  PROVE  s + i * d \in intermediateBb[s][s + n * d]
<1> DEFINE t == s + n * d
           x == s + i * d
<1>1. s \in Int /\ n \in Int /\ i \in Int /\ i < n /\ i \in 1 .. 7
  BY DEF Square
<1>2. t \in Square
  <2>1. n \in 0 .. n /\ n \in 0 .. 7
    OBVIOUS
  <2> QED BY <2>1, Line
<1>3. t \in Ray(d, s, {})
  BY RayIs
<1>4. x \in Ray(d, s, {})
  <2>1. Free(d, s, i)
    BY DEF Free
  <2> QED BY <1>1, <2>1, RayIs
<1>5. \A k \in 0 .. 7 : x # t + k * d
  <2> TAKE k \in 0 .. 7
  <2>1. d \in {8, 1, -8, -1, 9, -7, -9, 7}
    BY DirectionsAre
  <2>2. i # n + k /\ k \in Int
    BY <1>1
  <2>3. CASE d = 8 BY <1>1, <2>2, <2>3
  <2>4. CASE d = 1 BY <1>1, <2>2, <2>4
  <2>5. CASE d = -8 BY <1>1, <2>2, <2>5
  <2>6. CASE d = -1 BY <1>1, <2>2, <2>6
  <2>7. CASE d = 9 BY <1>1, <2>2, <2>7
  <2>8. CASE d = -7 BY <1>1, <2>2, <2>8
  <2>9. CASE d = -9 BY <1>1, <2>2, <2>9
  <2>10. CASE d = 7 BY <1>1, <2>2, <2>10
  <2> QED BY <2>1, <2>3, <2>4, <2>5, <2>6, <2>7, <2>8, <2>9, <2>10
<1>6. x # t
  <2>1. t + 0 * d = t
    BY <1>2, Multiples DEF Square
  <2> QED BY <1>5, <2>1
<1> HIDE DEF t, x
<1>7. x \notin Ray(d, t, {})
  <2>1. \A k \in 1 .. 7 : x # t + k * d
    BY <1>5
  <2> QED BY <1>2, <2>1, RayIs
<1>8. rays = [e \in Directions |-> [z \in Square |-> Ray(e, z, {})]]
  BY DEF rays, Directions
<1>9. DOMAIN rays = Directions /\ rays[d][s] = Ray(d, s, {}) /\ rays[d][t] = Ray(d, t, {})
  BY <1>2, <1>8
<1>10. intermediateBb[s][t] =
         UNION {rays[e][s] \ (rays[e][t] \cup {t}) : e \in {f \in DOMAIN rays : t \in rays[f][s]}}
  BY <1>2 DEF intermediateBb
<1>11. x \in rays[d][s] \ (rays[d][t] \cup {t}) /\ d \in DOMAIN rays /\ t \in rays[d][s]
  BY <1>3, <1>4, <1>6, <1>7, <1>9
<1>12. x \in intermediateBb[s][t]
  BY <1>10, <1>11
<1> QED BY <1>12 DEF t, x

\* The rank from a king to its rooks is a free line.
LEMMA Sideways ==
  \A king \in {4, 60}, d \in {1, -1} :
     d \in Directions /\ king \in Square /\ Free(d, king, IF d = 1 THEN 3 ELSE 4)
<1> TAKE king \in {4, 60}, d \in {1, -1}
<1>1. d \in Directions /\ king \in Square
  BY DirectionsAre DEF Square
<1>2. CASE d = 1
  <2>1. ASSUME NEW i \in 1 .. 3 PROVE OnBoard(1, king, i)
    <3>1. CASE i = 1
      BY <3>1 DEF OnBoard, Square, distance, Larger, Gap, fileOf, rankOf
    <3>2. CASE i = 2
      BY <3>2 DEF OnBoard, Square, distance, Larger, Gap, fileOf, rankOf
    <3>3. CASE i = 3
      BY <3>3 DEF OnBoard, Square, distance, Larger, Gap, fileOf, rankOf
    <3> QED BY <3>1, <3>2, <3>3
  <2> QED BY <1>1, <1>2, <2>1 DEF Free
<1>3. CASE d = -1
  <2>1. ASSUME NEW i \in 1 .. 4 PROVE OnBoard(-1, king, i)
    <3>1. CASE i = 1
      BY <3>1 DEF OnBoard, Square, distance, Larger, Gap, fileOf, rankOf
    <3>2. CASE i = 2
      BY <3>2 DEF OnBoard, Square, distance, Larger, Gap, fileOf, rankOf
    <3>3. CASE i = 3
      BY <3>3 DEF OnBoard, Square, distance, Larger, Gap, fileOf, rankOf
    <3>4. CASE i = 4
      BY <3>4 DEF OnBoard, Square, distance, Larger, Gap, fileOf, rankOf
    <3> QED BY <3>1, <3>2, <3>3, <3>4
  <2> QED BY <1>1, <1>3, <2>1 DEF Free
<1> QED BY <1>2, <1>3

\* The squares a castling king and its rook cross.
LEMMA WayIs ==
  \A king \in {4, 60} : /\ {king + 1, king + 2} \subseteq intermediateBb[king][king + 3]
                        /\ {king - 1, king - 2} \subseteq intermediateBb[king][king - 4]
<1> TAKE king \in {4, 60}
<1>1. ASSUME NEW i \in 1 .. 2 PROVE king + i * 1 \in intermediateBb[king][king + 3 * 1]
  <2>1. 1 \in Directions /\ king \in Square /\ Free(1, king, 3)
    BY Sideways
  <2>2. i \in 1 .. 3 - 1 /\ 3 \in 1 .. 7
    OBVIOUS
  <2> QED BY <2>1, <2>2, Passed
<1>2. ASSUME NEW i \in 1 .. 2 PROVE king + i * (-1) \in intermediateBb[king][king + 4 * (-1)]
  <2>1. -1 \in Directions /\ king \in Square /\ Free(-1, king, 4)
    BY Sideways
  <2>2. i \in 1 .. 4 - 1 /\ 4 \in 1 .. 7
    OBVIOUS
  <2> HIDE DEF Directions
  <2> QED BY <2>1, <2>2, Passed
<1>3. king + 1 * 1 = king + 1 /\ king + 2 * 1 = king + 2 /\ king + 3 * 1 = king + 3
      /\ king + 1 * (-1) = king - 1 /\ king + 2 * (-1) = king - 2 /\ king + 4 * (-1) = king - 4
  OBVIOUS
<1>4. 1 \in 1 .. 2 /\ 2 \in 1 .. 2
  OBVIOUS
<1>5. king + 1 \in intermediateBb[king][king + 3] /\ king + 2 \in intermediateBb[king][king + 3]
  BY <1>1, <1>3, <1>4
<1>6. king - 1 \in intermediateBb[king][king - 4] /\ king - 2 \in intermediateBb[king][king - 4]
  BY <1>2, <1>3, <1>4
<1> QED BY <1>5, <1>6

\* The squares of a castling rook.
LEMMA Corners ==
  \A king \in {4, 60} :
     /\ rookCorner[king + 2] = king + 3 /\ rookCrossing[king + 2] = king + 1
     /\ rookCorner[king - 2] = king - 4 /\ rookCrossing[king - 2] = king - 1
<1>1. castlingTarget = {6, 2, 62, 58}
  BY DEF castlingTarget, G1, C1, G8, C8
<1>2. rookCorner = [s \in {6, 2, 62, 58} |-> IF s \in {6, 62} THEN s + 1 ELSE s + 2 * (-1)]
  BY <1>1 DEF rookCorner, G1, G8, EAST, WEST
<1>3. rookCrossing = [s \in {6, 2, 62, 58} |-> IF s \in {6, 62} THEN s + (-1) ELSE s + 1]
  BY <1>1 DEF rookCrossing, G1, G8, EAST, WEST
<1> QED BY <1>2, <1>3

\* What the generator makes of the castling rights.
LEMMA CastlingGenerated ==
  ASSUME NEW p, Good(p), NEW m, m \in generateCastling(p)
  PROVE  Castles(p, m)
<1> DEFINE us == p.nextPlayer
           king == IF us = WHITE THEN E1 ELSE E8
           Way(corner) == intermediateBb[king][corner] \cap getOccupiedBb(p)
<1>1. us \in Color /\ king \in {4, 60} /\ king = (IF us = WHITE THEN 4 ELSE 60)
  BY BitboardsAre DEF E1, E8
<1>2. \/ OO(us) \in p.castlingRights /\ Way(king + 3) = {} /\ m = createMove(king, king + 2, CASTLING)
      \/ OOO(us) \in p.castlingRights /\ Way(king - 4) = {} /\ m = createMove(king, king - 2, CASTLING)
  <2>1. king + 3 * EAST = king + 3 /\ king + 2 * EAST = king + 2
        /\ king + 4 * WEST = king - 4 /\ king + 2 * WEST = king - 2
    BY <1>1 DEF EAST, WEST
  <2>2. generateCastling(p) =
          {createMove(king, king + 2 * EAST, CASTLING) :
              c \in {d \in {us} : OO(d) \in p.castlingRights /\ Way(king + 3 * EAST) = {}}}
          \cup
          {createMove(king, king + 2 * WEST, CASTLING) :
              c \in {d \in {us} : OOO(d) \in p.castlingRights /\ Way(king + 4 * WEST) = {}}}
    BY Zenon DEF generateCastling
  <2> HIDE DEF us, king, Way
  <2>3. CASE m \in {createMove(king, king + 2 * EAST, CASTLING) :
              c \in {d \in {us} : OO(d) \in p.castlingRights /\ Way(king + 3 * EAST) = {}}}
    BY <2>1, <2>3
  <2>4. CASE m \in {createMove(king, king + 2 * WEST, CASTLING) :
              c \in {d \in {us} : OOO(d) \in p.castlingRights /\ Way(king + 4 * WEST) = {}}}
    BY <2>1, <2>4
  <2> QED BY <2>2, <2>3, <2>4
<1>3. /\ OO(us) \in p.castlingRights =>
            p.board[king] = makePiece(us, KING) /\ p.board[king + 3] = makePiece(us, ROOK)
      /\ OOO(us) \in p.castlingRights =>
            p.board[king] = makePiece(us, KING) /\ p.board[king - 4] = makePiece(us, ROOK)
  BY <1>1 DEF Good, RightsMatch
<1>4. \A corner, x : Way(corner) = {} /\ x \in intermediateBb[king][corner] /\ x \in Square =>
          p.board[x] = PIECE_NONE
  BY BitboardsAre
<1> HIDE DEF Way
<1>5. king \in Square /\ king + 1 \in Square /\ king + 2 \in Square /\ king - 1 \in Square
      /\ king - 2 \in Square
  BY <1>1 DEF Square
<1>6. m.from = king /\ m.type = CASTLING
  BY <1>2, Made
<1>7. m.from = (IF us = WHITE THEN E1 ELSE E8)
  BY <1>6
<1>8. CASE OO(us) \in p.castlingRights /\ Way(king + 3) = {} /\ m = createMove(king, king + 2, CASTLING)
  <2>1. m.to = king + 2
    BY <1>8, Made
  <2>2. m.to \in (IF us = WHITE THEN {G1, C1} ELSE {G8, C8})
    BY <1>1, <2>1 DEF G1, G8
  <2>3. rookCorner[m.to] = king + 3 /\ rookCrossing[m.to] = king + 1
    BY <1>1, <2>1, Corners
  <2> HIDE DEF king
  <2>4. p.board[king + 2] = PIECE_NONE /\ p.board[king + 1] = PIECE_NONE
    BY <1>1, <1>4, <1>5, <1>8, WayIs
  <2> QED BY <1>3, <1>5, <1>6, <1>7, <1>8, <2>1, <2>2, <2>3, <2>4 DEF Castles, CastlingShape
<1>9. CASE OOO(us) \in p.castlingRights /\ Way(king - 4) = {} /\ m = createMove(king, king - 2, CASTLING)
  <2>1. m.to = king - 2
    BY <1>9, Made
  <2>2. m.to \in (IF us = WHITE THEN {G1, C1} ELSE {G8, C8})
    BY <1>1, <2>1 DEF C1, C8
  <2>3. rookCorner[m.to] = king - 4 /\ rookCrossing[m.to] = king - 1
    BY <1>1, <2>1, Corners
  <2> HIDE DEF king
  <2>4. p.board[king - 2] = PIECE_NONE /\ p.board[king - 1] = PIECE_NONE
    BY <1>1, <1>4, <1>5, <1>9, WayIs
  <2> QED BY <1>3, <1>5, <1>6, <1>7, <1>9, <2>1, <2>2, <2>3, <2>4 DEF Castles, CastlingShape
<1> QED BY <1>2, <1>8, <1>9

(* Every pseudo-legal move is of one of the kinds. *)
LEMMA PseudoGenerated ==
  ASSUME NEW p, Good(p), NEW m, m \in generatePseudoLegalMoves(p, GenAll, FALSE)
  PROVE  Generated(p, m)
<1>1. \/ \E mode \in {GenNonQuiet, GenQuiet} :
            \/ m \in generatePawnMoves(p, mode, Square)
            \/ m \in generateMoves(p, mode, Square)
            \/ m \in generateKingMoves(p, mode, FALSE)
      \/ m \in generateCastling(p)
  BY DEF generatePseudoLegalMoves, GenAll, Targets
<1>2. ASSUME NEW mode, m \in generatePawnMoves(p, mode, Square) PROVE Generated(p, m)
  <2>1. m \in PawnCaptures(p, Square) \/ m \in PawnPushes(p, Square)
    BY <1>2 DEF generatePawnMoves
  <2> QED BY <2>1, TakesGenerated, PushesGenerated DEF Generated
<1> QED BY <1>1, <1>2, PiecesGenerated, KingsGenerated, CastlingGenerated DEF Generated

(* So every pseudo-legal move has the shape the undo relies on. *)
LEMMA GeneratedShape ==
  ASSUME NEW p, Good(p), NEW m, Generated(p, m)
  PROVE  MoveShape(p, m)
<1> DEFINE us == p.nextPlayer
           them == Other(us)
<1>1. us \in Color /\ them \in Color /\ pawnPush(us) \in {8, -8} /\ pawnPush(them) = -pawnPush(us)
  BY BitboardsAre, Pushes
<1>2. PAWN \in PieceType /\ KING \in PieceType /\ KNIGHT .. QUEEN \subseteq PieceType /\ PAWN # KING
      /\ PAWN \notin KNIGHT .. QUEEN
  BY DEF PAWN, KING, PieceType, QUEEN, KNIGHT
<1>3. ASSUME NEW pt \in PieceType, Stepper(p, m, pt), p.board[m.to] = PIECE_NONE \/ TheirPiece(p, m.to)
      PROVE  m.from \in Square /\ m.to \in Square /\ m.from # m.to /\ LandsOn(p, m)
             /\ typeOf(p.board[m.from]) = pt
  <2>1. m.from # m.to
    BY <1>3, Elsewhere DEF Stepper
  <2>2. typeOf(p.board[m.from]) = pt
    BY <1>1, <1>3, PieceFacts DEF Stepper
  <2> QED BY <1>3, <2>1, <2>2 DEF Stepper, LandsOn, TheirPiece
<1>4. ASSUME Stepper(p, m, PAWN), Ordinary(m), p.board[m.to] = PIECE_NONE \/ TheirPiece(p, m.to),
             ~Double(p, m)
      PROVE  MoveShape(p, m)
  <2>1. m.from \in Square /\ m.to \in Square /\ m.from # m.to /\ LandsOn(p, m)
        /\ p.board[m.from] = makePiece(us, PAWN)
    BY <1>2, <1>3, <1>4 DEF Stepper
  <2>2. CASE m.type = NORMAL
    BY <1>2, <1>4, <2>1, <2>2 DEF MoveShape, NormalShape
  <2>3. CASE m.type = PROMOTION /\ m.prom \in KNIGHT .. QUEEN
    BY <2>1, <2>3 DEF MoveShape, PromotionShape
  <2> QED BY <1>4, <2>2, <2>3 DEF Ordinary
<1>5. CASE PawnTakes(p, m)
  <2>1. p.board[m.to] # PIECE_NONE
    BY <1>1, <1>5, PieceFacts DEF PawnTakes, TheirPiece
  <2> QED BY <1>4, <1>5, <2>1 DEF PawnTakes, Double
<1>6. CASE PawnSteps(p, m)
  <2>1. m.from \in Square /\ m.to \in Square /\ m.from = m.to - pawnPush(us)
    BY <1>6 DEF PawnSteps, Stepper
  <2>2. m.to = m.from + 8 \/ m.to = m.from - 8
    BY <1>1, <2>1 DEF Square
  <2>3. distance(m.from, m.to) = 1
    BY <2>1, <2>2, OneStep
  <2> QED BY <1>4, <1>6, <2>3 DEF PawnSteps, Double
<1>7. CASE PawnJumps(p, m)
  <2>1. m.from \in Square /\ m.to \in Square /\ m.from # m.to /\ LandsOn(p, m)
    BY <1>2, <1>3, <1>7 DEF PawnJumps
  <2> QED BY <1>2, <1>7, <2>1 DEF MoveShape, NormalShape, PawnJumps, Stepper
<1>8. CASE PawnPasses(p, m)
  <2>1. /\ p.board[m.to] = PIECE_NONE /\ Behind(p, m) \in Square
        /\ p.board[Behind(p, m)] = makePiece(them, PAWN)
    BY <1>8 DEF PawnPasses, Good, EnPassantOK, Behind
  <2>2. m.from \in Square /\ m.to \in Square /\ m.from # m.to
    BY <1>2, <1>3, <1>8, <2>1 DEF PawnPasses
  <2> QED BY <1>8, <2>1, <2>2 DEF MoveShape, EnPassantShape, PawnPasses, Stepper
<1>9. ASSUME NEW pt \in PieceType, pt # PAWN, Stepper(p, m, pt), m.type = NORMAL,
             p.board[m.to] = PIECE_NONE \/ TheirPiece(p, m.to)
      PROVE  MoveShape(p, m)
  <2>1. m.from \in Square /\ m.to \in Square /\ m.from # m.to /\ LandsOn(p, m)
        /\ typeOf(p.board[m.from]) = pt
    BY <1>3, <1>9
  <2>2. p.board[m.from] = makePiece(us, pt)
    BY <1>9 DEF Stepper
  <2> QED BY <1>9, <2>1, <2>2 DEF MoveShape, NormalShape, Double
<1>10. CASE PieceGoes(p, m)
  BY <1>2, <1>9, <1>10 DEF PieceGoes
<1>11. CASE KingGoes(p, m)
  BY <1>2, <1>9, <1>11 DEF KingGoes
<1>12. CASE Castles(p, m)
  BY <1>1, <1>12, CastlingSquares DEF Castles, MoveShape
<1> QED BY <1>5, <1>6, <1>7, <1>8, <1>10, <1>11, <1>12 DEF Generated

-----------------------------------------------------------------------------
(* What a piece attacks attacks it back, if it moves like it. *)
LEMMA SlidesBack ==
  ASSUME NEW dirs, dirs \subseteq Directions, \A d \in dirs : -d \in dirs,
         NEW s \in Square, NEW t \in Square, NEW occ,
         t \in sliding_attack(dirs, s, occ \cap (sliding_attack(dirs, s, {}) \ Edges[s])),
         NEW mask
  PROVE  s \in sliding_attack(dirs, t, occ \cap mask)
<1> DEFINE empty == sliding_attack(dirs, s, {})
<1>1. PICK d \in dirs : t \in Ray(d, s, occ \cap (empty \ Edges[s]))
  BY DEF sliding_attack
<1>2. d \in Directions /\ -d \in dirs
  OBVIOUS
<1>3. PICK n \in 1 .. 7 : /\ t = s + n * d
                          /\ Free(d, s, n)
                          /\ \A i \in 1 .. n - 1 : s + i * d \notin occ \cap (empty \ Edges[s])
  BY <1>1, <1>2, RayIs
<1>4. \A i \in 1 .. n - 1 : s + i * d \notin occ
  <2> TAKE i \in 1 .. n - 1
  <2>1. i \in 1 .. 7 /\ Free(d, s, i)
    BY <1>3 DEF Free
  <2>2. s + i * d \in Ray(d, s, {})
    BY <1>2, <2>1, RayIs
  <2>3. s + i * d \in empty
    BY <2>2 DEF sliding_attack
  <2>4. s + i * d \notin Edges[s]
    BY <1>2, <1>3, Inside
  <2> QED BY <1>3, <2>3, <2>4
<1>5. -d \in Directions /\ Free(-d, t, n)
  BY <1>2, <1>3, Back
<1>6. s \in Int /\ n \in Int
  BY DEF Square
<1>7. \A i \in Int : t + i * (-d) = s + (n - i) * d
  BY <1>2, <1>3, <1>6, Multiples
<1>8. s = t + n * (-d)
  <2>1. s + 0 * d = s
    BY <1>2, <1>6, Multiples
  <2>2. n - n = 0
    BY <1>6
  <2> QED BY <1>6, <1>7, <2>1, <2>2
<1>9. \A i \in 1 .. n - 1 : t + i * (-d) \notin occ \cap mask
  <2> TAKE i \in 1 .. n - 1
  <2>1. n - i \in 1 .. n - 1 /\ i \in Int
    BY <1>6
  <2> QED BY <1>4, <1>7, <2>1
<1>10. s \in Ray(-d, t, occ \cap mask)
  <2> DEFINE e == -d
             o == occ \cap mask
  <2>1. e \in Directions /\ n \in 1 .. 7 /\ s = t + n * e /\ Free(e, t, n)
        /\ \A i \in 1 .. n - 1 : t + i * e \notin o
    BY <1>5, <1>8, <1>9
  <2> HIDE DEF e, o
  <2>2. s \in Ray(e, t, o)
    BY <2>1, RayIs
  <2> QED BY <2>2 DEF e, o
<1> QED BY <1>2, <1>10 DEF sliding_attack

\* Bishop, rook, knight and king attack back what attacks them like that.
LEMMA AttacksBack ==
  ASSUME NEW s \in Square, NEW t \in Square, NEW occ
  PROVE  /\ t \in bishopAttacks(s, occ) => s \in bishopAttacks(t, occ)
         /\ t \in rookAttacks(s, occ) => s \in rookAttacks(t, occ)
         /\ t \in knightAttacks[s] => s \in knightAttacks[t]
         /\ t \in kingAttacks[s] => s \in kingAttacks[t]
<1>1. /\ bishopDirections \subseteq Directions /\ rookDirections \subseteq Directions
      /\ \A d \in bishopDirections : -d \in bishopDirections
      /\ \A d \in rookDirections : -d \in rookDirections
  <2>1. bishopDirections = {9, -7, -9, 7} /\ rookDirections = {8, 1, -8, -1}
    BY DEF bishopDirections, rookDirections, NORTH, EAST, SOUTH, WEST
  <2>2. \A d \in {9, -7, -9, 7} : -d \in {9, -7, -9, 7}
    OBVIOUS
  <2>3. \A d \in {8, 1, -8, -1} : -d \in {8, 1, -8, -1}
    OBVIOUS
  <2> QED BY <2>1, <2>2, <2>3 DEF Directions
<1>2. ASSUME t \in bishopAttacks(s, occ) PROVE s \in bishopAttacks(t, occ)
  <2>1. t \in sliding_attack(bishopDirections, s,
                 occ \cap (sliding_attack(bishopDirections, s, {}) \ Edges[s]))
    BY <1>2 DEF bishopAttacks, bishopMask
  <2>2. s \in sliding_attack(bishopDirections, t, occ \cap bishopMask[t])
    BY <1>1, <2>1, SlidesBack
  <2> QED BY <2>2 DEF bishopAttacks
<1>3. ASSUME t \in rookAttacks(s, occ) PROVE s \in rookAttacks(t, occ)
  <2>1. t \in sliding_attack(rookDirections, s,
                 occ \cap (sliding_attack(rookDirections, s, {}) \ Edges[s]))
    BY <1>3 DEF rookAttacks, rookMask
  <2>2. s \in sliding_attack(rookDirections, t, occ \cap rookMask[t])
    BY <1>1, <2>1, SlidesBack
  <2> QED BY <2>2 DEF rookAttacks
<1>4. ASSUME NEW steps, steps \subseteq Int, t \in Jumps(s, steps \cup Negated(steps))
      PROVE  s \in Jumps(t, steps \cup Negated(steps))
  <2>1. PICK d \in steps \cup Negated(steps) : t = s + d
    BY <1>4 DEF Jumps
  <2>2. d \in Int /\ -d \in steps \cup Negated(steps)
    BY <1>4 DEF Negated
  <2>3. s = t + (-d)
    BY <2>1, <2>2 DEF Square
  <2>4. distance(t, s) < 3
    BY <1>4, DistanceSame DEF Jumps
  <2> HIDE DEF Negated
  <2> QED BY <2>2, <2>3, <2>4 DEF Jumps
<1>5. knightSteps \subseteq Int /\ kingSteps \subseteq Int
  BY DEF knightSteps, kingSteps, NORTH, WEST, EAST
<1>6. /\ knightAttacks[s] = Jumps(s, knightSteps \cup Negated(knightSteps))
      /\ knightAttacks[t] = Jumps(t, knightSteps \cup Negated(knightSteps))
      /\ kingAttacks[s] = Jumps(s, kingSteps \cup Negated(kingSteps))
      /\ kingAttacks[t] = Jumps(t, kingSteps \cup Negated(kingSteps))
  BY DEF knightAttacks, kingAttacks
<1> QED BY <1>2, <1>3, <1>4, <1>5, <1>6

\* A pawn's capture is an attack of a pawn the other way.
LEMMA PawnAttacksBack ==
  ASSUME NEW c \in Color, NEW dir \in {WEST, EAST}, NEW s \in Square, NEW t \in Square,
         t \in shiftBb(pawnPush(c) + dir, {s})
  PROVE  s \in pawnAttacks[Other(c)][t]
<1> DEFINE d == pawnPush(c) + dir
<1>1. t = s + d /\ (d \in {9, -7} => t \notin fileBb[0]) /\ (d \in {7, -9} => t \notin fileBb[7])
  BY DEF shiftBb, EAST, WEST, NORTH, SOUTH
<1>2. d \in (IF c = WHITE THEN {9, 7} ELSE {-7, -9})
  BY DEF pawnPush, NORTH, SOUTH, WEST, EAST, Color, WHITE, BLACK
<1>3. -d \in (IF Other(c) = WHITE THEN pawnSteps ELSE Negated(pawnSteps))
  <2>1. pawnSteps = {7, 9}
    BY DEF pawnSteps, NORTH, WEST, EAST
  <2>2. Negated(pawnSteps) = {-7, -9}
    BY <2>1 DEF Negated
  <2>3. CASE c = WHITE
    BY <1>2, <2>2, <2>3 DEF Other, WHITE
  <2>4. CASE c = BLACK
    BY <1>2, <2>1, <2>4 DEF Other, WHITE, BLACK
  <2> QED BY <2>3, <2>4 DEF Color
<1>4. d \in {9, 7, -7, -9} /\ d \in Int
  BY <1>2
<1> HIDE DEF d
<1>5. (d \in {9, -7} => fileOf(t) # 0) /\ (d \in {7, -9} => fileOf(t) # 7)
  <2>1. fileBb[0] = {z \in Square : fileOf(z) = 0} /\ fileBb[7] = {z \in Square : fileOf(z) = 7}
    BY DEF fileBb, File
  <2> QED BY <1>1, <2>1
<1>6. distance(t, s) < 3
  <2>1. /\ fileOf(s) \in 0 .. 7 /\ rankOf(s) \in 0 .. 7 /\ s = 8 * rankOf(s) + fileOf(s)
        /\ fileOf(t) \in 0 .. 7 /\ rankOf(t) \in 0 .. 7 /\ t = 8 * rankOf(t) + fileOf(t)
    BY Coordinates
  <2> DEFINE a == fileOf(t)
             b == fileOf(s)
             i == rankOf(t)
             j == rankOf(s)
  <2>2. /\ a - b \in -1 .. 1 /\ i - j \in -1 .. 1
        /\ a \in Int /\ b \in Int /\ i \in Int /\ j \in Int
    <3>1. CASE d = 9 BY <1>1, <1>5, <2>1, <3>1
    <3>2. CASE d = 7 BY <1>1, <1>5, <2>1, <3>2
    <3>3. CASE d = -7 BY <1>1, <1>5, <2>1, <3>3
    <3>4. CASE d = -9 BY <1>1, <1>5, <2>1, <3>4
    <3> QED BY <1>4, <3>1, <3>2, <3>3, <3>4
  <2>3. distance(t, s) = Larger(Gap(a, b), Gap(i, j))
    BY DEF distance
  <2> HIDE DEF a, b, i, j
  <2>4. Gap(a, b) \in 0 .. 1 /\ Gap(i, j) \in 0 .. 1
    BY <2>2 DEF Gap, Larger
  <2> QED BY <2>3, <2>4 DEF Larger
<1>7. s = t + (-d)
  BY <1>1, <1>4 DEF Square
<1>8. Other(c) \in Color
  BY OtherColor
<1>9. pawnAttacks[Other(c)][t] = Jumps(t, IF Other(c) = WHITE THEN pawnSteps ELSE Negated(pawnSteps))
  BY <1>8 DEF pawnAttacks
<1> QED BY <1>3, <1>6, <1>7, <1>9 DEF Jumps

-----------------------------------------------------------------------------
(* A king that is not capturable is not captured. *)
LEMMA KingStays ==
  ASSUME NEW p, Good(p), ~KingCapturable(p), NEW m, Generated(p, m), m.type \in {NORMAL, PROMOTION}
  PROVE  p.board[m.to] # makePiece(Other(p.nextPlayer), KING)
<1> DEFINE us == p.nextPlayer
           them == Other(us)
           k == p.kingSquare[them]
           occ == getOccupiedBb(p)
<1>1. us \in Color /\ them \in Color /\ Other(them) = us
  BY BitboardsAre, OtherColor
<1>2. \A pt \in PieceType : p.piecesBb[us][pt] = Placed(p, us, pt)
  BY <1>1, BitboardsAre
<1>3. {KING, PAWN, KNIGHT, BISHOP, ROOK, QUEEN} \subseteq PieceType /\ KNIGHT .. QUEEN = {KNIGHT, BISHOP, ROOK, QUEEN}
  BY DEF KING, PAWN, KNIGHT, BISHOP, ROOK, QUEEN, PieceType
<1> SUFFICES ASSUME p.board[m.to] = makePiece(them, KING) PROVE FALSE
  OBVIOUS
<1>4. ~isAttacked(p, k, us)
  BY DEF KingCapturable
<1>5. /\ pawnAttacks[them][k] \cap Placed(p, us, PAWN) = {}
      /\ knightAttacks[k] \cap Placed(p, us, KNIGHT) = {}
      /\ kingAttacks[k] \cap Placed(p, us, KING) = {}
      /\ bishopAttacks(k, occ) \cap (Placed(p, us, BISHOP) \cup Placed(p, us, QUEEN)) = {}
      /\ rookAttacks(k, occ) \cap (Placed(p, us, ROOK) \cup Placed(p, us, QUEEN)) = {}
  BY <1>2, <1>3, <1>4 DEF isAttacked
<1>6. m.from \in Square /\ m.to \in Square /\ p.board[m.to] # PIECE_NONE
  <2>1. m.from \in Square /\ m.to \in Square
    BY DEF Generated, PawnTakes, PawnPasses, PawnSteps, PawnJumps, PieceGoes, KingGoes, Castles, Stepper
  <2>2. p.board[m.to] # PIECE_NONE
    BY <1>1, <1>3, PieceFacts
  <2> QED BY <2>1, <2>2
<1>7. k = m.to
  BY <1>1, <1>6 DEF Good, KingsOK
<1> HIDE DEF k, occ
<1>8. CASE PawnTakes(p, m)
  <2>1. PICK dir \in {WEST, EAST} : m.to \in shiftBb(pawnPush(us) + dir, {m.from})
    BY <1>8 DEF PawnTakes
  <2>2. m.from \in pawnAttacks[them][m.to]
    BY <1>1, <1>6, <2>1, PawnAttacksBack
  <2>3. m.from \in Placed(p, us, PAWN)
    BY <1>6, <1>8 DEF PawnTakes, Stepper, Placed
  <2> QED BY <1>5, <1>7, <2>2, <2>3
<1>9. CASE PieceGoes(p, m)
  <2>1. PICK pt \in KNIGHT .. QUEEN : Stepper(p, m, pt) /\ m.to \in getAttacksBb(pt, m.from, getOccupiedBb(p))
    BY <1>9 DEF PieceGoes
  <2>2. m.from \in Placed(p, us, pt)
    BY <1>6, <2>1 DEF Stepper, Placed
  <2>3. KNIGHT # KING /\ BISHOP \notin {KING, KNIGHT} /\ ROOK \notin {KING, KNIGHT, BISHOP}
        /\ QUEEN \notin {KING, KNIGHT, BISHOP, ROOK}
    BY DEF KING, KNIGHT, BISHOP, ROOK, QUEEN
  <2>4. CASE pt = KNIGHT
    <3>1. m.to \in knightAttacks[m.from]
      BY <2>1, <2>3, <2>4 DEF getAttacksBb
    <3> QED BY <1>5, <1>6, <1>7, <2>2, <2>4, <3>1, AttacksBack
  <2>5. CASE pt = BISHOP
    <3>1. m.to \in bishopAttacks(m.from, occ)
      BY <2>1, <2>3, <2>5 DEF getAttacksBb, occ
    <3>2. m.from \in bishopAttacks(m.to, occ)
      BY <1>6, <3>1, AttacksBack
    <3> QED BY <1>5, <1>7, <2>2, <2>5, <3>2
  <2>6. CASE pt = ROOK
    <3>1. m.to \in rookAttacks(m.from, occ)
      BY <2>1, <2>3, <2>6 DEF getAttacksBb, occ
    <3>2. m.from \in rookAttacks(m.to, occ)
      BY <1>6, <3>1, AttacksBack
    <3> QED BY <1>5, <1>7, <2>2, <2>6, <3>2
  <2>7. CASE pt = QUEEN
    <3>1. m.to \in bishopAttacks(m.from, occ) \/ m.to \in rookAttacks(m.from, occ)
      BY <2>1, <2>3, <2>7 DEF getAttacksBb, occ
    <3>2. m.from \in bishopAttacks(m.to, occ) \/ m.from \in rookAttacks(m.to, occ)
      BY <1>6, <3>1, AttacksBack
    <3> QED BY <1>5, <1>7, <2>2, <2>7, <3>2
  <2> QED BY <1>3, <2>1, <2>4, <2>5, <2>6, <2>7
<1>10. CASE KingGoes(p, m)
  <2>1. m.from \in Placed(p, us, KING) /\ m.to \in kingAttacks[m.from]
    BY <1>6, <1>10 DEF KingGoes, Stepper, Placed
  <2>2. m.from \in kingAttacks[m.to]
    BY <1>6, <2>1, AttacksBack
  <2> QED BY <1>5, <1>7, <2>1, <2>2
<1>11. ~PawnSteps(p, m) /\ ~PawnJumps(p, m)
  BY <1>6 DEF PawnSteps, PawnJumps
<1>12. ~PawnPasses(p, m) /\ ~Castles(p, m)
  BY Types DEF PawnPasses, Castles
<1> QED BY <1>8, <1>9, <1>10, <1>11, <1>12 DEF Generated

\* a pseudo-legal move of a position whose last move was legal keeps it good
LEMMA MoveStaysGood ==
  ASSUME NEW p, Good(p), ~KingCapturable(p), NEW m, m \in generatePseudoLegalMoves(p, GenAll, FALSE)
  PROVE  MoveShape(p, m) /\ Good(doMove(p, m))
BY PseudoGenerated, GeneratedShape, KingStays, GoodStays

-----------------------------------------------------------------------------
(* setupBoard: a fold over the pieces, and the other five parts. *)
Picked(s) == CHOOSE x \in s : TRUE
PlacedStep(f, s) ==
    IF s = {} THEN initializeBoard ELSE putPiece(f[s \ {Picked(s)}], Picked(s)[1], Picked(s)[2])
PlacedBy(pcs) == CHOOSE f : f = [s \in SUBSET pcs |-> PlacedStep(f, s)]
AllPlaced(fen) == PlacedBy(fen.pieces)[fen.pieces]
SetUp(placed, fen) ==
    LET key == Xor(placed.zobristKey,
                   castlingFeature(fen.castlingRights)
                     \cup (IF fen.nextPlayer = BLACK THEN nextPlayerFeature ELSE {}))
    IN [placed EXCEPT !.zobristKey = key,
                      !.nextPlayer = fen.nextPlayer,
                      !.castlingRights = fen.castlingRights,
                      !.enPassantSquare = fen.enPassantSquare,
                      !.halfMoveClock = fen.halfMoveClock,
                      !.moveNumber = Larger(fen.moveNumber, 1)]

\* setupBoard puts the pieces one by one.
LEMMA SetupIs == \A fen : setupBoard(fen) = SetUp(AllPlaced(fen), fen)
<1> TAKE fen
<1>1. FoldSet(LAMBDA piece, p : putPiece(p, piece[1], piece[2]), initializeBoard, fen.pieces) = AllPlaced(fen)
  BY Zenon DEF FoldSet, MapThenFoldSet, AllPlaced, PlacedBy, PlacedStep, Picked
<1> QED BY <1>1, Zenon DEF setupBoard, SetUp

\* Induction over the natural numbers, for a set.
LEMMA SetInduction ==
  ASSUME NEW T, 0 \in T, \A n \in Nat : n \in T => n + 1 \in T
  PROVE  Nat \subseteq T
<1> DEFINE U == Nat \ T
           rel == OpToRel(<, Nat)
<1>1. SUFFICES ASSUME U # {} PROVE FALSE
  OBVIOUS
<1>2. IsWellFoundedOn(rel, Nat)
  BY NatLessThanWellFounded
<1>3. PICK x \in U : \A y \in U : ~(<<y, x>> \in rel)
  <2>1. U \subseteq Nat
    OBVIOUS
  <2> HIDE DEF rel, U
  <2> QED BY <1>1, <1>2, <2>1, WFMin
<1>4. x \in Nat /\ x # 0 /\ x \notin T
  OBVIOUS
<1>5. x - 1 \in Nat /\ x - 1 < x
  BY <1>4
<1>6. <<x - 1, x>> \in rel
  BY <1>4, <1>5 DEF OpToRel
<1>7. x - 1 \in T
  BY <1>3, <1>5, <1>6
<1>8. (x - 1) + 1 \in T
  BY <1>5, <1>7
<1> QED BY <1>4, <1>8

(* The fold exists: a function for the sets of up to n pieces, for every n. *)
UpTo(pcs, n) == {s \in SUBSET pcs : Cardinality(s) <= n}
IsFold(f, D) == f = [s \in D |-> PlacedStep(f, s)]

\* The rest of a set without the element that is picked.
LEMMA Smaller ==
  ASSUME NEW pcs, IsFiniteSet(pcs), NEW n \in Nat, NEW s \in UpTo(pcs, n + 1), s # {}
  PROVE  /\ s \ {Picked(s)} \in UpTo(pcs, n)
         /\ Picked(s) \in s
         /\ IsFiniteSet(s) /\ Cardinality(s) \in Nat /\ Cardinality(s \ {Picked(s)}) = Cardinality(s) - 1
<1>1. s \subseteq pcs /\ IsFiniteSet(s) /\ Cardinality(s) \in Nat /\ Cardinality(s) <= n + 1
  BY FS_Subset, FS_CardinalityType DEF UpTo
<1>2. Picked(s) \in s
  BY DEF Picked
<1>3. Cardinality(s \ {Picked(s)}) = Cardinality(s) - 1
  BY <1>1, <1>2, FS_RemoveElement
<1>4. Cardinality(s \ {Picked(s)}) <= n
  BY <1>1, <1>3
<1>5. s \ {Picked(s)} \in SUBSET pcs
  BY <1>1
<1> QED BY <1>1, <1>2, <1>3, <1>4, <1>5 DEF UpTo

\* The fold over the pieces is a function of the set of them.
LEMMA FoldExists ==
  ASSUME NEW pcs, IsFiniteSet(pcs)
  PROVE  IsFold(PlacedBy(pcs), SUBSET pcs)
<1> DEFINE T == {n \in Nat : \E f : IsFold(f, UpTo(pcs, n))}
<1>1. 0 \in T
  <2> DEFINE f == [s \in UpTo(pcs, 0) |-> initializeBoard]
  <2>1. \A s \in UpTo(pcs, 0) : s = {}
    <3> TAKE s \in UpTo(pcs, 0)
    <3>1. IsFiniteSet(s) /\ Cardinality(s) \in Nat /\ Cardinality(s) <= 0
      BY FS_Subset, FS_CardinalityType DEF UpTo
    <3>2. Cardinality(s) = 0
      BY <3>1
    <3> QED BY <3>1, <3>2, FS_EmptySet
  <2>2. \A s \in UpTo(pcs, 0) : PlacedStep(f, s) = initializeBoard
    BY <2>1 DEF PlacedStep
  <2>3. f = [s \in UpTo(pcs, 0) |-> PlacedStep(f, s)]
    BY <2>2
  <2>4. IsFold(f, UpTo(pcs, 0))
    BY <2>3 DEF IsFold
  <2> QED BY <2>4
<1>2. ASSUME NEW n \in Nat, n \in T PROVE n + 1 \in T
  <2>1. PICK f : IsFold(f, UpTo(pcs, n))
    BY <1>2
  <2> DEFINE g == [s \in UpTo(pcs, n + 1) |-> PlacedStep(f, s)]
  <2>2. ASSUME NEW s \in UpTo(pcs, n + 1) PROVE PlacedStep(g, s) = PlacedStep(f, s)
    <3>1. CASE s = {}
      BY <3>1 DEF PlacedStep
    <3>2. CASE s # {}
      <4> DEFINE r == s \ {Picked(s)}
      <4>1. r \in UpTo(pcs, n)
        BY <3>2, Smaller
      <4>2. r \in UpTo(pcs, n + 1)
        BY <4>1, FS_Subset, FS_CardinalityType DEF UpTo
      <4>3. g[r] = PlacedStep(f, r)
        BY <4>2
      <4>4. f[r] = PlacedStep(f, r)
        BY <2>1, <4>1 DEF IsFold
      <4> HIDE DEF g
      <4>5. g[s \ {Picked(s)}] = f[s \ {Picked(s)}]
        BY <4>3, <4>4
      <4> QED BY <3>2, <4>5 DEF PlacedStep
    <3> QED BY <3>1, <3>2
  <2>3. g = [s \in UpTo(pcs, n + 1) |-> PlacedStep(g, s)]
    BY <2>2
  <2>4. IsFold(g, UpTo(pcs, n + 1))
    BY <2>3 DEF IsFold
  <2> QED BY <2>4
<1>3. Nat \subseteq T
  <2> HIDE DEF T
  <2> QED BY <1>1, <1>2, SetInduction
<1>4. Cardinality(pcs) \in T
  BY <1>3, FS_CardinalityType
<1>5. PICK f : IsFold(f, UpTo(pcs, Cardinality(pcs)))
  BY <1>4
<1>6. UpTo(pcs, Cardinality(pcs)) = SUBSET pcs
  <2>1. ASSUME NEW s \in SUBSET pcs PROVE Cardinality(s) <= Cardinality(pcs)
    BY FS_Subset
  <2> QED BY <2>1 DEF UpTo
<1>7. \E h : h = [s \in SUBSET pcs |-> PlacedStep(h, s)]
  BY <1>5, <1>6 DEF IsFold
<1>8. PlacedBy(pcs) = [s \in SUBSET pcs |-> PlacedStep(PlacedBy(pcs), s)]
  BY <1>7 DEF PlacedBy
<1> QED BY <1>8 DEF IsFold

(* The empty board. *)
LEMMA EmptyBoard ==
  /\ IsPosition(initializeBoard) /\ BoardOK(initializeBoard)
  /\ KeyIs(initializeBoard, {}) /\ PhaseIn(initializeBoard) /\ PhaseOf(initializeBoard) = 0
<1> DEFINE p == initializeBoard
<1>1. /\ p.board = [s \in Square |-> PIECE_NONE]
      /\ p.piecesBb = [c \in Color |-> [pt \in PieceType |-> {}]]
      /\ p.occupiedBb = [c \in Color |-> {}]
      /\ p.zobristKey = {} /\ p.pawnKey = {}
      /\ p.material = [c \in Color |-> 0] /\ p.materialNonPawn = [c \in Color |-> 0]
      /\ p.gamePhase = 0
  BY DEF initializeBoard
<1>2. IsPosition(p)
  <2>1. DOMAIN p = Fields
    BY DEF initializeBoard, Fields
  <2>2. p = [x \in DOMAIN p |-> p[x]]
    BY DEF initializeBoard
  <2> QED BY <2>1, <2>2 DEF IsPosition
<1> HIDE DEF p
<1>3. \A c \in Color, pt \in PieceType : Placed(p, c, pt) = {}
  <2> TAKE c \in Color, pt \in PieceType
  <2>1. \A s \in Square : p.board[s] = PIECE_NONE
    BY <1>1
  <2>2. makePiece(c, pt) # PIECE_NONE
    BY PieceFacts
  <2> QED BY <2>1, <2>2 DEF Placed
<1>4. \A c \in Color : Own(p, c) = {}
  BY <1>1 DEF Own
<1>5. PieceFeatures(p, {PAWN}) = {} /\ PieceFeatures(p, PieceType) = {}
  <2>1. \A s \in Square : typeOf(p.board[s]) \notin PieceType
    BY <1>1, PieceFacts
  <2>2. PAWN \in PieceType
    BY DEF PAWN, PieceType, KING, QUEEN
  <2> QED BY <2>1, <2>2 DEF PieceFeatures
<1>6. Cardinality({}) = 0
  BY FS_EmptySet
<1>7. ASSUME NEW c \in Color, NEW types PROVE Worth(p, c, types) = 0
  <2>1. \A pt \in PieceType :
           (IF pt \in types THEN pieceTypeValue[pt] * Cardinality(Placed(p, c, pt)) ELSE 0) = 0
    <3> TAKE pt \in PieceType
    <3>1. pieceTypeValue[pt] \in Int
      <4>1. pt \in 1 .. 6
        BY DEF PieceType, KING, QUEEN
      <4> QED BY <4>1 DEF pieceTypeValue
    <3>2. pieceTypeValue[pt] * 0 = 0
      BY <3>1
    <3> QED BY <1>3, <1>6, <3>2
  <2>2. [pt \in PieceType |-> IF pt \in types THEN pieceTypeValue[pt] * Cardinality(Placed(p, c, pt)) ELSE 0]
          = [pt \in PieceType |-> 0]
    BY <2>1
  <2>3. {KING, PAWN, KNIGHT, BISHOP, ROOK, QUEEN} \subseteq PieceType
    BY DEF PieceType, KING, PAWN, KNIGHT, BISHOP, ROOK, QUEEN
  <2>4. SumOverTypes([pt \in PieceType |-> 0]) = 0
    BY <2>3 DEF SumOverTypes
  <2>5. Worth(p, c, types) = SumOverTypes([pt \in PieceType |-> 0])
    BY <2>2 DEF Worth
  <2> QED BY <2>4, <2>5
<1>8. PhaseOf(p) = 0
  <2>1. \A pt \in PieceType : Both(p, pt) = 0
    BY <1>3, <1>6 DEF Both, Color
  <2>2. {KNIGHT, BISHOP, ROOK, QUEEN} \subseteq PieceType
    BY DEF PieceType, KING, KNIGHT, BISHOP, ROOK, QUEEN
  <2> QED BY <2>1, <2>2, PhaseIs
<1>9. BoardOK(p)
  <2>1. p.board \in [Square -> Piece \cup {PIECE_NONE}]
    BY <1>1
  <2>2. p.piecesBb = [c \in Color |-> [pt \in PieceType |-> Placed(p, c, pt)]]
    BY <1>1, <1>3
  <2>3. p.occupiedBb = [c \in Color |-> Own(p, c)]
    BY <1>1, <1>4
  <2>4. p.material = [c \in Color |-> Worth(p, c, PieceType)]
    BY <1>1, <1>7
  <2>5. p.materialNonPawn = [c \in Color |-> Worth(p, c, KNIGHT .. QUEEN)]
    BY <1>1, <1>7
  <2> QED BY <1>1, <1>5, <2>1, <2>2, <2>3, <2>4, <2>5 DEF BoardOK
<1>10. KeyIs(p, {}) /\ PhaseIn(p)
  BY <1>1, <1>5, <1>8 DEF KeyIs, PhaseIn
<1> QED BY <1>2, <1>8, <1>9, <1>10 DEF p

-----------------------------------------------------------------------------
\* q is the board with the pieces of s, and nothing else
PlacedOf(s, q) ==
    /\ IsPosition(q) /\ BoardOK(q) /\ KeyIs(q, {})
    /\ PhaseOf(q) <= GAME_PHASE_MAX => PhaseIn(q)
    /\ \A pc \in Piece, sq \in Square : q.board[sq] = pc <=> <<pc, sq>> \in s
    /\ q.kingSquare = [c \in Color |-> q.kingSquare[c]]
    /\ \A c \in Color, sq \in Square :
          <<makePiece(c, KING), sq>> \in s => <<makePiece(c, KING), q.kingSquare[c]>> \in s
    /\ Rest(q, WHITE, {}, SQ_NONE, 0, 1, <<>>, FLAG_TBD)

\* The empty board is the board of no pieces.
LEMMA NonePlaced == PlacedOf({}, initializeBoard)
<1> DEFINE p == initializeBoard
<1>1. \A sq \in Square : p.board[sq] = PIECE_NONE
  BY DEF initializeBoard
<1>2. p.kingSquare = [c \in Color |-> p.kingSquare[c]]
  BY DEF initializeBoard
<1>3. Rest(p, WHITE, {}, SQ_NONE, 0, 1, <<>>, FLAG_TBD)
  BY DEF initializeBoard, Rest
<1>4. \A pc \in Piece : pc # PIECE_NONE
  BY PieceFacts
<1> HIDE DEF p
<1> QED BY <1>1, <1>2, <1>3, <1>4, EmptyBoard DEF PlacedOf, p

\* One more piece is placed.
LEMMA OnePlaced ==
  ASSUME NEW pcs, pcs \subseteq Piece \X Square, \A x, y \in pcs : x[2] = y[2] => x = y,
         NEW s, s \subseteq pcs, NEW x \in s, NEW p, PlacedOf(s \ {x}, p)
  PROVE  PlacedOf(s, putPiece(p, x[1], x[2]))
<1> DEFINE pc == x[1]
           sq == x[2]
           r == s \ {x}
<1>1. x = <<pc, sq>> /\ pc \in Piece /\ sq \in Square
  OBVIOUS
<1>2. PICK d \in Color, t \in PieceType : pc = makePiece(d, t)
  BY <1>1 DEF Piece
<1>3. PICK q : q = putPiece(p, makePiece(d, t), sq)
  OBVIOUS
<1>4. IsPosition(p) /\ BoardOK(p) /\ DOMAIN p.kingSquare = Color
  BY DEF PlacedOf
<1>5. \A c \in Piece, z \in Square : p.board[z] = c <=> <<c, z>> \in r
  BY DEF PlacedOf
<1>6. p.board \in [Square -> Piece \cup {PIECE_NONE}]
  BY <1>4 DEF BoardOK
<1>7. \A c : <<c, sq>> \in s => <<c, sq>> = x
  BY <1>1
<1> HIDE DEF pc, sq, r
<1>8. p.board[sq] = PIECE_NONE
  <2>1. ASSUME p.board[sq] \in Piece PROVE FALSE
    <3>1. <<p.board[sq], sq>> \in r
      BY <1>1, <1>5, <2>1
    <3>2. <<p.board[sq], sq>> \in s /\ <<p.board[sq], sq>> # x
      BY <3>1 DEF r
    <3> QED BY <1>7, <3>2
  <2> QED BY <1>1, <1>6, <2>1
<1>9. Filled(p, q, d, t, sq)
  BY <1>1, <1>3, <1>4, <1>8, PutBoard
<1>10. IsPosition(q) /\ BoardOK(q) /\ KeyIs(q, {})
  <2>1. NoPieces({}) /\ KeyIs(p, {})
    BY DEF NoPieces, PlacedOf
  <2> QED BY <1>9, <2>1 DEF Filled, KeysFollow
<1>11. PhaseOf(q) <= GAME_PHASE_MAX => PhaseIn(q)
  <2>1. PhaseOf(q) = PhaseOf(p) + phaseValue[t] /\ PhaseOf(p) \in Nat
    BY <1>9, PhaseNat DEF Filled
  <2>2. phaseValue[t] \in 0 .. 4
    <3>1. t \in 1 .. 6
      BY DEF PieceType, KING, QUEEN
    <3> QED BY <3>1 DEF phaseValue
  <2>3. PhaseOf(q) <= GAME_PHASE_MAX => PhaseOf(p) <= GAME_PHASE_MAX
    BY <2>1, <2>2 DEF GAME_PHASE_MAX
  <2> QED BY <1>9, <2>3 DEF Filled, PlacedOf
<1>12. \A c \in Piece, z \in Square : q.board[z] = c <=> <<c, z>> \in s
  <2> TAKE c \in Piece, z \in Square
  <2>1. q.board = [p.board EXCEPT ![sq] = pc]
    BY <1>2, <1>9 DEF Filled
  <2>2. CASE z = sq
    <3>1. q.board[z] = pc
      BY <1>1, <1>6, <2>1, <2>2
    <3>2. <<c, z>> \in s <=> <<c, sq>> = <<pc, sq>>
      BY <1>1, <1>7, <2>2
    <3> QED BY <3>1, <3>2
  <2>3. CASE z # sq
    <3>1. q.board[z] = p.board[z]
      BY <1>1, <1>6, <2>1, <2>3
    <3>2. <<c, z>> # x
      BY <1>1, <2>3
    <3>3. <<c, z>> \in s <=> <<c, z>> \in r
      BY <3>2 DEF r
    <3> QED BY <1>5, <3>1, <3>3
  <2> QED BY <2>2, <2>3
<1>13. q.kingSquare = [p.kingSquare EXCEPT ![d] = IF t = KING THEN sq ELSE @]
  BY <1>9 DEF Filled
<1>14. \A c \in Color, z \in Square :
          <<makePiece(c, KING), z>> \in s => <<makePiece(c, KING), q.kingSquare[c]>> \in s
  <2> TAKE c \in Color, z \in Square
  <2> HAVE <<makePiece(c, KING), z>> \in s
  <2>1. CASE c = d /\ t = KING
    <3>1. q.kingSquare[c] = sq
      BY <1>4, <1>13, <2>1
    <3>2. <<makePiece(c, KING), sq>> = x
      BY <1>1, <1>2, <2>1
    <3> QED BY <3>1, <3>2
  <2>2. CASE ~(c = d /\ t = KING)
    <3>1. q.kingSquare[c] = p.kingSquare[c]
      BY <1>4, <1>13, <2>2
    <3>2. makePiece(c, KING) # pc
      <4>1. KING \in PieceType
        BY DEF PieceType, KING, QUEEN
      <4> QED BY <1>2, <2>2, <4>1, PieceFacts
    <3>3. <<makePiece(c, KING), z>> \in r
      BY <1>1, <3>2 DEF r
    <3>4. <<makePiece(c, KING), p.kingSquare[c]>> \in r
      BY <3>3 DEF PlacedOf, r
    <3> QED BY <3>1, <3>4 DEF r
  <2> QED BY <2>1, <2>2
<1>15. Rest(q, WHITE, {}, SQ_NONE, 0, 1, <<>>, FLAG_TBD)
  BY <1>9 DEF Filled, SameRest, PlacedOf, Rest
<1>16. q.kingSquare = [c \in Color |-> q.kingSquare[c]]
  BY <1>4, <1>13
<1>17. PlacedOf(s, q)
  BY <1>10, <1>11, <1>12, <1>14, <1>15, <1>16 DEF PlacedOf
<1> QED BY <1>2, <1>3, <1>17 DEF pc, sq

\* All pieces are placed, in whichever order.
LEMMA AllAreOnBoard ==
  ASSUME NEW pcs, IsFiniteSet(pcs), pcs \subseteq Piece \X Square, \A x, y \in pcs : x[2] = y[2] => x = y
  PROVE  PlacedOf(pcs, PlacedBy(pcs)[pcs])
<1> DEFINE F == PlacedBy(pcs)
           T == {n \in Nat : \A s \in UpTo(pcs, n) : PlacedOf(s, F[s])}
<1>1. \A s \in SUBSET pcs : F[s] = PlacedStep(F, s)
  BY FoldExists DEF IsFold
<1> HIDE DEF F
<1>2. 0 \in T
  <2>1. ASSUME NEW s \in UpTo(pcs, 0) PROVE PlacedOf(s, F[s])
    <3>1. s \in SUBSET pcs /\ IsFiniteSet(s) /\ Cardinality(s) \in Nat /\ Cardinality(s) <= 0
      BY FS_Subset, FS_CardinalityType DEF UpTo
    <3>2. Cardinality(s) = 0
      BY <3>1
    <3>3. s = {}
      BY <3>1, <3>2, FS_EmptySet
    <3>4. F[s] = initializeBoard
      BY <1>1, <3>1, <3>3 DEF PlacedStep
    <3> QED BY <3>3, <3>4, NonePlaced
  <2> QED BY <2>1
<1>3. ASSUME NEW n \in Nat, n \in T PROVE n + 1 \in T
  <2>1. ASSUME NEW s \in UpTo(pcs, n + 1) PROVE PlacedOf(s, F[s])
    <3>1. CASE s = {}
      <4>1. F[s] = initializeBoard
        BY <1>1, <3>1 DEF PlacedStep
      <4> QED BY <3>1, <4>1, NonePlaced
    <3>2. CASE s # {}
      <4> DEFINE x == Picked(s)
                 r == s \ {x}
      <4>1. x \in s /\ r \in UpTo(pcs, n) /\ s \in SUBSET pcs
        BY <3>2, Smaller DEF UpTo
      <4>2. F[s] = putPiece(F[r], x[1], x[2])
        BY <1>1, <3>2, <4>1 DEF PlacedStep
      <4>3. PlacedOf(r, F[r])
        BY <1>3, <4>1
      <4> HIDE DEF x
      <4>4. PlacedOf(s, putPiece(F[r], x[1], x[2]))
        BY <4>1, <4>3, OnePlaced
      <4> QED BY <4>2, <4>4
    <3> QED BY <3>1, <3>2
  <2> QED BY <2>1
<1>4. Nat \subseteq T
  <2> HIDE DEF T
  <2> QED BY <1>2, <1>3, SetInduction
<1>5. Cardinality(pcs) \in T
  BY <1>4, FS_CardinalityType
<1>6. pcs \in UpTo(pcs, Cardinality(pcs))
  <2>1. Cardinality(pcs) <= Cardinality(pcs)
    BY FS_CardinalityType
  <2> QED BY <2>1 DEF UpTo
<1>7. PlacedOf(pcs, F[pcs])
  BY <1>5, <1>6
<1> QED BY <1>7 DEF F

(* A position set up from a proper FEN is good. *)
LEMMA SetupFields ==
  ASSUME NEW p, IsPosition(p), NEW fen
  PROVE  LET q == SetUp(p, fen)
         IN /\ IsPosition(q) /\ SameBoard(p, q)
            /\ q.zobristKey = Xor(p.zobristKey, castlingFeature(fen.castlingRights)
                                \cup (IF fen.nextPlayer = BLACK THEN nextPlayerFeature ELSE {}))
            /\ Rest(q, fen.nextPlayer, fen.castlingRights, fen.enPassantSquare, fen.halfMoveClock,
                    Larger(fen.moveNumber, 1), p.historyState, p.hasCheckFlag)
<1> DEFINE q == SetUp(p, fen)
<1>1. DOMAIN p = Fields
  BY DEF IsPosition
<1>2. IsPosition(q)
  <2>1. DOMAIN q = Fields
    BY <1>1 DEF SetUp
  <2>2. PICK r, v : q = [r EXCEPT !.moveNumber = v]
    BY Zenon DEF SetUp
  <2>3. q = [x \in DOMAIN q |-> q[x]]
    BY <2>2
  <2> QED BY <2>1, <2>3 DEF IsPosition
<1>3. SameBoard(p, q)
  BY <1>1 DEF Fields, SetUp, SameBoard
<1>4. q.zobristKey = Xor(p.zobristKey, castlingFeature(fen.castlingRights)
                                \cup (IF fen.nextPlayer = BLACK THEN nextPlayerFeature ELSE {}))
  BY <1>1 DEF Fields, SetUp
<1>5. Rest(q, fen.nextPlayer, fen.castlingRights, fen.enPassantSquare, fen.halfMoveClock,
           Larger(fen.moveNumber, 1), p.historyState, p.hasCheckFlag)
  BY <1>1 DEF Fields, SetUp, Rest
<1> QED BY <1>2, <1>3, <1>4, <1>5

\* The position of a proper FEN is sound; its key is without an en passant square.
LEMMA SetupGood ==
  ASSUME NEW fen, ProperFen(fen)
  PROVE  LET p == setupBoard(fen)
         IN /\ Good(p) /\ p.historyState = <<>> /\ p.hasCheckFlag = FLAG_TBD
            /\ PhaseOf(p) <= GAME_PHASE_MAX => PhaseGood(p)
            /\ fen.enPassantSquare = SQ_NONE => KeyOK(p)
            /\ KeyTells(p) /\ p.halfMoveClock \in Nat
<1>1. PICK q : q = AllPlaced(fen)
  OBVIOUS
<1>2. PICK p : p = setupBoard(fen)
  OBVIOUS
<1>3. PlacedOf(fen.pieces, q)
  BY <1>1, AllAreOnBoard DEF ProperFen, AllPlaced
<1>4. /\ IsPosition(p) /\ SameBoard(q, p)
      /\ p.zobristKey = Xor(q.zobristKey, castlingFeature(fen.castlingRights)
                              \cup (IF fen.nextPlayer = BLACK THEN nextPlayerFeature ELSE {}))
      /\ Rest(p, fen.nextPlayer, fen.castlingRights, fen.enPassantSquare, fen.halfMoveClock,
              Larger(fen.moveNumber, 1), <<>>, FLAG_TBD)
  <2>1. p = SetUp(q, fen)
    BY <1>1, <1>2, SetupIs
  <2>2. IsPosition(q) /\ q.historyState = <<>> /\ q.hasCheckFlag = FLAG_TBD
    BY <1>3 DEF PlacedOf, Rest
  <2> HIDE <1>1, <1>2
  <2> QED BY <2>1, <2>2, SetupFields
<1>5. /\ p.board = q.board /\ p.kingSquare = q.kingSquare
      /\ p.nextPlayer = fen.nextPlayer /\ p.castlingRights = fen.castlingRights
      /\ p.enPassantSquare = fen.enPassantSquare /\ p.moveNumber = Larger(fen.moveNumber, 1)
      /\ p.historyState = <<>> /\ p.hasCheckFlag = FLAG_TBD
  BY <1>4 DEF SameBoard, Rest
<1>6. /\ \A c, pt : Placed(p, c, pt) = Placed(q, c, pt)
      /\ \A c : Own(p, c) = Own(q, c)
      /\ \A c, types : Worth(p, c, types) = Worth(q, c, types)
      /\ \A types : PieceFeatures(p, types) = PieceFeatures(q, types)
      /\ PhaseOf(p) = PhaseOf(q)
  BY <1>5, SameBoards
<1>7. BoardOK(p)
  BY <1>3, <1>4, <1>6 DEF BoardOK, SameBoard, PlacedOf
<1>8. \A pc \in Piece, s \in Square : p.board[s] = pc <=> Stands(fen, pc, s)
  <2>1. \A pc \in Piece, s \in Square : q.board[s] = pc <=> <<pc, s>> \in fen.pieces
    BY Zenon, <1>3 DEF PlacedOf
  <2> QED BY <1>5, <2>1 DEF Stands
<1>9. KING \in PieceType /\ PAWN \in PieceType /\ ROOK \in PieceType
  BY DEF PieceType, KING, QUEEN, PAWN, ROOK
<1>10. p.nextPlayer \in Color /\ Other(p.nextPlayer) \in Color
  BY <1>5, OtherColor DEF ProperFen
<1>11. \A c \in Color : makePiece(c, KING) \in Piece /\ makePiece(c, ROOK) \in Piece /\ makePiece(c, PAWN) \in Piece
  BY <1>9, PieceFacts
<1>12. \A pc, s : Stands(fen, pc, s) => s \in Square
  BY DEF Stands, ProperFen
<1>13. KingsOK(p)
  <2>1. ASSUME NEW c \in Color
        PROVE  /\ p.kingSquare[c] \in Square
               /\ \A s \in Square : p.board[s] = makePiece(c, KING) <=> s = p.kingSquare[c]
    <3>1. PICK s0 \in Square : \A t \in Square : Stands(fen, makePiece(c, KING), t) <=> t = s0
      BY DEF ProperFen
    <3>2. Stands(fen, makePiece(c, KING), s0)
      BY <3>1
    <3>3. Stands(fen, makePiece(c, KING), q.kingSquare[c])
      BY <1>3, <3>2 DEF PlacedOf, Stands
    <3>4. q.kingSquare[c] = s0
      BY <1>12, <3>1, <3>3
    <3> QED BY <1>5, <1>8, <1>11, <3>1, <3>4
  <2>2. p.kingSquare = [c \in Color |-> p.kingSquare[c]]
    BY <1>3, <1>5 DEF PlacedOf
  <2>3. p.kingSquare \in [Color -> Square]
    BY <2>1, <2>2
  <2> QED BY <2>1, <2>3 DEF KingsOK
<1>14. RightsMatch(p)
  <2> SUFFICES ASSUME NEW c \in Color
               PROVE  LET king == IF c = WHITE THEN E1 ELSE E8
                          Stand(corner) == /\ p.board[king] = makePiece(c, KING)
                                           /\ p.board[corner] = makePiece(c, ROOK)
                      IN /\ OO(c) \in p.castlingRights => Stand(king + 3)
                         /\ OOO(c) \in p.castlingRights => Stand(king - 4)
    BY DEF RightsMatch
  <2> DEFINE king == IF c = WHITE THEN E1 ELSE E8
  <2>1. king \in Square /\ king + 3 \in Square /\ king - 4 \in Square
    BY DEF E1, E8, Square
  <2>2. /\ OO(c) \in fen.castlingRights =>
               Stands(fen, makePiece(c, KING), king) /\ Stands(fen, makePiece(c, ROOK), king + 3)
        /\ OOO(c) \in fen.castlingRights =>
               Stands(fen, makePiece(c, KING), king) /\ Stands(fen, makePiece(c, ROOK), king - 4)
    BY DEF ProperFen
  <2> QED BY <1>5, <1>8, <1>11, <2>1, <2>2
<1>15. EnPassantOK(p)
  <2> DEFINE them == Other(p.nextPlayer)
             ep == p.enPassantSquare
  <2>1. CASE fen.enPassantSquare # SQ_NONE
    <3>1. /\ ep \in Rank(IF them = WHITE THEN 2 ELSE 5)
          /\ \A pc \in Piece : ~Stands(fen, pc, ep)
          /\ Stands(fen, makePiece(them, PAWN), ep + pawnPush(them))
      BY <1>5, <2>1 DEF ProperFen
    <3>2. ep \in Square /\ ep \in Rank(pawnDoubleRank(them))
      BY <3>1 DEF Rank, pawnDoubleRank
    <3>3. p.board[ep] = PIECE_NONE
      <4>1. p.board[ep] \in Piece \cup {PIECE_NONE}
        BY <1>7, <3>2 DEF BoardOK
      <4> QED BY <1>8, <3>1, <3>2, <4>1
    <3>4. ep + pawnPush(them) \in Square /\ p.board[ep + pawnPush(them)] = makePiece(them, PAWN)
      BY <1>8, <1>10, <1>11, <1>12, <3>1
    <3> QED BY <3>2, <3>3, <3>4 DEF EnPassantOK
  <2>2. CASE fen.enPassantSquare = SQ_NONE
    BY <1>5, <2>2 DEF EnPassantOK
  <2> QED BY <2>1, <2>2
<1>16. p.moveNumber \in Int /\ IsHistory(p.historyState)
  <2>1. fen.moveNumber \in Nat
    BY DEF ProperFen
  <2>2. <<>> \in Seq({})
    OBVIOUS
  <2> QED BY <1>5, <2>1, <2>2 DEF Larger, IsHistory
<1>17. Good(p)
  BY <1>4, <1>7, <1>10, <1>13, <1>14, <1>15, <1>16 DEF Good
<1>18. PhaseOf(p) <= GAME_PHASE_MAX => PhaseGood(p)
  BY <1>3, <1>4, <1>6 DEF PlacedOf, PhaseGood, PhaseIn, SameBoard
<1> DEFINE rest == castlingFeature(p.castlingRights) \cup PlayerFeatures(p)
           pieces == PieceFeatures(p, PieceType)
<1>19. p.zobristKey = pieces \cup rest /\ NoPieces(rest)
  <2>1. p.zobristKey = Xor(pieces, rest)
    BY <1>3, <1>4, <1>5, <1>6 DEF PlacedOf, KeyIs, PlayerFeatures
  <2>2. rest \subseteq Others(p)
    BY DEF Others
  <2>3. \A f \in rest : f \notin pieces
    BY <2>2, OthersTagged, Tags DEF NoPieces
  <2>4. NoPieces(rest)
    BY <2>2, OthersTagged DEF NoPieces
  <2> HIDE DEF rest, pieces
  <2>5. Xor(pieces, rest) = pieces \cup rest
    BY <2>3 DEF Xor, SymDiff
  <2> QED BY <2>1, <2>4, <2>5
<1>20. ASSUME fen.enPassantSquare = SQ_NONE PROVE KeyOK(p)
  <2>1. Others(p) = rest
    BY <1>5, <1>20 DEF Others, EnPassantFeatures
  <2> QED BY <1>19, <2>1 DEF KeyOK, KeyIs
<1>21. KeyTells(p)
  <2>1. \A f : f \in castlingFeature(p.castlingRights) => f[1] = "castling"
    BY Tags
  <2>2. <<"nextPlayer">>[1] = "nextPlayer"
    OBVIOUS
  <2>3. <<"nextPlayer">> \notin castlingFeature(p.castlingRights)
    BY <2>1, <2>2
  <2>4. <<"nextPlayer">> \in PlayerFeatures(p) <=> p.nextPlayer = BLACK
    BY Tags DEF PlayerFeatures
  <2>5. <<"nextPlayer">> \in rest <=> p.nextPlayer = BLACK
    BY <2>3, <2>4
  <2> HIDE DEF rest
  <2> QED BY <1>19, <2>5 DEF KeyTells, Tells
<1>22. p.halfMoveClock \in Nat
  BY <1>4 DEF Rest, ProperFen
<1> QED BY <1>2, <1>5, <1>17, <1>18, <1>20, <1>21, <1>22

-----------------------------------------------------------------------------
(* What a board has left to lose: a piece that is no pawn counts one, a pawn     *)
(* the squares before it, and more than one as long as it can still move.        *)
Left(pc, s) ==
    IF pc = PIECE_NONE THEN 0
    ELSE IF typeOf(pc) # PAWN THEN 1
    ELSE IF colorOf(pc) = WHITE THEN 64 - s ELSE s + 1
Stock(b) == {x \in Square \X (1 .. 64) : x[2] <= Left(b[x[1]], x[1])}
Reserve(b) == Cardinality(Stock(b))
IsBoard(b) == b \in [Square -> Piece \cup {PIECE_NONE}]

\* Every piece has something left to lose.
LEMMA LeftIs ==
  ASSUME NEW b, IsBoard(b), NEW s \in Square
  PROVE  /\ Left(b[s], s) \in 0 .. 64
         /\ Left(b[s], s) = 0 <=> b[s] = PIECE_NONE
<1>1. s \in 0 .. 63
  BY Squares
<1> QED BY <1>1 DEF Left

\* What a board has left is finite.
LEMMA StockFinite == \A b : IsFiniteSet(Stock(b)) /\ Reserve(b) \in Nat
<1> TAKE b
<1>1. IsFiniteSet(1 .. 64)
  <2>1. 1 \in Int /\ 64 \in Int
    OBVIOUS
  <2> QED BY <2>1, FS_Interval
<1>2. IsFiniteSet(Square \X (1 .. 64))
  BY <1>1, Squares, FS_Product
<1>3. Stock(b) \in SUBSET (Square \X (1 .. 64))
  BY DEF Stock
<1>4. IsFiniteSet(Stock(b))
  BY <1>2, <1>3, FS_Subset
<1> QED BY <1>4, FS_CardinalityType DEF Reserve

\* where the pieces of a later board come from
CameFrom(b, c, g) ==
    /\ \A s \in Square : c[s] # PIECE_NONE => g[s] \in Square /\ Left(c[s], s) <= Left(b[g[s]], g[s])
    /\ \A s, t \in Square : c[s] # PIECE_NONE /\ c[t] # PIECE_NONE /\ g[s] = g[t] => s = t
\* and what nothing of it comes from
Lost(b, c, g) ==
    \E x \in Stock(b) : \A s \in Square : c[s] # PIECE_NONE /\ g[s] = x[1] => Left(c[s], s) < x[2]

\* If the pieces came from other squares, the reserve is no greater; less, if something is lost.
LEMMA Lessens ==
  ASSUME NEW b, IsBoard(b), NEW c, IsBoard(c), NEW g, CameFrom(b, c, g)
  PROVE  /\ Reserve(c) <= Reserve(b)
         /\ Lost(b, c, g) => Reserve(c) < Reserve(b)
<1> DEFINE f == [x \in Stock(c) |-> <<g[x[1]], x[2]>>]
<1>1. ASSUME NEW x \in Stock(c)
      PROVE  /\ x[1] \in Square /\ x[2] \in 1 .. 64 /\ x = <<x[1], x[2]>>
             /\ c[x[1]] # PIECE_NONE /\ g[x[1]] \in Square
             /\ x[2] <= Left(c[x[1]], x[1])
             /\ <<g[x[1]], x[2]>> \in Stock(b)
  <2>1. /\ x[1] \in Square /\ x[2] \in 1 .. 64 /\ x = <<x[1], x[2]>>
        /\ x[2] <= Left(c[x[1]], x[1])
    BY DEF Stock
  <2>2. c[x[1]] # PIECE_NONE
    BY <2>1 DEF Left
  <2>3. g[x[1]] \in Square /\ Left(c[x[1]], x[1]) <= Left(b[g[x[1]]], g[x[1]])
    BY <2>1, <2>2 DEF CameFrom
  <2>4. Left(c[x[1]], x[1]) \in 0 .. 64 /\ Left(b[g[x[1]]], g[x[1]]) \in 0 .. 64
    BY <2>1, <2>3, LeftIs
  <2>5. x[2] <= Left(b[g[x[1]]], g[x[1]])
    BY <2>1, <2>3, <2>4
  <2>6. <<g[x[1]], x[2]>> \in Stock(b)
    BY <2>1, <2>3, <2>5 DEF Stock
  <2> QED BY <2>1, <2>2, <2>3, <2>6
<1>2. \A x \in Stock(c) : f[x] = <<g[x[1]], x[2]>>
  OBVIOUS
<1>3. ASSUME NEW x \in Stock(c), NEW y \in Stock(c), f[x] = f[y] PROVE x = y
  <2>1. g[x[1]] = g[y[1]] /\ x[2] = y[2]
    BY <1>2, <1>3
  <2>2. x[1] = y[1]
    BY <1>1, <2>1 DEF CameFrom
  <2> QED BY <1>1, <2>1, <2>2
<1>4. IsFiniteSet(Stock(b)) /\ Reserve(b) \in Nat /\ Reserve(c) \in Nat
  BY StockFinite
<1>5. f \in [Stock(c) -> Stock(b)]
  BY <1>1
<1>6. Reserve(c) <= Reserve(b)
  <2>1. f \in Injection(Stock(c), Stock(b))
    BY <1>3, <1>5 DEF Injection, IsInjective
  <2> HIDE DEF f
  <2> QED BY <1>4, <2>1, FS_Injection DEF Reserve
<1>7. ASSUME Lost(b, c, g) PROVE Reserve(c) < Reserve(b)
  <2>1. PICK x \in Stock(b) : \A s \in Square : c[s] # PIECE_NONE /\ g[s] = x[1] => Left(c[s], s) < x[2]
    BY <1>7 DEF Lost
  <2>2. ASSUME NEW y \in Stock(c), f[y] = x PROVE FALSE
    <3>1. g[y[1]] = x[1] /\ y[2] = x[2]
      BY <1>2, <2>2
    <3>2. y[1] \in Square /\ c[y[1]] # PIECE_NONE /\ y[2] <= Left(c[y[1]], y[1]) /\ y[2] \in 1 .. 64
      BY <1>1
    <3>2a. Left(c[y[1]], y[1]) < y[2]
      BY <2>1, <3>1, <3>2
    <3>3. Left(c[y[1]], y[1]) \in 0 .. 64
      BY <1>1, LeftIs
    <3> QED BY <3>2, <3>2a, <3>3
  <2>3. f \in [Stock(c) -> Stock(b) \ {x}]
    BY <1>5, <2>2
  <2>4. f \in Injection(Stock(c), Stock(b) \ {x})
    BY <1>3, <2>3 DEF Injection, IsInjective
  <2>5. /\ IsFiniteSet(Stock(b) \ {x})
        /\ Cardinality(Stock(b) \ {x}) = Cardinality(Stock(b)) - 1
    BY <1>4, FS_RemoveElement
  <2> HIDE DEF f
  <2>6. Cardinality(Stock(c)) <= Cardinality(Stock(b) \ {x})
    BY <2>4, <2>5, FS_Injection
  <2> QED BY <1>4, <2>5, <2>6 DEF Reserve
<1> QED BY <1>6, <1>7

\* the piece on one square moves to another, whatever stood there; cap is emptied too
LEMMA MovedLessens ==
  ASSUME NEW b, IsBoard(b), NEW from \in Square, NEW to \in Square, from # to, NEW cap,
         NEW pc \in Piece, b[from] # PIECE_NONE, Left(pc, to) <= Left(b[from], from),
         NEW c, IsBoard(c), c[to] = pc, c[from] = PIECE_NONE,
         \A s \in Square : s \notin {from, to, cap} => c[s] = b[s],
         cap \notin {from, to} => c[cap] = PIECE_NONE
  PROVE  /\ Reserve(c) <= Reserve(b)
         /\ Left(pc, to) < Left(b[from], from) => Reserve(c) < Reserve(b)
         /\ b[to] # PIECE_NONE => Reserve(c) < Reserve(b)
<1> DEFINE g == [s \in Square |-> IF s = to THEN from ELSE s]
<1>1. \A s \in Square : g[s] = IF s = to THEN from ELSE s
  OBVIOUS
<1> HIDE DEF g
<1>2. ASSUME NEW s \in Square, c[s] # PIECE_NONE
      PROVE  s = to \/ (s # from /\ c[s] = b[s])
  BY <1>2
<1>3. \A s \in Square : Left(b[s], s) \in 0 .. 64 /\ Left(c[s], s) \in 0 .. 64
  BY LeftIs
<1>4. ASSUME NEW s \in Square, c[s] # PIECE_NONE
      PROVE  g[s] \in Square /\ Left(c[s], s) <= Left(b[g[s]], g[s])
  <2>1. CASE s = to
    BY <1>1, <2>1
  <2>2. CASE s # to
    BY <1>1, <1>2, <1>3, <1>4, <2>2
  <2> QED BY <2>1, <2>2
<1>5. ASSUME NEW s \in Square, NEW t \in Square, c[s] # PIECE_NONE, c[t] # PIECE_NONE, g[s] = g[t]
      PROVE  s = t
  BY <1>1, <1>2, <1>5
<1>6. CameFrom(b, c, g)
  BY <1>4, <1>5 DEF CameFrom
<1>7. ASSUME Left(pc, to) < Left(b[from], from) PROVE Lost(b, c, g)
  <2> DEFINE x == <<from, Left(b[from], from)>>
  <2>1. Left(b[from], from) \in 1 .. 64
    BY <1>3, LeftIs
  <2>2. x \in Stock(b) /\ x[1] = from /\ x[2] = Left(b[from], from)
    BY <2>1 DEF Stock
  <2> HIDE DEF x
  <2>3. ASSUME NEW s \in Square, c[s] # PIECE_NONE, g[s] = x[1] PROVE Left(c[s], s) < x[2]
    <3>1. s = to
      BY <1>1, <1>2, <2>2, <2>3
    <3> QED BY <1>7, <2>2, <3>1
  <2> QED BY <2>2, <2>3 DEF Lost
<1>8. ASSUME b[to] # PIECE_NONE PROVE Lost(b, c, g)
  <2> DEFINE x == <<to, Left(b[to], to)>>
  <2>1. Left(b[to], to) \in 1 .. 64
    BY <1>3, <1>8, LeftIs
  <2>2. x \in Stock(b) /\ x[1] = to
    BY <2>1 DEF Stock
  <2> HIDE DEF x
  <2>3. ASSUME NEW s \in Square, c[s] # PIECE_NONE, g[s] = x[1] PROVE FALSE
    BY <1>1, <1>2, <2>2, <2>3
  <2> QED BY <2>2, <2>3 DEF Lost
<1> QED BY <1>6, <1>7, <1>8, Lessens

-----------------------------------------------------------------------------
(* A move loses some of it or counts on the half move clock. *)
Spent(p, q) ==
    /\ Reserve(q.board) <= Reserve(p.board)
    /\ Reserve(q.board) < Reserve(p.board) \/ q.halfMoveClock = p.halfMoveClock + 1

\* What is left of a pawn and of another piece.
LEMMA LeftOf ==
  \A s \in Square :
     /\ Left(PIECE_NONE, s) = 0
     /\ \A c \in Color : Left(makePiece(c, PAWN), s) = IF c = WHITE THEN 64 - s ELSE s + 1
     /\ \A c \in Color, t \in PieceType : t # PAWN => Left(makePiece(c, t), s) = 1
<1>1. PAWN \in PieceType
  BY DEF PAWN, PieceType, KING, QUEEN
<1> QED BY <1>1, PieceFacts DEF Left

\* Every generated pawn move advances.
LEMMA PawnsAdvance ==
  ASSUME NEW p, Good(p), NEW m, Generated(p, m), m.from \in Square, m.to \in Square,
         p.board[m.from] = makePiece(p.nextPlayer, PAWN)
  PROVE  Left(makePiece(p.nextPlayer, PAWN), m.to) < Left(p.board[m.from], m.from)
<1> DEFINE us == p.nextPlayer
           up == pawnPush(us)
<1>1. us \in Color /\ (us = WHITE => up = 8) /\ (us # WHITE => up = -8)
  BY BitboardsAre DEF pawnPush, NORTH, SOUTH
<1>2. m.from \in 0 .. 63 /\ m.to \in 0 .. 63
  BY DEF Square
<1>3. \/ \E dir \in {WEST, EAST} : m.from = m.to - (up + dir) \/ m.to = m.from + up - dir
      \/ m.from = m.to - up
      \/ m.from = (m.to - up) - up
  <2>1. PAWN \in PieceType /\ PAWN # KING /\ PAWN \notin KNIGHT .. QUEEN /\ KING \in PieceType
        /\ KNIGHT .. QUEEN \subseteq PieceType
    BY DEF PAWN, KING, PieceType, QUEEN, KNIGHT
  <2>2. \A t \in PieceType : p.board[m.from] = makePiece(us, t) => t = PAWN
    <3>1. \A t \in PieceType : typeOf(makePiece(us, t)) = t
      BY <1>1, PieceFacts
    <3> QED BY <2>1, <3>1
  <2>3. ~PieceGoes(p, m) /\ ~KingGoes(p, m)
    BY <2>1, <2>2 DEF PieceGoes, KingGoes, Stepper
  <2>4. ~Castles(p, m)
    BY <2>1, <2>2 DEF Castles, CastlingShape
  <2> QED BY <2>3, <2>4 DEF Generated, PawnTakes, PawnPasses, PawnSteps, PawnJumps
<1>4. \/ m.from = m.to - (up + 1) \/ m.from = m.to - (up - 1)
      \/ m.to = m.from + up + 1 \/ m.to = m.from + up - 1
      \/ m.from = m.to - up \/ m.from = (m.to - up) - up
  <2>1. WEST = -1 /\ EAST = 1
    BY DEF WEST, EAST
  <2>2. up \in Int
    BY <1>1
  <2> HIDE DEF up
  <2> QED BY <1>2, <1>3, <2>1, <2>2
<1>5. /\ Left(makePiece(us, PAWN), m.to) = IF us = WHITE THEN 64 - m.to ELSE m.to + 1
      /\ Left(p.board[m.from], m.from) = IF us = WHITE THEN 64 - m.from ELSE m.from + 1
  BY <1>1, LeftOf
<1> HIDE DEF up
<1>6. CASE us = WHITE
  <2>1. up = 8
    BY <1>1, <1>6
  <2> HIDE DEF us
  <2>2. m.from < m.to
    BY <1>2, <1>4, <2>1
  <2> QED BY <1>2, <1>5, <1>6, <2>2 DEF us
<1>7. CASE us # WHITE
  <2>1. up = -8
    BY <1>1, <1>7
  <2> HIDE DEF us
  <2>2. m.to < m.from
    BY <1>2, <1>4, <2>1
  <2> QED BY <1>2, <1>5, <1>7, <2>2 DEF us
<1> QED BY <1>6, <1>7

\* Every generated move is either irreversible or counted on the clock.
LEMMA MoveSpends ==
  ASSUME NEW p, Good(p), NEW m, Generated(p, m), p.halfMoveClock \in Nat,
         NEW q, q = doMove(p, m), Good(q)
  PROVE  Spent(p, q) /\ q.halfMoveClock \in Nat
<1> DEFINE us == p.nextPlayer
<1>1. IsPosition(p) /\ BoardOK(p) /\ us \in Color /\ p.kingSquare \in [Color -> Int]
  BY GoodReady DEF Good, Ready, KingsKnown
<1>2. MoveShape(p, m) /\ m.from \in Square /\ m.to \in Square /\ m.from # m.to
  BY GeneratedShape DEF MoveShape
<1>3. IsBoard(p.board) /\ IsBoard(q.board)
  BY DEF Good, BoardOK, IsBoard
<1>4. PAWN \in PieceType /\ KING \in PieceType /\ ROOK \in PieceType /\ KNIGHT .. QUEEN \subseteq PieceType
      /\ KING # PAWN /\ ROOK # PAWN /\ PAWN \notin KNIGHT .. QUEEN
  BY DEF PAWN, KING, ROOK, PieceType, QUEEN, KNIGHT
<1>5. \A t \in PieceType : makePiece(us, t) \in Piece /\ makePiece(us, t) # PIECE_NONE
                           /\ typeOf(makePiece(us, t)) = t
  BY <1>1, PieceFacts
<1>6. \A s \in Square : Left(p.board[s], s) \in 0 .. 64
  BY <1>3, LeftIs
<1>7. ASSUME p.board[m.from] = makePiece(us, PAWN)
      PROVE  /\ Left(makePiece(us, PAWN), m.to) < Left(p.board[m.from], m.from)
             /\ \A t \in PieceType : t # PAWN => Left(makePiece(us, t), m.to) < Left(p.board[m.from], m.from)
  <2>1. Left(makePiece(us, PAWN), m.to) < Left(p.board[m.from], m.from)
    BY <1>2, <1>7, PawnsAdvance
  <2>2. Left(makePiece(us, PAWN), m.to) \in Int /\ Left(makePiece(us, PAWN), m.to) >= 1
    <3>1. m.to \in 0 .. 63
      BY <1>2, Squares
    <3>2. Left(makePiece(us, PAWN), m.to) = IF us = WHITE THEN 64 - m.to ELSE m.to + 1
      BY <1>1, <1>2, LeftOf
    <3> QED BY <3>1, <3>2
  <2>3. \A t \in PieceType : t # PAWN => Left(makePiece(us, t), m.to) = 1
    BY <1>1, <1>2, LeftOf
  <2> QED BY <1>2, <1>6, <2>1, <2>2, <2>3
<1> DEFINE moved(t) == [p.board EXCEPT ![m.from] = PIECE_NONE, ![m.to] = makePiece(us, t)]
<1>8. ASSUME NEW t \in PieceType, q.board = moved(t)
      PROVE  /\ q.board[m.to] = makePiece(us, t) /\ q.board[m.from] = PIECE_NONE
             /\ \A s \in Square : s # m.from /\ s # m.to => q.board[s] = p.board[s]
  BY <1>2, <1>3, <1>8 DEF IsBoard
<1> HIDE DEF us, moved
<1>9. CASE m.type = NORMAL /\ NormalShape(p, m)
  <2>1. PICK t \in PieceType : p.board[m.from] = makePiece(us, t)
    BY <1>9 DEF NormalShape, us
  <2>2. DoneNormal(p, m, q, t)
    BY <1>1, <1>2, <1>9, <2>1, DoNormal DEF us
  <2>3. /\ q.board = moved(t)
        /\ q.halfMoveClock = IF p.board[m.to] # PIECE_NONE \/ t = PAWN THEN 0 ELSE p.halfMoveClock + 1
    BY <1>5, <2>1, <2>2 DEF DoneNormal, us, moved
  <2>4. Left(makePiece(us, t), m.to) <= Left(p.board[m.from], m.from)
    <3>1. CASE t = PAWN
      <4>1. Left(makePiece(us, PAWN), m.to) < Left(p.board[m.from], m.from)
        BY <1>7, <2>1, <3>1
      <4>2. Left(makePiece(us, PAWN), m.to) \in Int
        BY <1>2, <3>1, <2>3, <1>8, <1>3, LeftIs
      <4> QED BY <1>2, <1>6, <3>1, <4>1, <4>2
    <3>2. CASE t # PAWN
      BY <1>1, <1>2, <2>1, <3>2, LeftOf DEF us
    <3> QED BY <3>1, <3>2
  <2>5. /\ Reserve(q.board) <= Reserve(p.board)
        /\ Left(makePiece(us, t), m.to) < Left(p.board[m.from], m.from) => Reserve(q.board) < Reserve(p.board)
        /\ p.board[m.to] # PIECE_NONE => Reserve(q.board) < Reserve(p.board)
    <3>1. q.board[m.to] = makePiece(us, t) /\ q.board[m.from] = PIECE_NONE
          /\ \A s \in Square : s \notin {m.from, m.to, m.from} => q.board[s] = p.board[s]
      BY <1>8, <2>3
    <3>2. p.board[m.from] # PIECE_NONE /\ makePiece(us, t) \in Piece
      BY <1>5, <2>1
    <3> QED BY <1>2, <1>3, <2>4, <3>1, <3>2, MovedLessens
  <2>6. CASE t = PAWN
    BY <1>7, <2>1, <2>3, <2>5, <2>6 DEF Spent
  <2>7. CASE t # PAWN
    BY <2>3, <2>5, <2>7 DEF Spent
  <2> QED BY <2>6, <2>7
<1>10. CASE m.type = PROMOTION /\ PromotionShape(p, m)
  <2>1. DonePromotion(p, m, q)
    BY <1>1, <1>2, <1>10, DoPromotion DEF us
  <2>2. m.prom \in PieceType /\ m.prom # PAWN /\ p.board[m.from] = makePiece(us, PAWN)
    BY <1>4, <1>10 DEF PromotionShape, us
  <2>3. q.board = moved(m.prom) /\ q.halfMoveClock = 0
    BY <2>1 DEF DonePromotion, us, moved
  <2>4. Left(makePiece(us, m.prom), m.to) < Left(p.board[m.from], m.from)
    BY <1>7, <2>2
  <2>5. Left(makePiece(us, m.prom), m.to) = 1
    BY <1>1, <1>2, <2>2, LeftOf DEF us
  <2>6. Left(makePiece(us, m.prom), m.to) <= Left(p.board[m.from], m.from)
    BY <1>2, <1>6, <2>4, <2>5
  <2>7. q.board[m.to] = makePiece(us, m.prom) /\ q.board[m.from] = PIECE_NONE
        /\ \A s \in Square : s \notin {m.from, m.to, m.from} => q.board[s] = p.board[s]
    BY <1>8, <2>2, <2>3
  <2>8. p.board[m.from] # PIECE_NONE /\ makePiece(us, m.prom) \in Piece
    BY <1>4, <1>5, <2>2
  <2>9. Reserve(q.board) <= Reserve(p.board) /\ Reserve(q.board) < Reserve(p.board)
    BY <1>2, <1>3, <2>4, <2>6, <2>7, <2>8, MovedLessens
  <2> QED BY <2>3, <2>9 DEF Spent
<1>11. CASE m.type = ENPASSANT /\ EnPassantShape(p, m)
  <2> DEFINE cap == Behind(p, m)
  <2>1. DoneEnPassant(p, m, q)
    BY <1>1, <1>2, <1>11, DoEnPassant DEF us
  <2>2. /\ p.board[m.from] = makePiece(us, PAWN) /\ p.board[m.to] = PIECE_NONE
        /\ cap \in Square /\ p.board[cap] = makePiece(Other(us), PAWN)
    BY <1>11 DEF EnPassantShape, us
  <2>3. q.board = [p.board EXCEPT ![cap] = PIECE_NONE, ![m.from] = PIECE_NONE, ![m.to] = makePiece(us, PAWN)]
        /\ q.halfMoveClock = 0
    BY <2>1 DEF DoneEnPassant, us
  <2> HIDE DEF cap
  <2>4. q.board[m.to] = makePiece(us, PAWN) /\ q.board[m.from] = PIECE_NONE
        /\ (cap \notin {m.from, m.to} => q.board[cap] = PIECE_NONE)
        /\ \A s \in Square : s \notin {m.from, m.to, cap} => q.board[s] = p.board[s]
    BY <1>2, <1>3, <2>2, <2>3 DEF IsBoard
  <2>5. Left(makePiece(us, PAWN), m.to) < Left(p.board[m.from], m.from)
    BY <1>7, <2>2
  <2>6. Left(makePiece(us, PAWN), m.to) \in Int
    BY <1>2, <1>3, <2>4, LeftIs
  <2>7. Left(makePiece(us, PAWN), m.to) <= Left(p.board[m.from], m.from)
    BY <1>2, <1>6, <2>5, <2>6
  <2>8. p.board[m.from] # PIECE_NONE /\ makePiece(us, PAWN) \in Piece
    BY <1>4, <1>5, <2>2
  <2>9. Reserve(q.board) <= Reserve(p.board) /\ Reserve(q.board) < Reserve(p.board)
    <3>1. PICK from \in Square : from = m.from
      BY <1>2
    <3>2. PICK to \in Square : to = m.to
      BY <1>2
    <3>3. PICK pc \in Piece : pc = makePiece(us, PAWN)
      BY <2>8
    <3>4. PICK b : b = p.board
      OBVIOUS
    <3>5. PICK c : c = q.board
      OBVIOUS
    <3>6. /\ IsBoard(b) /\ IsBoard(c) /\ from # to /\ b[from] # PIECE_NONE
          /\ Left(pc, to) <= Left(b[from], from) /\ Left(pc, to) < Left(b[from], from)
          /\ c[to] = pc /\ c[from] = PIECE_NONE
          /\ cap \notin {from, to} => c[cap] = PIECE_NONE
      BY <1>2, <1>3, <2>4, <2>5, <2>7, <2>8, <3>1, <3>2, <3>3, <3>4, <3>5
    <3>7. \A s \in Square : s \notin {from, to, cap} => c[s] = b[s]
      BY <2>4, <3>1, <3>2, <3>4, <3>5
    <3>8. Reserve(c) <= Reserve(b) /\ Reserve(c) < Reserve(b)
      BY ONLY <3>6, <3>7, MovedLessens
    <3> QED BY <3>4, <3>5, <3>8
  <2> QED BY <2>3, <2>9 DEF Spent
<1>12. CASE m.type = CASTLING /\ CastlingShape(p, m)
  <2> DEFINE corner == rookCorner[m.to]
             crossing == rookCrossing[m.to]
  <2>1. DoneCastling(p, m, q)
    BY <1>1, <1>12, DoCastling DEF us
  <2>2. /\ q.board = [p.board EXCEPT ![m.from] = PIECE_NONE, ![m.to] = makePiece(us, KING),
                                     ![corner] = PIECE_NONE, ![crossing] = makePiece(us, ROOK)]
        /\ q.halfMoveClock = p.halfMoveClock + 1
    BY <2>1 DEF DoneCastling, us
  <2>3. /\ corner \in Square /\ crossing \in Square
        /\ corner \notin {m.from, m.to, crossing} /\ crossing \notin {m.from, m.to}
    BY <1>1, <1>12, CastlingSquares DEF us
  <2>4. p.board[m.from] = makePiece(us, KING) /\ p.board[corner] = makePiece(us, ROOK)
    BY <1>12 DEF CastlingShape, us
  <2> HIDE DEF corner, crossing
  <2>5. /\ q.board[m.from] = PIECE_NONE /\ q.board[m.to] = makePiece(us, KING)
        /\ q.board[corner] = PIECE_NONE /\ q.board[crossing] = makePiece(us, ROOK)
        /\ \A s \in Square : s \notin {m.from, m.to, corner, crossing} => q.board[s] = p.board[s]
    BY <1>2, <1>3, <2>2, <2>3 DEF IsBoard
  <2>6. \A s \in Square : Left(makePiece(us, KING), s) = 1 /\ Left(makePiece(us, ROOK), s) = 1
    BY <1>1, <1>4, LeftOf DEF us
  <2> DEFINE g == [s \in Square |-> IF s = m.to THEN m.from ELSE IF s = crossing THEN corner ELSE s]
  <2>7. \A s \in Square : g[s] = IF s = m.to THEN m.from ELSE IF s = crossing THEN corner ELSE s
    OBVIOUS
  <2> HIDE DEF g
  <2>8. ASSUME NEW s \in Square, q.board[s] # PIECE_NONE
        PROVE  g[s] \in Square /\ Left(q.board[s], s) <= Left(p.board[g[s]], g[s])
    <3>1. CASE s = m.to
      BY <1>2, <2>4, <2>5, <2>6, <2>7, <3>1
    <3>2. CASE s = crossing
      BY <2>3, <2>4, <2>5, <2>6, <2>7, <3>2
    <3>3. CASE s # m.to /\ s # crossing
      <4>1. s # m.from /\ s # corner
        BY <2>5, <2>8
      <4> QED BY <1>6, <2>5, <2>7, <3>3, <4>1
    <3> QED BY <3>1, <3>2, <3>3
  <2>9. ASSUME NEW s \in Square, NEW t \in Square, q.board[s] # PIECE_NONE, q.board[t] # PIECE_NONE, g[s] = g[t]
        PROVE  s = t
    <3>1. s # m.from /\ s # corner /\ t # m.from /\ t # corner
      BY <2>5, <2>9
    <3> QED BY <2>3, <2>7, <2>9, <3>1
  <2>10. CameFrom(p.board, q.board, g)
    BY <2>8, <2>9 DEF CameFrom
  <2> QED BY <1>3, <2>2, <2>10, Lessens DEF Spent
<1> QED BY <1>2, <1>9, <1>10, <1>11, <1>12 DEF MoveShape

-----------------------------------------------------------------------------
(* The magic bitboards: what is masked makes no difference. *)
Slides(dirs, s, occ, t) ==
  \E d \in dirs : \E n \in 1 .. 7 : /\ t = s + n * d
                                    /\ Free(d, s, n)
                                    /\ \A i \in 1 .. n - 1 : s + i * d \notin occ

\* The edges that the mask leaves out change no slide.
LEMMA MaskedSlides ==
  ASSUME NEW dirs, dirs \subseteq Directions, NEW s \in Square, NEW occ, NEW t
  PROVE  t \in sliding_attack(dirs, s, occ \cap (sliding_attack(dirs, s, {}) \ Edges[s]))
           <=> Slides(dirs, s, occ, t)
<1> DEFINE empty == sliding_attack(dirs, s, {})
           masked == occ \cap (empty \ Edges[s])
<1>1. ASSUME t \in sliding_attack(dirs, s, masked) PROVE Slides(dirs, s, occ, t)
  <2>1. PICK d \in dirs : t \in Ray(d, s, masked)
    BY <1>1 DEF sliding_attack
  <2>2. d \in Directions
    OBVIOUS
  <2>3. PICK n \in 1 .. 7 : t = s + n * d /\ Free(d, s, n) /\ \A i \in 1 .. n - 1 : s + i * d \notin masked
    BY <2>1, <2>2, RayIs
  <2>4. \A i \in 1 .. n - 1 : s + i * d \notin occ
    <3> TAKE i \in 1 .. n - 1
    <3>1. i \in 1 .. 7 /\ Free(d, s, i)
      BY <2>3 DEF Free
    <3>2. s + i * d \in Ray(d, s, {})
      BY <2>2, <3>1, RayIs
    <3>3. s + i * d \in empty
      BY <3>2 DEF sliding_attack
    <3>4. s + i * d \notin Edges[s]
      BY <2>2, <2>3, Inside
    <3> QED BY <2>3, <3>3, <3>4
  <2> QED BY <2>3, <2>4 DEF Slides
<1>2. ASSUME Slides(dirs, s, occ, t) PROVE t \in sliding_attack(dirs, s, masked)
  <2>1. PICK d \in dirs : \E n \in 1 .. 7 : /\ t = s + n * d
                                            /\ Free(d, s, n)
                                            /\ \A i \in 1 .. n - 1 : s + i * d \notin occ
    BY <1>2 DEF Slides
  <2>2. d \in Directions
    OBVIOUS
  <2>3. t \in Ray(d, s, masked)
    BY <2>1, <2>2, RayIs
  <2> QED BY <2>3 DEF sliding_attack
<1> QED BY <1>1, <1>2

\* The directions of the sliders.
LEMMA DirectionSets ==
  /\ bishopDirections = {9, -7, -9, 7} /\ rookDirections = {8, 1, -8, -1}
  /\ bishopDirections \subseteq Directions /\ rookDirections \subseteq Directions
BY DEF bishopDirections, rookDirections, NORTH, EAST, SOUTH, WEST, Directions

\* A slider's attacks, through the mask or not, are its slides.
LEMMA SlidersSlide ==
  ASSUME NEW t \in Square, NEW occ, NEW s
  PROVE  /\ s \in bishopAttacks(t, occ) <=> Slides(bishopDirections, t, occ, s)
         /\ s \in rookAttacks(t, occ) <=> Slides(rookDirections, t, occ, s)
<1>1. bishopAttacks(t, occ) = sliding_attack(bishopDirections, t,
                                occ \cap (sliding_attack(bishopDirections, t, {}) \ Edges[t]))
  BY DEF bishopAttacks, bishopMask
<1>2. rookAttacks(t, occ) = sliding_attack(rookDirections, t,
                                occ \cap (sliding_attack(rookDirections, t, {}) \ Edges[t]))
  BY DEF rookAttacks, rookMask
<1> QED BY <1>1, <1>2, DirectionSets, MaskedSlides

-----------------------------------------------------------------------------
(* What a change of the occupied squares does to a slider. *)

\* What stops a slide that another occupancy lets through.
LEMMA SlidesUnless ==
  ASSUME NEW dirs, dirs \subseteq Directions, NEW s \in Square, NEW t, NEW occ, NEW less, Slides(dirs, s, occ, t)
  PROVE  \/ Slides(dirs, s, less, t)
         \/ \E d \in dirs : \E n \in 1 .. 7 : \E i \in 1 .. n - 1 :
              /\ t = s + n * d /\ Free(d, s, n) /\ s + i * d \in less \ occ
              /\ \A j \in 1 .. n - 1 : s + j * d \notin occ
<1>1. PICK d \in dirs : \E n \in 1 .. 7 : /\ t = s + n * d
                                          /\ Free(d, s, n)
                                          /\ \A i \in 1 .. n - 1 : s + i * d \notin occ
  BY DEF Slides
<1>2. PICK n \in 1 .. 7 : /\ t = s + n * d
                          /\ Free(d, s, n)
                          /\ \A i \in 1 .. n - 1 : s + i * d \notin occ
  BY <1>1
<1>3. CASE \A i \in 1 .. n - 1 : s + i * d \notin less
  BY <1>2, <1>3 DEF Slides
<1>4. CASE \E i \in 1 .. n - 1 : s + i * d \in less
  BY <1>2, <1>4
<1> QED BY <1>3, <1>4

\* squares between are others than the ends
LEMMA BetweenEnds ==
  ASSUME NEW d \in Directions, NEW s \in Square, NEW n \in 1 .. 7, NEW i \in 1 .. n - 1
  PROVE  s + i * d # s /\ s + i * d # s + n * d
<1>1. d \in {8, 1, -8, -1, 9, -7, -9, 7}
  BY DirectionsAre
<1> QED BY <1>1 DEF Square


\* A line starts again at each of its squares.
LEMMA SubLine ==
  ASSUME NEW d \in Directions, NEW s \in Square, NEW n \in 1 .. 7, Free(d, s, n), NEW i \in 1 .. n - 1
  PROVE  /\ s + i * d \in Square /\ n - i \in 1 .. 7 /\ Free(d, s + i * d, n - i)
         /\ \A j \in 1 .. n - i : s + i * d + j * d = s + (i + j) * d
<1>1. d \in {8, 1, -8, -1, 9, -7, -9, 7}
  BY DirectionsAre
<1>2. s \in Int /\ d \in Int
  BY <1>1 DEF Square
<1>3. ASSUME NEW j \in Int PROVE s + i * d + j * d = s + (i + j) * d
  BY <1>1, <1>2
<1>4. i \in 1 .. n /\ n - i \in 1 .. 7
  OBVIOUS
<1>5. s + i * d \in Square
  BY <1>4 DEF Free, OnBoard
<1>6. ASSUME NEW j \in 1 .. n - i PROVE OnBoard(d, s + i * d, j)
  <2>1. i + j \in 1 .. n /\ j \in Int /\ j - 1 \in Int /\ i + (j - 1) = (i + j) - 1
    OBVIOUS
  <2>2. OnBoard(d, s, i + j)
    BY <2>1 DEF Free
  <2>3. s + i * d + j * d = s + (i + j) * d /\ s + i * d + (j - 1) * d = s + ((i + j) - 1) * d
    BY <1>3, <2>1
  <2> QED BY <2>2, <2>3 DEF OnBoard
<1> QED BY <1>3, <1>4, <1>5, <1>6 DEF Free

-----------------------------------------------------------------------------
(* The square a pawn left with a double step. attacksTo counts the pawns beside  *)
(* that square among its attackers, which they are not: no evasion of the king is *)
(* lost by it, since a king in check next to it finds it attacked anyway.         *)
EnPassantSafe(p) ==
    LET us == p.nextPlayer
        left == p.enPassantSquare + pawnPush(us)
    IN p.enPassantSquare # SQ_NONE /\ InCheck(p) =>
         /\ p.board[left] = PIECE_NONE
         /\ p.kingSquare[us] \in kingAttacks[left] => isAttacked(p, left, Other(us))

\* After a move an en passant square is there because a pawn jumped.
LEMMA EnPassantFrom ==
  ASSUME NEW p, Good(p), NEW m, Generated(p, m), NEW q, q = doMove(p, m), q.enPassantSquare # SQ_NONE
  PROVE  /\ PawnJumps(p, m) /\ q.enPassantSquare = m.to - pawnPush(p.nextPlayer)
         /\ q.board = [p.board EXCEPT ![m.from] = PIECE_NONE, ![m.to] = makePiece(p.nextPlayer, PAWN)]
         /\ q.kingSquare = [p.kingSquare EXCEPT ![p.nextPlayer] = @]
<1> DEFINE us == p.nextPlayer
<1>1. IsPosition(p) /\ BoardOK(p) /\ us \in Color /\ p.kingSquare \in [Color -> Int]
  BY GoodReady DEF Good, Ready, KingsKnown
<1>2. MoveShape(p, m) /\ m.from \in Square /\ m.to \in Square /\ m.from # m.to
  BY GeneratedShape DEF MoveShape
<1>3. ~(m.type = PROMOTION /\ PromotionShape(p, m))
  BY <1>1, <1>2, DoPromotion DEF DonePromotion
<1>4. ~(m.type = ENPASSANT /\ EnPassantShape(p, m))
  BY <1>1, <1>2, DoEnPassant DEF DoneEnPassant
<1>5. ~(m.type = CASTLING /\ CastlingShape(p, m))
  BY <1>1, <1>2, DoCastling DEF DoneCastling
<1>6. m.type = NORMAL /\ NormalShape(p, m)
  BY <1>2, <1>3, <1>4, <1>5 DEF MoveShape
<1>7. PICK t \in PieceType : p.board[m.from] = makePiece(us, t)
  BY <1>6 DEF NormalShape
<1>8. DoneNormal(p, m, q, t)
  BY <1>1, <1>2, <1>6, <1>7, DoNormal
<1>9. Double(p, m) /\ q.enPassantSquare = Behind(p, m)
  BY <1>8 DEF DoneNormal
<1>10. typeOf(p.board[m.from]) = t /\ t = PAWN
  BY <1>1, <1>7, <1>9, PieceFacts DEF Double
<1>11. ~PawnTakes(p, m)
  <2>1. \A ct \in PieceType : makePiece(Other(us), ct) # PIECE_NONE
    BY <1>1, OtherColor, Kinds
  <2> QED BY <1>9, <2>1 DEF PawnTakes, TheirPiece, Double
<1>12. ~PawnSteps(p, m)
  <2>1. ASSUME PawnSteps(p, m) PROVE m.to = m.from + 8 \/ m.to = m.from - 8
    <3>1. m.from = m.to - pawnPush(us) /\ pawnPush(us) \in {8, -8}
      BY <1>1, <2>1, Pushes DEF PawnSteps
    <3>2. m.from \in Int /\ m.to \in Int
      BY <1>2 DEF Square
    <3> QED BY <3>1, <3>2
  <2>2. ASSUME PawnSteps(p, m) PROVE distance(m.from, m.to) = 1
    BY <1>2, <2>1, <2>2, OneStep
  <2> QED BY <1>9, <2>2 DEF Double
<1>13. ~PieceGoes(p, m) /\ ~KingGoes(p, m)
  <2>1. PAWN \notin KNIGHT .. QUEEN /\ KNIGHT .. QUEEN \subseteq PieceType /\ KING # PAWN /\ KING \in PieceType
    BY DEF PAWN, KNIGHT, QUEEN, PieceType, KING
  <2> QED BY <1>1, <1>7, <1>10, <2>1, Kinds DEF PieceGoes, KingGoes, Stepper
<1>14. ~PawnPasses(p, m) /\ ~Castles(p, m)
  BY <1>6, Types DEF PawnPasses, Castles
<1>15. PawnJumps(p, m)
  BY <1>11, <1>12, <1>13, <1>14 DEF Generated
<1>16. Behind(p, m) = m.to - pawnPush(us)
  <2>1. m.to \in Int
    BY <1>2 DEF Square
  <2> QED BY <1>1, <2>1, Pushes DEF Behind
<1>17. q.kingSquare = [p.kingSquare EXCEPT ![us] = @]
  <2>1. t # KING
    BY <1>10 DEF PAWN, KING
  <2> QED BY <1>8, <2>1 DEF DoneNormal
<1> QED BY <1>8, <1>9, <1>10, <1>15, <1>16, <1>17 DEF DoneNormal

\* The jump of a pawn leaves a position in which the square it came from is safe to look at.
LEMMA EnPassantLeft ==
  ASSUME NEW p, Good(p), ~KingCapturable(p), NEW m, Generated(p, m), NEW q, q = doMove(p, m), Good(q),
         q.nextPlayer = Other(p.nextPlayer)
  PROVE  EnPassantSafe(q)
<1> DEFINE us == p.nextPlayer
           them == Other(us)
           k == p.kingSquare[them]
           from == m.from
           occ == getOccupiedBb(p)
           now == getOccupiedBb(q)
<1> SUFFICES ASSUME q.enPassantSquare # SQ_NONE, InCheck(q)
             PROVE  /\ q.board[q.enPassantSquare + pawnPush(q.nextPlayer)] = PIECE_NONE
                    /\ q.kingSquare[q.nextPlayer] \in kingAttacks[q.enPassantSquare + pawnPush(q.nextPlayer)] =>
                         isAttacked(q, q.enPassantSquare + pawnPush(q.nextPlayer), Other(q.nextPlayer))
  BY DEF EnPassantSafe
<1>1. us \in Color /\ them \in Color /\ Other(them) = us /\ us # them
  BY BitboardsAre, OtherColor
<1>2. /\ PawnJumps(p, m) /\ q.enPassantSquare = m.to - pawnPush(us)
      /\ q.board = [p.board EXCEPT ![from] = PIECE_NONE, ![m.to] = makePiece(us, PAWN)]
      /\ q.kingSquare = [p.kingSquare EXCEPT ![us] = @]
  BY EnPassantFrom
<1>3. /\ from \in Square /\ m.to \in Square /\ p.board[from] = makePiece(us, PAWN)
      /\ p.board[m.to] = PIECE_NONE /\ from = (m.to - pawnPush(us)) - pawnPush(us)
  BY <1>2 DEF PawnJumps, Stepper
<1>4. pawnPush(us) \in {8, -8} /\ pawnPush(them) = -pawnPush(us) /\ (pawnPush(us) = 8 <=> us = WHITE)
  BY <1>1, Pushes DEF pawnPush, NORTH, SOUTH
<1>5. from \in Int /\ m.to \in Int /\ from # m.to
  BY <1>3, <1>4 DEF Square
<1>6. q.enPassantSquare + pawnPush(them) = from
  BY <1>2, <1>3, <1>4, <1>5
<1>7. p.board \in [Square -> Piece \cup {PIECE_NONE}] /\ p.kingSquare \in [Color -> Square]
  BY DEF Good, BoardOK, KingsOK
<1>8. /\ q.board[from] = PIECE_NONE /\ q.board[m.to] = makePiece(us, PAWN)
      /\ \A s \in Square : s # from /\ s # m.to => q.board[s] = p.board[s]
  BY <1>2, <1>3, <1>5, <1>7
<1>9. q.kingSquare[them] = k /\ k \in Square
  BY <1>1, <1>2, <1>7
<1> HIDE DEF k, occ, now
<1>10. PAWN \in PieceType /\ {KNIGHT, KING, BISHOP, ROOK, QUEEN} \subseteq PieceType \ {PAWN}
  BY DEF PieceType, PAWN, KNIGHT, KING, BISHOP, ROOK, QUEEN
<1>11. \A pt \in PieceType \ {PAWN} : Placed(q, us, pt) = Placed(p, us, pt)
  <2> TAKE pt \in PieceType \ {PAWN}
  <2>1. makePiece(us, pt) # PIECE_NONE /\ makePiece(us, pt) # makePiece(us, PAWN)
    BY <1>1, <1>10, Kinds
  <2>2. ASSUME NEW s \in Square PROVE q.board[s] = makePiece(us, pt) <=> p.board[s] = makePiece(us, pt)
    BY <1>3, <1>8, <2>1
  <2> QED BY <2>2 DEF Placed
<1>12. \A s \in Placed(q, us, PAWN) : s = m.to \/ s \in Placed(p, us, PAWN)
  <2>1. makePiece(us, PAWN) # PIECE_NONE
    BY <1>1, <1>10, Kinds
  <2> QED BY <1>8, <2>1 DEF Placed
<1>13. /\ \A pt \in PieceType : p.piecesBb[us][pt] = Placed(p, us, pt)
       /\ \A pt \in PieceType : q.piecesBb[us][pt] = Placed(q, us, pt)
       /\ occ = {s \in Square : p.board[s] # PIECE_NONE} /\ now = {s \in Square : q.board[s] # PIECE_NONE}
  BY <1>1, BitboardsAre DEF occ, now
<1>14. occ \subseteq now \cup {from}
  BY <1>1, <1>8, <1>10, <1>13, Kinds
<1>15. ~isAttacked(p, k, us)
  BY DEF KingCapturable, k
<1>16. /\ pawnAttacks[them][k] \cap Placed(p, us, PAWN) = {}
       /\ knightAttacks[k] \cap Placed(p, us, KNIGHT) = {}
       /\ kingAttacks[k] \cap Placed(p, us, KING) = {}
       /\ bishopAttacks(k, occ) \cap (Placed(p, us, BISHOP) \cup Placed(p, us, QUEEN)) = {}
       /\ rookAttacks(k, occ) \cap (Placed(p, us, ROOK) \cup Placed(p, us, QUEEN)) = {}
  BY <1>10, <1>13, <1>15 DEF isAttacked, occ
<1>17. isAttacked(q, k, us)
  BY <1>1, <1>9 DEF InCheck
<1>18. ~EnPassantAttacked(q, k, us)
  <2>1. q.board[k] = makePiece(them, KING)
    BY <1>1, <1>9 DEF Good, KingsOK
  <2>2. makePiece(them, KING) # makePiece(Other(us), PAWN)
    BY <1>1, <1>10, Kinds
  <2> QED BY <2>1, <2>2 DEF EnPassantAttacked
<1>19. \/ pawnAttacks[them][k] \cap Placed(q, us, PAWN) # {}
       \/ knightAttacks[k] \cap Placed(q, us, KNIGHT) # {}
       \/ kingAttacks[k] \cap Placed(q, us, KING) # {}
       \/ bishopAttacks(k, now) \cap (Placed(q, us, BISHOP) \cup Placed(q, us, QUEEN)) # {}
       \/ rookAttacks(k, now) \cap (Placed(q, us, ROOK) \cup Placed(q, us, QUEEN)) # {}
  BY <1>10, <1>13, <1>17, <1>18 DEF isAttacked, now
\* the pawn itself attacks no square next to the one it left
<1>20. ASSUME m.to \in pawnAttacks[them][k] PROVE k \notin kingAttacks[from]
  <2>1. k \in kingAttacks[from] => k - from \in {7, 8, 9, 1, -7, -8, -9, -1}
    <3>1. k \in Int
      BY <1>9 DEF Square
    <3>2. kingSteps \cup Negated(kingSteps) = {7, 8, 9, 1, -7, -8, -9, -1}
      BY DEF kingSteps, Negated, NORTH, WEST, EAST
    <3>3. kingAttacks[from] = Jumps(from, {7, 8, 9, 1, -7, -8, -9, -1})
      BY <1>3, <3>2 DEF kingAttacks
    <3> QED BY <1>5, <3>1, <3>3 DEF Jumps
  <2>2. m.to - k \in {7, 9, -7, -9} /\ (them = WHITE => m.to - k \in {7, 9}) /\ (them # WHITE => m.to - k \in {-7, -9})
    <3>1. k \in Int
      BY <1>9 DEF Square
    <3>2. pawnSteps = {7, 9} /\ Negated(pawnSteps) = {-7, -9}
      BY DEF pawnSteps, Negated, NORTH, WEST, EAST
    <3>3. pawnAttacks[them][k] = Jumps(k, IF them = WHITE THEN {7, 9} ELSE {-7, -9})
      BY <1>1, <1>9, <3>2 DEF pawnAttacks
    <3>4. CASE them = WHITE
      BY <1>5, <1>20, <3>1, <3>3, <3>4 DEF Jumps
    <3>5. CASE them # WHITE
      BY <1>5, <1>20, <3>1, <3>3, <3>5 DEF Jumps
    <3> QED BY <3>4, <3>5
  <2>3. us = WHITE <=> them # WHITE
    BY <1>1 DEF Color, Other, WHITE, BLACK
  <2>4. k \in Int
    BY <1>9 DEF Square
  <2> QED BY <1>3, <1>4, <1>5, <2>1, <2>2, <2>3, <2>4
\* a slider that the pawn has uncovered attacks the square it left
<1>21. ASSUME NEW dirs, dirs \subseteq Directions, NEW s,
              Slides(dirs, k, now, s), ~Slides(dirs, k, occ, s)
       PROVE  Slides(dirs, from, now, s)
  <2>1. \E d \in dirs : \E n \in 1 .. 7 : \E i \in 1 .. n - 1 :
              /\ s = k + n * d /\ Free(d, k, n) /\ k + i * d \in occ \ now
              /\ \A j \in 1 .. n - 1 : k + j * d \notin now
    BY <1>9, <1>21, SlidesUnless
  <2>2. PICK d \in dirs : \E n \in 1 .. 7 : \E i \in 1 .. n - 1 :
              /\ s = k + n * d /\ Free(d, k, n) /\ k + i * d \in occ \ now
              /\ \A j \in 1 .. n - 1 : k + j * d \notin now
    BY <2>1
  <2>9. PICK n \in 1 .. 7 : \E i \in 1 .. n - 1 :
              /\ s = k + n * d /\ Free(d, k, n) /\ k + i * d \in occ \ now
              /\ \A j \in 1 .. n - 1 : k + j * d \notin now
    BY <2>2
  <2>3. PICK i \in 1 .. n - 1 :
              /\ s = k + n * d /\ Free(d, k, n) /\ k + i * d \in occ \ now
              /\ \A j \in 1 .. n - 1 : k + j * d \notin now
    BY <2>9
  <2>4. from = k + i * d /\ d \in Directions
    BY <1>14, <1>21, <2>3
  <2>5. /\ n - i \in 1 .. 7 /\ Free(d, from, n - i)
        /\ \A j \in 1 .. n - i : from + j * d = k + (i + j) * d
    BY <1>9, <2>3, <2>4, SubLine
  <2>6. s = from + (n - i) * d
    <3>1. n - i \in 1 .. n - i /\ i + (n - i) = n
      BY <2>5
    <3> QED BY <2>3, <2>5, <3>1
  <2>7. \A j \in 1 .. (n - i) - 1 : from + j * d \notin now
    <3> TAKE j \in 1 .. (n - i) - 1
    <3>1. j \in 1 .. n - i /\ i + j \in 1 .. n - 1
      OBVIOUS
    <3> QED BY <2>3, <2>5, <3>1
  <2> QED BY <2>5, <2>6, <2>7 DEF Slides
<1>22. \A s : /\ s \in bishopAttacks(k, now) /\ s \notin bishopAttacks(k, occ) => s \in bishopAttacks(from, now)
              /\ s \in rookAttacks(k, now) /\ s \notin rookAttacks(k, occ) => s \in rookAttacks(from, now)
  BY <1>3, <1>9, <1>21, SlidersSlide, DirectionSets
<1>23. CASE pawnAttacks[them][k] \cap Placed(q, us, PAWN) # {}
  <2>1. m.to \in pawnAttacks[them][k]
    BY <1>12, <1>16, <1>23
  <2> QED BY <1>1, <1>6, <1>8, <1>9, <1>20, <2>1
<1>24. CASE \/ bishopAttacks(k, now) \cap (Placed(q, us, BISHOP) \cup Placed(q, us, QUEEN)) # {}
            \/ rookAttacks(k, now) \cap (Placed(q, us, ROOK) \cup Placed(q, us, QUEEN)) # {}
  <2>1. \/ bishopAttacks(from, now) \cap (Placed(q, us, BISHOP) \cup Placed(q, us, QUEEN)) # {}
        \/ rookAttacks(from, now) \cap (Placed(q, us, ROOK) \cup Placed(q, us, QUEEN)) # {}
    BY <1>10, <1>11, <1>16, <1>22, <1>24
  <2>2. isAttacked(q, from, us)
    BY <1>10, <1>13, <2>1 DEF isAttacked, now
  <2> QED BY <1>1, <1>6, <1>8, <2>2
<1>25. knightAttacks[k] \cap Placed(q, us, KNIGHT) = {} /\ kingAttacks[k] \cap Placed(q, us, KING) = {}
  BY <1>10, <1>11, <1>16
<1> QED BY <1>19, <1>23, <1>24, <1>25

-----------------------------------------------------------------------------
(* A position and the one a move or a null move led to: never two null moves. *)
NullLast(p) == p.historyState # <<>> /\ Last(p.historyState).move = MOVE_NONE
Joined(p, q) ==
    \/ \E m : MoveShape(p, m) /\ Linked(p, m, q) /\ Spent(p, q)
    \/ LinkedNull(p, q) /\ q.halfMoveClock = p.halfMoveClock /\ ~NullLast(p)
\* the flag that hasCheck remembers
FlagKnown(p) == p.hasCheckFlag # FLAG_TBD => (p.hasCheckFlag = FLAG_TRUE <=> InCheck(p))
StartSafe == EnPassantSafe(setupBoard(start.fen))
\* what holds in every position of a game; phased: as long as no phase is over its maximum
Sane(p, phased) ==
    /\ Good(p) /\ FlagKnown(p) /\ KeyTells(p) /\ p.halfMoveClock \in Nat
    /\ start.fen.enPassantSquare = SQ_NONE => KeyOK(p)
    /\ StartSafe => EnPassantSafe(p)
    /\ phased => PhaseGood(p)

(* The inductive invariant: the history stands for a game, position by position, *)
(* that undoing goes back through.                                               *)
GameRecord(c, n, phased) ==
    /\ n \in Nat
    /\ \A i \in 0 .. n : Sane(c[i], phased) /\ Len(c[i].historyState) = i
    /\ \A i \in 1 .. n : Joined(c[i - 1], c[i])
Reached(phased) == \E c, n : GameRecord(c, n, phased) /\ c[n] = pos

\* Positions that are near have the same attacks.
LEMMA NearAttacks ==
  ASSUME NEW p, NEW q, Near(p, q)
  PROVE  /\ \A sq, by : isAttacked(q, sq, by) <=> isAttacked(p, sq, by)
         /\ InCheck(q) <=> InCheck(p)
<1>1. /\ q.board = p.board /\ q.piecesBb = p.piecesBb /\ q.occupiedBb = p.occupiedBb
      /\ q.enPassantSquare = p.enPassantSquare /\ q.kingSquare = p.kingSquare
      /\ q.nextPlayer = p.nextPlayer
  BY NearFields
<1>2. getOccupiedBb(q) = getOccupiedBb(p)
  BY <1>1 DEF getOccupiedBb
<1>3. \A sq, by : isAttacked(q, sq, by) <=> isAttacked(p, sq, by)
  BY <1>1, <1>2 DEF isAttacked, EnPassantAttacked
<1> QED BY <1>1, <1>3 DEF InCheck

\* What hasCheck remembers and the game phase are of no account here.
LEMMA NearSafe ==
  ASSUME NEW p, NEW q, Near(p, q), EnPassantSafe(p)
  PROVE  EnPassantSafe(q)
BY NearFields, NearAttacks DEF EnPassantSafe

\* A position that is joined stays so when a check is looked up.
LEMMA JoinedNear ==
  ASSUME NEW p, NEW q, Joined(p, q), NEW r, Near(q, r)
  PROVE  Joined(p, r)
<1>1. r.board = q.board /\ r.kingSquare = q.kingSquare /\ r.nextPlayer = q.nextPlayer
      /\ r.moveNumber = q.moveNumber /\ r.historyState = q.historyState /\ r.halfMoveClock = q.halfMoveClock
  BY NearFields
<1>2. ASSUME NEW m, MoveShape(p, m), Linked(p, m, q), Spent(p, q) PROVE Joined(p, r)
  <2>1. Linked(p, m, r)
    BY <1>1, <1>2 DEF Linked, Turn, IsNormal, IsPromotion, IsEnPassant, IsCastling
  <2>2. Spent(p, r)
    BY <1>1, <1>2 DEF Spent
  <2> QED BY <1>2, <2>1, <2>2 DEF Joined
<1>3. ASSUME LinkedNull(p, q), q.halfMoveClock = p.halfMoveClock, ~NullLast(p) PROVE Joined(p, r)
  BY <1>1, <1>3 DEF Joined, LinkedNull
<1> QED BY <1>2, <1>3 DEF Joined

\* A record grows by a position that is joined to its last.
LEMMA Extended ==
  ASSUME NEW phased, NEW c, NEW n, GameRecord(c, n, phased),
         NEW q, Sane(q, phased), Joined(c[n], q), Len(q.historyState) = n + 1
  PROVE  \E d : GameRecord(d, n + 1, phased) /\ d[n + 1] = q
<1> DEFINE d == [i \in 0 .. n + 1 |-> IF i = n + 1 THEN q ELSE c[i]]
<1>1. n \in Nat
  BY DEF GameRecord
<1>2. \A i \in 0 .. n : d[i] = c[i]
  BY <1>1
<1>3. d[n + 1] = q
  BY <1>1
<1> HIDE DEF d
<1>4. ASSUME NEW i \in 0 .. n + 1 PROVE Sane(d[i], phased) /\ Len(d[i].historyState) = i
  <2>1. i \in 0 .. n \/ i = n + 1
    BY <1>1
  <2> QED BY <1>2, <1>3, <2>1 DEF GameRecord
<1>5. ASSUME NEW i \in 1 .. n + 1 PROVE Joined(d[i - 1], d[i])
  <2>1. i \in 1 .. n \/ i = n + 1
    BY <1>1
  <2>2. CASE i \in 1 .. n
    <3>1. i \in 0 .. n /\ i - 1 \in 0 .. n
      BY <1>1, <2>2
    <3> QED BY <1>2, <2>2, <3>1 DEF GameRecord
  <2>3. CASE i = n + 1
    <3>1. i - 1 = n /\ n \in 0 .. n
      BY <1>1, <2>3
    <3> QED BY <1>2, <1>3, <2>3, <3>1
  <2> QED BY <2>1, <2>2, <2>3
<1>6. GameRecord(d, n + 1, phased)
  BY <1>1, <1>4, <1>5 DEF GameRecord
<1> QED BY <1>3, <1>6

\* The last position of a record may be replaced by one near it.
LEMMA Replaced ==
  ASSUME NEW phased, NEW c, NEW n, GameRecord(c, n, phased), NEW q, Sane(q, phased), Near(c[n], q)
  PROVE  \E d : GameRecord(d, n, phased) /\ d[n] = q
<1> DEFINE d == [i \in 0 .. n |-> IF i = n THEN q ELSE c[i]]
<1>1. n \in Nat
  BY DEF GameRecord
<1>2. \A i \in 0 .. n - 1 : d[i] = c[i]
  BY <1>1
<1>3. d[n] = q
  BY <1>1
<1> HIDE DEF d
<1>4. ASSUME NEW i \in 0 .. n PROVE Sane(d[i], phased) /\ Len(d[i].historyState) = i
  <2>1. i \in 0 .. n - 1 \/ i = n
    BY <1>1
  <2>2. CASE i \in 0 .. n - 1
    BY <1>2, <2>2 DEF GameRecord
  <2>3. CASE i = n
    <3>1. q.historyState = c[n].historyState
      BY NearFields
    <3> QED BY <1>3, <2>3, <3>1 DEF GameRecord
  <2> QED BY <2>1, <2>2, <2>3
<1>5. ASSUME NEW i \in 1 .. n PROVE Joined(d[i - 1], d[i])
  <2>1. Joined(c[i - 1], c[i]) /\ i - 1 \in 0 .. n - 1
    BY <1>1 DEF GameRecord
  <2>2. CASE i \in 0 .. n - 1
    BY <1>2, <2>1, <2>2
  <2>3. CASE i = n
    BY <1>2, <1>3, <2>1, <2>3, JoinedNear
  <2>4. i \in 0 .. n - 1 \/ i = n
    BY <1>1
  <2> QED BY <2>2, <2>3, <2>4
<1>6. GameRecord(d, n, phased)
  BY <1>1, <1>4, <1>5 DEF GameRecord
<1> QED BY <1>3, <1>6

\* A record without its last position is a record.
LEMMA Shortened ==
  ASSUME NEW phased, NEW c, NEW n, GameRecord(c, n, phased), n # 0
  PROVE  GameRecord(c, n - 1, phased) /\ Joined(c[n - 1], c[n]) /\ Sane(c[n - 1], phased) /\ Sane(c[n], phased)
<1>1. n \in Nat /\ n - 1 \in Nat /\ n \in 1 .. n /\ n - 1 \in 0 .. n /\ n \in 0 .. n
  BY DEF GameRecord
<1>2. \A i \in 0 .. n - 1 : i \in 0 .. n
  BY <1>1
<1>3. \A i \in 1 .. n - 1 : i \in 1 .. n
  BY <1>1
<1> QED BY <1>1, <1>2, <1>3 DEF GameRecord

-----------------------------------------------------------------------------
PhaseFits == PhaseOf(pos) <= GAME_PHASE_MAX

\* Positions that are alike are near, with the same check flag.
LEMMA AlikeNear == ASSUME NEW p, NEW q, Alike(p, q) PROVE Near(p, q) /\ q.hasCheckFlag = p.hasCheckFlag
BY DEF Alike, Near, Fields

\* The key of a position near another.
LEMMA NearKey ==
  ASSUME NEW p, NEW q, Near(p, q)
  PROVE  (KeyOK(p) => KeyOK(q)) /\ (KeyTells(p) => KeyTells(q)) /\ q.halfMoveClock = p.halfMoveClock
<1>1. /\ q.zobristKey = p.zobristKey /\ q.enPassantSquare = p.enPassantSquare
      /\ q.castlingRights = p.castlingRights /\ q.nextPlayer = p.nextPlayer /\ q.board = p.board
  BY NearFields
<1>2. PieceFeatures(q, PieceType) = PieceFeatures(p, PieceType)
  BY <1>1, SameBoards
<1>3. Others(q) = Others(p)
  BY <1>1 DEF Others, EnPassantFeatures, PlayerFeatures
<1>4. KeyOK(p) => KeyOK(q)
  BY <1>1, <1>2, <1>3 DEF KeyOK, KeyIs
<1>5. KeyTells(p) => KeyTells(q)
  BY <1>1, <1>2 DEF KeyTells
<1> QED BY <1>4, <1>5, NearFields

\* The values of the check flag differ.
LEMMA Flags == FLAG_TBD # FLAG_TRUE /\ FLAG_TBD # FLAG_FALSE /\ FLAG_TRUE # FLAG_FALSE
BY DEF FLAG_TBD, FLAG_TRUE, FLAG_FALSE

\* The position is the last of its record.
LEMMA ReachedNow ==
  ASSUME NEW phased, Reached(phased)
  PROVE  \E c, n : GameRecord(c, n, phased) /\ c[n] = pos /\ n \in Nat
                   /\ Sane(pos, phased) /\ Len(pos.historyState) = n
<1>1. PICK c, n : GameRecord(c, n, phased) /\ c[n] = pos
  BY DEF Reached
<1>2. n \in Nat /\ n \in 0 .. n
  BY <1>1 DEF GameRecord
<1>3. Sane(pos, phased) /\ Len(pos.historyState) = n
  BY <1>1, <1>2 DEF GameRecord
<1> QED BY <1>1, <1>2, <1>3

\* A record of the next position.
LEMMA ReachedThen ==
  ASSUME NEW phased, NEW c, NEW n, GameRecord(c, n, phased), c[n] = pos', start' = start
  PROVE  Reached(phased)'
<1>1. StartSafe' <=> StartSafe
  BY DEF StartSafe
<1>2. GameRecord(c, n, phased)'
  BY <1>1 DEF GameRecord, Sane
<1> QED BY <1>2 DEF Reached

\* A history is empty or not.
LEMMA HistoryEmpty == \A h : IsHistory(h) /\ h # <<>> => Len(h) > 0
BY DEF IsHistory

\* The entry of a null move is told from that of a move.
LEMMA Entries ==
  /\ \A p, m : Record(p, m).move = m /\ NullEntry(p).move = MOVE_NONE
  /\ \A p, m : MoveShape(p, m) => m # MOVE_NONE
<1>1. \A p, m : Record(p, m).move = m /\ NullEntry(p).move = MOVE_NONE
  BY DEF Record, NullEntry, Entry
<1>2. MOVE_NONE.from = MOVE_NONE.to
  BY DEF MOVE_NONE, createMove
<1> QED BY <1>1, <1>2 DEF MoveShape

-----------------------------------------------------------------------------
(* Every action keeps the history one of a game. *)

\* The first position is a record by itself.
LEMMA ReachedInit ==
  ASSUME NEW phased, Init, phased => PhaseFits
  PROVE  Reached(phased)
<1>1. start \in Starts /\ pos = setupBoard(start.fen)
  BY DEF Init
<1>2. ProperFen(start.fen)
  BY <1>1, StartsAssumption
<1>3. /\ Good(pos) /\ pos.historyState = <<>> /\ pos.hasCheckFlag = FLAG_TBD
      /\ PhaseFits => PhaseGood(pos)
      /\ KeyTells(pos) /\ pos.halfMoveClock \in Nat
      /\ start.fen.enPassantSquare = SQ_NONE => KeyOK(pos)
  BY <1>1, <1>2, SetupGood DEF PhaseFits
<1>3a. StartSafe => EnPassantSafe(pos)
  BY <1>1 DEF StartSafe
<1>4. Sane(pos, phased)
  BY <1>3, <1>3a DEF Sane, FlagKnown
<1> DEFINE c == [i \in 0 .. 0 |-> pos]
<1>5. c[0] = pos /\ \A i \in 0 .. 0 : c[i] = pos /\ i = 0
  OBVIOUS
<1>6. Len(pos.historyState) = 0
  BY <1>3
<1>7. 0 \in Nat /\ 1 .. 0 = {}
  OBVIOUS
<1> HIDE DEF c
<1>8. GameRecord(c, 0, phased)
  BY <1>4, <1>5, <1>6, <1>7 DEF GameRecord
<1> QED BY <1>5, <1>8 DEF Reached

\* doMove extends the record.
LEMMA ReachedDoMove ==
  ASSUME NEW phased, Reached(phased), DoMove, phased => PhaseFits'
  PROVE  Reached(phased)'
<1>1. PICK c, n : /\ GameRecord(c, n, phased) /\ c[n] = pos /\ n \in Nat
                  /\ Sane(pos, phased) /\ Len(pos.historyState) = n
  BY ReachedNow
<1>2. PICK m \in Playable : pos' = doMove(pos, m)
  BY DEF DoMove
<1>3. m \in generatePseudoLegalMoves(pos, GenAll, FALSE) /\ ~KingCapturable(pos) /\ start' = start
  BY DEF Playable, DoMove, wasLegalMove
<1>4. PICK q : q = doMove(pos, m)
  OBVIOUS
<1>5. Good(pos) /\ Ready(pos)
  BY <1>1, GoodReady DEF Sane
<1>6. MoveShape(pos, m) /\ Good(q)
  BY <1>3, <1>4, <1>5, MoveStaysGood
<1>6a. Spent(pos, q) /\ q.halfMoveClock \in Nat
  BY <1>1, <1>3, <1>4, <1>5, <1>6, PseudoGenerated, MoveSpends DEF Sane
<1>7. Turned(pos, m, q) /\ Linked(pos, m, q)
  BY <1>4, <1>5, <1>6, DoLinks
<1>7a. EnPassantSafe(q)
  <2>1. q.nextPlayer = Other(pos.nextPlayer)
    BY <1>7 DEF Turned
  <2> QED BY <1>3, <1>4, <1>5, <1>6, <2>1, PseudoGenerated, EnPassantLeft
<1>8. Ended(pos, q) /\ q.historyState = Append(pos.historyState, Record(pos, m)) /\ q.hasCheckFlag = FLAG_TBD
  BY <1>7 DEF Turned
<1>9. Len(q.historyState) = n + 1
  BY <1>1, <1>5, <1>8, AppendFacts DEF Good
<1>10. PhaseFits' => PhaseOf(q) <= GAME_PHASE_MAX
  BY <1>2, <1>4 DEF PhaseFits
<1>11. Sane(q, phased)
  BY <1>1, <1>6, <1>6a, <1>7a, <1>8, <1>10 DEF Sane, FlagKnown, Ended
<1>12. Joined(c[n], q)
  BY <1>1, <1>6, <1>6a, <1>7 DEF Joined
<1>13. PICK d : GameRecord(d, n + 1, phased) /\ d[n + 1] = q
  BY <1>1, <1>9, <1>11, <1>12, Extended
<1> QED BY <1>2, <1>3, <1>4, <1>13, ReachedThen

\* doNullMove extends the record.
LEMMA ReachedDoNullMove ==
  ASSUME NEW phased, Reached(phased), DoNullMove, phased => PhaseFits'
  PROVE  Reached(phased)'
<1>1. PICK c, n : /\ GameRecord(c, n, phased) /\ c[n] = pos /\ n \in Nat
                  /\ Sane(pos, phased) /\ Len(pos.historyState) = n
  BY ReachedNow
<1>2. PICK q : q = doNullMove(pos)
  OBVIOUS
<1>3. pos' = q /\ start' = start
  BY <1>2 DEF DoNullMove
<1>4. Good(pos)
  BY <1>1 DEF Sane
<1>5. /\ Ended(pos, q) /\ LinkedNull(pos, q) /\ Good(q) /\ q.hasCheckFlag = FLAG_TBD
      /\ q.halfMoveClock = pos.halfMoveClock /\ q.enPassantSquare = SQ_NONE
  BY <1>2, <1>4, DoNull
<1>5a. EnPassantSafe(q)
  BY <1>5 DEF EnPassantSafe
<1>6. Len(q.historyState) = n + 1
  BY <1>1, <1>4, <1>5, AppendFacts DEF Good, LinkedNull
<1>7. PhaseFits' => PhaseOf(q) <= GAME_PHASE_MAX
  BY <1>3 DEF PhaseFits
<1>8. Sane(q, phased)
  BY <1>1, <1>5, <1>5a, <1>7 DEF Sane, FlagKnown, Ended
<1>8a. ~NullLast(pos)
  <2>1. pos.historyState # <<>> => Len(pos.historyState) > 0
    BY <1>4, HistoryEmpty DEF Good
  <2> QED BY <2>1 DEF DoNullMove, NullLast, LastMove, Ply
<1>9. Joined(c[n], q)
  BY <1>1, <1>5, <1>8a DEF Joined
<1>10. PICK d : GameRecord(d, n + 1, phased) /\ d[n + 1] = q
  BY <1>1, <1>6, <1>8, <1>9, Extended
<1> QED BY <1>3, <1>10, ReachedThen

\* taking back leads to the position before, but for its game phase
LEMMA ReachedBack ==
  ASSUME NEW phased, NEW c, NEW n, GameRecord(c, n, phased), n # 0,
         NEW r, Undone(c[n - 1], c[n], r), pos' = r, start' = start
  PROVE  Reached(phased)'
<1>1. GameRecord(c, n - 1, phased) /\ Sane(c[n - 1], phased) /\ Sane(c[n], phased)
  BY Shortened
<1>2. Alike(c[n - 1], r) /\ (PhaseGood(c[n]) /\ PhaseOf(c[n - 1]) <= GAME_PHASE_MAX => PhaseGood(r))
  BY DEF Undone
<1>3. Near(c[n - 1], r) /\ r.hasCheckFlag = c[n - 1].hasCheckFlag
  BY <1>2, AlikeNear
<1>4. Good(r)
  BY <1>1, <1>2, GoodAlike DEF Sane
<1>5. FlagKnown(r)
  BY <1>1, <1>3, NearAttacks DEF Sane, FlagKnown
<1>6. /\ KeyOK(c[n - 1]) => KeyOK(r)
      /\ KeyTells(c[n - 1]) => KeyTells(r)
      /\ r.halfMoveClock = c[n - 1].halfMoveClock
  BY <1>3, NearKey
<1>7. phased => PhaseGood(r)
  BY <1>1, <1>2 DEF Sane, PhaseGood
<1>7a. StartSafe => EnPassantSafe(r)
  BY <1>1, <1>3, NearSafe DEF Sane
<1>8. Sane(r, phased)
  BY <1>1, <1>4, <1>5, <1>6, <1>7, <1>7a DEF Sane
<1>9. PICK d : GameRecord(d, n - 1, phased) /\ d[n - 1] = r
  BY <1>1, <1>3, <1>8, Replaced
<1> QED BY <1>9, ReachedThen

\* undoMove and undoNullMove take back the move that was last made.
LEMMA ReachedUndo ==
  ASSUME NEW phased, Reached(phased), UndoMove \/ UndoNullMove
  PROVE  Reached(phased)'
<1>1. PICK c, n : /\ GameRecord(c, n, phased) /\ c[n] = pos /\ n \in Nat
                  /\ Sane(pos, phased) /\ Len(pos.historyState) = n
  BY ReachedNow
<1>2. n # 0 /\ start' = start
  BY <1>1 DEF UndoMove, UndoNullMove, Ply
<1>3. Joined(c[n - 1], pos) /\ Sane(c[n - 1], phased)
  BY <1>1, <1>2, Shortened
<1> DEFINE p == c[n - 1]
<1>4. Good(p) /\ Ready(p) /\ IsPosition(pos) /\ BoardOK(pos)
  BY <1>1, <1>3, GoodReady DEF Sane, Good
<1> HIDE DEF p
<1>5. CASE UndoMove
  <2>1. LastMove # MOVE_NONE /\ pos' = undoMove(pos)
    BY <1>5 DEF UndoMove
  <2>2. ASSUME LinkedNull(p, pos) PROVE FALSE
    <3>1. pos.historyState = Append(p.historyState, NullEntry(p))
      BY <2>2 DEF LinkedNull
    <3>2. LastMove = MOVE_NONE
      BY <1>4, <3>1, AppendFacts, Entries DEF LastMove, Good
    <3> QED BY <2>1, <3>2
  <2>3. PICK m : MoveShape(p, m) /\ Linked(p, m, pos)
    BY <1>3, <2>2 DEF Joined, p
  <2>4. Undone(p, pos, undoMove(pos))
    BY <1>4, <2>3, UndoLinked
  <2> QED BY <1>1, <1>2, <2>1, <2>4, ReachedBack DEF p
<1>6. CASE UndoNullMove
  <2>1. LastMove = MOVE_NONE /\ pos' = undoNullMove(pos)
    BY <1>6 DEF UndoNullMove
  <2>2. ASSUME NEW m, MoveShape(p, m), Linked(p, m, pos) PROVE FALSE
    <3>1. pos.historyState = Append(p.historyState, Record(p, m))
      BY <2>2 DEF Linked, Turn
    <3>2. LastMove = m
      BY <1>4, <3>1, AppendFacts, Entries DEF LastMove, Good
    <3> QED BY <2>1, <2>2, <3>2, Entries
  <2>3. LinkedNull(p, pos)
    BY <1>3, <2>2 DEF Joined, p
  <2>4. Undone(p, pos, undoNullMove(pos))
    BY <1>4, <2>3, UndoNull
  <2> QED BY <1>1, <1>2, <2>1, <2>4, ReachedBack DEF p
<1> QED BY <1>5, <1>6

\* hasCheck remembers what is so.
LEMMA ReachedHasCheck ==
  ASSUME NEW phased, Reached(phased), HasCheck
  PROVE  Reached(phased)'
<1>1. PICK c, n : /\ GameRecord(c, n, phased) /\ c[n] = pos /\ n \in Nat
                  /\ Sane(pos, phased) /\ Len(pos.historyState) = n
  BY ReachedNow
<1>2. PICK q : q = RememberCheck(pos)
  OBVIOUS
<1>3. pos' = q /\ start' = start /\ pos.hasCheckFlag = FLAG_TBD
  BY <1>2 DEF HasCheck
<1>4. Good(pos) /\ IsPosition(pos)
  BY <1>1 DEF Sane, Good
<1>5. /\ IsPosition(q)
      /\ \A x \in Fields \ {"hasCheckFlag"} : q[x] = pos[x]
      /\ q.hasCheckFlag = IF hasCheck(pos) THEN FLAG_TRUE ELSE FLAG_FALSE
  BY <1>2, <1>4, RememberFields
<1>6. Near(pos, q)
  BY <1>5 DEF Near
<1>7. hasCheck(pos) <=> InCheck(pos)
  BY <1>3 DEF hasCheck
<1>8. FlagKnown(q)
  BY <1>5, <1>6, <1>7, Flags, NearAttacks DEF FlagKnown
<1>9. q.board = pos.board /\ q.gamePhase = pos.gamePhase
  BY <1>5 DEF Fields
<1>10. PhaseGood(pos) => PhaseGood(q)
  BY <1>9, SameBoards DEF PhaseGood, PhaseIn
<1>11. Sane(q, phased)
  BY <1>1, <1>4, <1>6, <1>8, <1>10, GoodNear, NearKey, NearSafe DEF Sane
<1>12. PICK d : GameRecord(d, n, phased) /\ d[n] = q
  BY <1>1, <1>6, <1>11, Replaced
<1> QED BY <1>3, <1>12, ReachedThen

\* Every step keeps a record.
LEMMA ReachedNext ==
  ASSUME NEW phased, Reached(phased), [Next]_vars, phased => PhaseFits'
  PROVE  Reached(phased)'
<1>1. CASE Evaluate \/ UNCHANGED vars
  <2>1. pos' = pos /\ start' = start
    BY <1>1 DEF Evaluate, vars
  <2>2. PICK c, n : GameRecord(c, n, phased) /\ c[n] = pos
    BY DEF Reached
  <2> QED BY <2>1, <2>2, ReachedThen
<1> QED BY <1>1, ReachedDoMove, ReachedDoNullMove, ReachedUndo, ReachedHasCheck DEF Next

-----------------------------------------------------------------------------
(* What the named parts of the state say, in the words of the properties. *)

\* A sound position has the bitboards, the pawn key and the material of its board.
LEMMA BoardFits ==
  ASSUME NEW p, Good(p)
  PROVE  /\ BitboardsMatch(p)
         /\ p.pawnKey = PieceFeatures(p, {PAWN})
         /\ \A c \in Color : /\ p.material[c] = Worth(p, c, PieceType)
                             /\ p.materialNonPawn[c] = Worth(p, c, KNIGHT .. QUEEN)
<1>1. BoardOK(p) /\ KingsOK(p)
  BY DEF Good
<1>2. ASSUME NEW c \in Color, NEW pt \in PieceType PROVE p.piecesBb[c][pt] = Placed(p, c, pt)
  BY <1>1 DEF BoardOK
<1>3. ASSUME NEW c \in Color PROVE p.occupiedBb[c] = UNION {p.piecesBb[c][pt] : pt \in PieceType}
  <2>1. p.occupiedBb[c] = Own(p, c)
    BY <1>1 DEF BoardOK
  <2>2. ASSUME NEW s \in Own(p, c) PROVE \E pt \in PieceType : s \in Placed(p, c, pt)
    <3>1. s \in Square /\ p.board[s] \in Piece /\ colorOf(p.board[s]) = c
      BY <1>1 DEF Own, BoardOK
    <3>2. PICK d \in Color, pt \in PieceType : p.board[s] = makePiece(d, pt)
      BY <3>1 DEF Piece
    <3>3. colorOf(makePiece(d, pt)) = d
      BY PieceFacts
    <3> QED BY <3>1, <3>2, <3>3 DEF Placed
  <2>3. ASSUME NEW pt \in PieceType, NEW s \in Placed(p, c, pt) PROVE s \in Own(p, c)
    <3>1. s \in Square /\ p.board[s] = makePiece(c, pt)
      BY DEF Placed
    <3>2. colorOf(makePiece(c, pt)) = c /\ makePiece(c, pt) # PIECE_NONE
      BY PieceFacts
    <3> QED BY <3>1, <3>2 DEF Own
  <2>4. Own(p, c) = UNION {Placed(p, c, pt) : pt \in PieceType}
    BY <2>2, <2>3
  <2>5. {Placed(p, c, pt) : pt \in PieceType} = {p.piecesBb[c][pt] : pt \in PieceType}
    BY <1>2
  <2> QED BY <2>1, <2>4, <2>5
<1>4. ASSUME NEW c \in Color PROVE Placed(p, c, KING) = {p.kingSquare[c]}
  <2>1. p.kingSquare[c] \in Square /\ \A s \in Square : p.board[s] = makePiece(c, KING) <=> s = p.kingSquare[c]
    BY <1>1 DEF KingsOK
  <2> QED BY <2>1 DEF Placed
<1>5. BitboardsMatch(p)
  BY <1>2, <1>3, <1>4 DEF BitboardsMatch
<1> QED BY <1>1, <1>5 DEF BoardOK

\* A sound position with a sound key has the keys of its fields.
LEMMA KeysFit ==
  ASSUME NEW p, Good(p), KeyOK(p)
  PROVE  KeysMatch(p)
<1>1. p.zobristKey = PieceFeatures(p, PieceType) \cup Others(p)
  BY DEF KeyOK, KeyIs
<1>2. p.pawnKey = PieceFeatures(p, {PAWN})
  BY BoardFits
<1> DEFINE a == PieceFeatures(p, PieceType)
           b == EnPassantFeatures(p)
           c == castlingFeature(p.castlingRights)
           d == PlayerFeatures(p)
<1>3. p.zobristKey = a \cup (b \cup c \cup d)
  BY <1>1 DEF Others
<1>4. a \cup (b \cup c \cup d) = a \cup b \cup c \cup d
  OBVIOUS
<1> QED BY <1>2, <1>3, <1>4, Zenon DEF KeysMatch, PlayerFeatures

\* A sound position with a sound phase has the material of its board.
LEMMA MaterialFits ==
  ASSUME NEW p, Good(p), PhaseGood(p)
  PROVE  MaterialMatches(p)
BY BoardFits DEF MaterialMatches, PhaseGood, PhaseIn

\* Every pseudo-legal move of a sound position is undone.
LEMMA MovesUndone ==
  ASSUME NEW p, Good(p), NEW m \in generatePseudoLegalMoves(p, GenAll, FALSE)
  PROVE  /\ RestoresAllButPhase(p, m)
         /\ PhaseGood(p) => RestoresPhase(p, m)
BY PseudoGenerated, GeneratedShape, GoodReady, UndoDo

-----------------------------------------------------------------------------
(* The pawn cache: an entry holds the score of its pawns. *)

\* the pawn key tells the pawns
LEMMA PawnsOfKey ==
  ASSUME NEW p, NEW q, BoardOK(p), BoardOK(q), p.pawnKey = q.pawnKey
  PROVE  PawnScore(p) = PawnScore(q)
<1>1. PAWN \in PieceType
  BY DEF PAWN, PieceType, KING, QUEEN
<1>2. ASSUME NEW r, NEW c \in Color, NEW s \in Square
      PROVE  s \in Placed(r, c, PAWN) <=> <<"piece", makePiece(c, PAWN), s>> \in PieceFeatures(r, {PAWN})
  <2>1. typeOf(makePiece(c, PAWN)) = PAWN
    BY <1>1, PieceFacts
  <2>2. ASSUME s \in Placed(r, c, PAWN)
        PROVE  <<"piece", makePiece(c, PAWN), s>> \in PieceFeatures(r, {PAWN})
    BY <2>1, <2>2 DEF Placed, PieceFeatures
  <2>3. ASSUME <<"piece", makePiece(c, PAWN), s>> \in PieceFeatures(r, {PAWN})
        PROVE  s \in Placed(r, c, PAWN)
    <3>1. PICK t \in Square : <<"piece", makePiece(c, PAWN), s>> = <<"piece", r.board[t], t>>
      BY <2>3 DEF PieceFeatures
    <3>2. s = t /\ r.board[t] = makePiece(c, PAWN)
      BY <3>1
    <3> QED BY <3>2 DEF Placed
  <2> QED BY <2>2, <2>3
<1>3. ASSUME NEW c \in Color PROVE p.piecesBb[c][PAWN] = q.piecesBb[c][PAWN]
  <2>1. p.piecesBb[c][PAWN] = Placed(p, c, PAWN) /\ q.piecesBb[c][PAWN] = Placed(q, c, PAWN)
    BY <1>1 DEF BoardOK
  <2>2. PieceFeatures(p, {PAWN}) = PieceFeatures(q, {PAWN})
    BY DEF BoardOK
  <2>3. Placed(p, c, PAWN) \subseteq Square /\ Placed(q, c, PAWN) \subseteq Square
    BY DEF Placed
  <2>4. \A s \in Square : s \in Placed(p, c, PAWN) <=> s \in Placed(q, c, PAWN)
    BY <1>2, <2>2
  <2> QED BY <2>1, <2>3, <2>4
<1>4. WHITE \in Color /\ BLACK \in Color
  BY DEF Color
<1> QED BY <1>3, <1>4, Zenon DEF PawnScore

\* A pawn key belongs to an entry of the cache.
LEMMA HashInRange ==
  ASSUME NEW p, BoardOK(p)
  PROVE  getHash(p.pawnKey) \in 0 .. Slots - 1
<1> DEFINE squares == {t \in Square : typeOf(p.board[t]) \in {PAWN}}
<1>1. IsFiniteSet(squares)
  BY Squares, FS_Subset
<1>2. p.pawnKey = {<<"piece", p.board[s], s>> : s \in squares}
  BY DEF BoardOK, PieceFeatures
<1> HIDE DEF squares
<1> DEFINE f == [s \in squares |-> <<"piece", p.board[s], s>>]
<1>2a. f \in Surjection(squares, p.pawnKey)
  BY <1>2 DEF Surjection
<1> HIDE DEF f
<1>3. IsFiniteSet(p.pawnKey)
  BY <1>1, <1>2a, FS_Surjection
<1>4. Cardinality(p.pawnKey) \in Nat
  BY <1>3, FS_CardinalityType
<1> DEFINE n == Cardinality(p.pawnKey)
<1>5. n \in Nat
  BY <1>4
<1> HIDE DEF n
<1>6. n % Slots \in 0 .. Slots - 1
  BY <1>5, SlotsAssumption
<1> QED BY <1>6 DEF getHash, n

\* the inductive invariant of the cache
CacheTrue(cache) ==
    /\ DOMAIN cache.entries = 0 .. Slots - 1
    /\ \A i \in 0 .. Slots - 1 :
         LET entry == cache.entries[i]
         IN entry.key # Key0 =>
              \A p : BoardOK(p) /\ p.pawnKey = entry.key => PawnScore(p) = score(entry.midvalue, entry.endvalue)

\* A new cache has free entries only.
LEMMA NewCache ==
  /\ DOMAIN NewPawnTT.entries = 0 .. Slots - 1
  /\ \A i \in 0 .. Slots - 1 : NewPawnTT.entries[i].key = Key0
BY DEF NewPawnTT, clearPawnTT, FreeEntry

\* A score is its two values.
LEMMA ScoreIsScore == \A p : PawnScore(p) = score(PawnScore(p).midgame, PawnScore(p).endgame)
BY DEF PawnScore, Plus, score

\* An evaluation keeps the cache true.
LEMMA CacheKept ==
  ASSUME NEW p, BoardOK(p), NEW cache, CacheTrue(cache)
  PROVE  CacheTrue(CacheAfter(p, cache))
<1>1. CASE CacheHit(p, cache)
  BY <1>1 DEF CacheAfter
<1>2. CASE ~CacheHit(p, cache)
  <2> DEFINE h == getHash(p.pawnKey)
             new == [key |-> p.pawnKey, midvalue |-> PawnScore(p).midgame, endvalue |-> PawnScore(p).endgame]
  <2>1. PICK then : then = CacheAfter(p, cache)
    OBVIOUS
  <2>2. then.entries = [cache.entries EXCEPT ![h] = new]
    BY <1>2, <2>1 DEF CacheAfter, putPawnTT
  <2>3. h \in 0 .. Slots - 1 /\ DOMAIN cache.entries = 0 .. Slots - 1
    BY HashInRange DEF CacheTrue
  <2>4. /\ new.key = p.pawnKey
        /\ score(new.midvalue, new.endvalue) = PawnScore(p)
    BY ScoreIsScore
  <2> HIDE DEF h, new
  <2>5. then.entries[h] = new /\ \A i \in 0 .. Slots - 1 : i # h => then.entries[i] = cache.entries[i]
    BY <2>2, <2>3
  <2>6. ASSUME NEW i \in 0 .. Slots - 1, then.entries[i].key # Key0,
               NEW q, BoardOK(q), q.pawnKey = then.entries[i].key
        PROVE  PawnScore(q) = score(then.entries[i].midvalue, then.entries[i].endvalue)
    <3>1. CASE i = h
      BY <2>4, <2>5, <2>6, <3>1, PawnsOfKey
    <3>2. CASE i # h
      BY <2>5, <2>6, <3>2 DEF CacheTrue
    <3> QED BY <3>1, <3>2
  <2>7. DOMAIN then.entries = 0 .. Slots - 1
    BY <2>2, <2>3
  <2> QED BY <2>1, <2>6, <2>7 DEF CacheTrue
<1> QED BY <1>1, <1>2

\* A true cache tells the truth.
LEMMA CacheTells ==
  ASSUME NEW p, BoardOK(p), p.pawnKey # Key0, NEW cache, CacheTrue(cache)
  PROVE  evaluate(p, cache) = evaluate(p, NewPawnTT)
<1>1. getHash(p.pawnKey) \in 0 .. Slots - 1
  BY HashInRange
<1>2. pawnEval(p, NewPawnTT) = PawnScore(p)
  BY <1>1, NewCache DEF pawnEval, CacheHit
<1>3. pawnEval(p, cache) = PawnScore(p)
  BY <1>1 DEF pawnEval, CacheHit, CacheTrue
<1> QED BY <1>2, <1>3, Zenon DEF evaluate

-----------------------------------------------------------------------------
\* Whatever is played, taken back, looked up and evaluated, the history stands
\* for a game in which every position is sound but perhaps for its game phase.
THEOREM GamesAreRecorded == Spec => []Reached(FALSE)
<1>1. Init => Reached(FALSE)
  BY ReachedInit
<1>2. Reached(FALSE) /\ [Next]_vars => Reached(FALSE)'
  BY ReachedNext
<1> QED BY <1>1, <1>2, PTL DEF Spec

\* As long as no material is over the maximum of the game phase, the phase is
\* sound as well.
THEOREM PhasesAreRecorded == Spec /\ []PhaseFits => []Reached(TRUE)
<1>1. Init /\ PhaseFits => Reached(TRUE)
  BY ReachedInit
<1>2. Reached(TRUE) /\ [Next]_vars /\ PhaseFits' => Reached(TRUE)'
  BY ReachedNext
<1> QED BY <1>1, <1>2, PTL DEF Spec

\* What putPiece and removePiece keep with the board, and the castling rights,
\* are those of the board in every position, whatever the phase is; the Zobrist
\* key is if the game did not start with an en passant square.
THEOREM BoardsMatch ==
  Spec => []( /\ BitboardsMatch(pos) /\ RightsMatch(pos)
              /\ pos.pawnKey = PieceFeatures(pos, {PAWN})
              /\ \A c \in Color : /\ pos.material[c] = Worth(pos, c, PieceType)
                                  /\ pos.materialNonPawn[c] = Worth(pos, c, KNIGHT .. QUEEN)
              /\ start.fen.enPassantSquare = SQ_NONE => KeysMatch(pos) )
<1> DEFINE Matches ==
        /\ BitboardsMatch(pos) /\ RightsMatch(pos)
        /\ pos.pawnKey = PieceFeatures(pos, {PAWN})
        /\ \A c \in Color : /\ pos.material[c] = Worth(pos, c, PieceType)
                            /\ pos.materialNonPawn[c] = Worth(pos, c, KNIGHT .. QUEEN)
        /\ start.fen.enPassantSquare = SQ_NONE => KeysMatch(pos)
<1>1. ASSUME Reached(FALSE) PROVE Matches
  <2>1. Good(pos) /\ (start.fen.enPassantSquare = SQ_NONE => KeyOK(pos))
    BY <1>1, ReachedNow DEF Sane
  <2>2. RightsMatch(pos)
    BY <2>1 DEF Good
  <2>3. start.fen.enPassantSquare = SQ_NONE => KeysMatch(pos)
    BY <2>1, KeysFit
  <2> QED BY <2>1, <2>2, <2>3, BoardFits
<1> HIDE DEF Matches
<1>2. Reached(FALSE) => Matches
  BY <1>1
<1>3. Spec => []Matches
  BY <1>2, GamesAreRecorded, PTL
<1> QED BY <1>3 DEF Matches

\* Coherent: keys, bitboards, king squares, material, game phase and castling
\* rights are those of the board after any moves, null moves and undos, for every
\* FEN without an en passant square, as long as the phase is not over its maximum.
THEOREM CoherentAlways ==
  Spec /\ []PhaseFits => [](start.fen.enPassantSquare = SQ_NONE => Coherent)
<1>1. ASSUME Reached(TRUE), start.fen.enPassantSquare = SQ_NONE PROVE Coherent
  <2>1. Good(pos) /\ KeyOK(pos) /\ PhaseGood(pos)
    BY <1>1, ReachedNow DEF Sane
  <2>2. RightsMatch(pos)
    BY <2>1 DEF Good
  <2> QED BY <2>1, <2>2, KeysFit, BoardFits, MaterialFits DEF Coherent
<1>2. Reached(TRUE) => (start.fen.enPassantSquare = SQ_NONE => Coherent)
  BY <1>1
<1> QED BY <1>2, PhasesAreRecorded, PTL

\* Every pseudo-legal move of every position that is reached, made and taken back,
\* leaves the position as it was, but perhaps for the game phase.
THEOREM MovesAreUndone ==
  Spec => [](\A m \in generatePseudoLegalMoves(pos, GenAll, FALSE) : RestoresAllButPhase(pos, m))
<1>1. ASSUME Reached(FALSE)
      PROVE  \A m \in generatePseudoLegalMoves(pos, GenAll, FALSE) : RestoresAllButPhase(pos, m)
  <2>1. Good(pos)
    BY <1>1, ReachedNow DEF Sane
  <2> QED BY <2>1, MovesUndone
<1>2. Reached(FALSE) => \A m \in generatePseudoLegalMoves(pos, GenAll, FALSE) : RestoresAllButPhase(pos, m)
  BY <1>1
<1> QED BY <1>2, GamesAreRecorded, PTL

\* UndoRestores, the game phase included, as long as the phase is not over its
\* maximum in the positions of the game.
THEOREM UndoAlways == Spec /\ []PhaseFits => []UndoRestores
<1>1. ASSUME Reached(TRUE) PROVE UndoRestores
  <2>1. Good(pos) /\ PhaseGood(pos)
    BY <1>1, ReachedNow DEF Sane
  <2> QED BY <2>1, MovesUndone DEF UndoRestores
<1>2. Reached(TRUE) => UndoRestores
  BY <1>1
<1> QED BY <1>2, PhasesAreRecorded, PTL

\* The check flag that is carried from position to position, saved, restored and
\* set by hasCheck says what isAttacked says of the king.
THEOREM FlagsAreKnown == Spec => []FlagKnown(pos)
<1>1. Reached(FALSE) => FlagKnown(pos)
  BY ReachedNow DEF Sane
<1> QED BY <1>1, GamesAreRecorded, PTL

\* CacheTellsTruth: with pawns on the board, the evaluation through the cache is
\* the one computed anew, whatever was evaluated before and for every size of the
\* cache.
THEOREM CacheAlways == Spec => []CacheTellsTruth
<1>1. Init => CacheTrue(pawnCache)
  BY NewCache DEF Init, CacheTrue
<1>2. ASSUME CacheTrue(pawnCache), Reached(FALSE), [Next]_vars PROVE CacheTrue(pawnCache)'
  <2>1. BoardOK(pos)
    BY <1>2, ReachedNow DEF Sane, Good
  <2>2. CASE Evaluate
    BY <1>2, <2>1, <2>2, CacheKept DEF Evaluate
  <2>3. CASE ~Evaluate
    <3>1. pawnCache' = pawnCache
      BY <1>2, <2>3 DEF Next, vars, DoMove, UndoMove, DoNullMove, UndoNullMove, HasCheck
    <3> QED BY <1>2, <3>1 DEF CacheTrue
  <2> QED BY <2>2, <2>3
<1>3. Spec => []CacheTrue(pawnCache)
  <2>1. CacheTrue(pawnCache) /\ Reached(FALSE) /\ [Next]_vars => CacheTrue(pawnCache)'
    BY <1>2
  <2> QED BY <1>1, <2>1, GamesAreRecorded, PTL DEF Spec
<1>4. ASSUME CacheTrue(pawnCache), Reached(FALSE) PROVE CacheTellsTruth
  <2>1. BoardOK(pos)
    BY <1>4, ReachedNow DEF Sane, Good
  <2> QED BY <1>4, <2>1, CacheTells DEF CacheTellsTruth
<1>5. CacheTrue(pawnCache) /\ Reached(FALSE) => CacheTellsTruth
  BY <1>4
<1> QED BY <1>3, <1>5, GamesAreRecorded, PTL

-----------------------------------------------------------------------------
(* Two positions with the same key: the same board and the same player. *)
LEMMA KeyTellsAll ==
  ASSUME NEW p, Good(p), KeyTells(p), NEW q, Good(q), KeyTells(q), p.zobristKey = q.zobristKey
  PROVE  p.board = q.board /\ p.nextPlayer = q.nextPlayer
<1>1. ASSUME NEW r, Good(r), KeyTells(r)
      PROVE  /\ <<"nextPlayer">> \in r.zobristKey <=> r.nextPlayer = BLACK
             /\ \A pc \in Piece, s \in Square : <<"piece", pc, s>> \in r.zobristKey <=> r.board[s] = pc
  <2>1. PICK others : /\ NoPieces(others) /\ r.zobristKey = PieceFeatures(r, PieceType) \cup others
                      /\ <<"nextPlayer">> \in others <=> r.nextPlayer = BLACK
    BY <1>1 DEF KeyTells, Tells
  <2>2. <<"nextPlayer">> \notin PieceFeatures(r, PieceType)
    BY Tags
  <2>3. ASSUME NEW pc \in Piece, NEW s \in Square
        PROVE  <<"piece", pc, s>> \in r.zobristKey <=> r.board[s] = pc
    <3>1. <<"piece", pc, s>>[1] = "piece"
      OBVIOUS
    <3>2. <<"piece", pc, s>> \notin others
      BY <2>1, <3>1 DEF NoPieces
    <3>3. <<"piece", pc, s>> \in PieceFeatures(r, PieceType) <=> r.board[s] = pc
      <4>1. typeOf(pc) \in PieceType
        BY PieceFacts
      <4>2. \A t : <<"piece", r.board[t], t>> = <<"piece", pc, s>> <=> t = s /\ r.board[t] = pc
        OBVIOUS
      <4> QED BY <4>1, <4>2 DEF PieceFeatures
    <3> QED BY <2>1, <3>2, <3>3
  <2> QED BY <2>1, <2>2, <2>3
<1>2. p.nextPlayer = q.nextPlayer
  <2>1. p.nextPlayer \in Color /\ q.nextPlayer \in Color
    BY DEF Good
  <2> QED BY <1>1, <2>1 DEF Color
<1>3. ASSUME NEW s \in Square PROVE p.board[s] = q.board[s]
  <2>1. /\ p.board[s] \in Piece \cup {PIECE_NONE} /\ q.board[s] \in Piece \cup {PIECE_NONE}
        /\ PIECE_NONE \notin Piece
    BY PieceFacts DEF Good, BoardOK
  <2>2. ASSUME NEW pc \in Piece PROVE p.board[s] = pc <=> q.board[s] = pc
    <3>1. <<"piece", pc, s>> \in p.zobristKey <=> p.board[s] = pc
      BY <1>1
    <3>2. <<"piece", pc, s>> \in q.zobristKey <=> q.board[s] = pc
      BY <1>1
    <3> QED BY <3>1, <3>2
  <2> QED BY <2>1, <2>2
<1>4. p.board = q.board
  <2>1. p.board \in [Square -> Piece \cup {PIECE_NONE}] /\ q.board \in [Square -> Piece \cup {PIECE_NONE}]
    BY DEF Good, BoardOK
  <2> QED BY <1>3, <2>1
<1> QED BY <1>2, <1>4

(* One step of a game, seen from the history and the clock. *)
StepOf(p, q) ==
    /\ \E e : /\ q.historyState = Append(p.historyState, e)
              /\ e.zobristKey = p.zobristKey /\ e.halfMoveClock = p.halfMoveClock
    /\ q.nextPlayer = Other(p.nextPlayer)
    /\ Reserve(q.board) <= Reserve(p.board)
    /\ Reserve(q.board) = Reserve(p.board) =>
         \/ q.halfMoveClock = p.halfMoveClock + 1
         \/ q.halfMoveClock = p.halfMoveClock /\ ~NullLast(p) /\ NullLast(q)

\* A step of the record, for the history and the clock.
LEMMA JoinedSteps ==
  ASSUME NEW p, Good(p), NEW q, Joined(p, q)
  PROVE  StepOf(p, q)
<1>1. \A m : Record(p, m).zobristKey = p.zobristKey /\ Record(p, m).halfMoveClock = p.halfMoveClock
  BY DEF Record, Entry
<1>2. NullEntry(p).zobristKey = p.zobristKey /\ NullEntry(p).halfMoveClock = p.halfMoveClock
      /\ NullEntry(p).move = MOVE_NONE
  BY DEF NullEntry, Entry
<1>3. \A b : Reserve(b) \in Nat
  BY StockFinite
<1>4. ASSUME NEW m, MoveShape(p, m), Linked(p, m, q), Spent(p, q) PROVE StepOf(p, q)
  <2>1. q.historyState = Append(p.historyState, Record(p, m)) /\ q.nextPlayer = Other(p.nextPlayer)
    BY <1>4 DEF Linked, Turn
  <2> QED BY <1>1, <1>3, <1>4, <2>1 DEF Spent, StepOf
<1>5. ASSUME LinkedNull(p, q), q.halfMoveClock = p.halfMoveClock, ~NullLast(p) PROVE StepOf(p, q)
  <2>1. q.historyState = Append(p.historyState, NullEntry(p)) /\ q.nextPlayer = Other(p.nextPlayer)
        /\ q.board = p.board
    BY <1>5 DEF LinkedNull
  <2>2. NullLast(q)
    <3>1. Last(q.historyState) = NullEntry(p) /\ Len(q.historyState) = Len(p.historyState) + 1
          /\ Len(p.historyState) \in Nat
      BY <2>1, AppendFacts DEF Good
    <3>2. q.historyState # <<>>
      BY <3>1
    <3> QED BY <1>2, <3>1, <3>2 DEF NullLast
  <2>3. Reserve(q.board) <= Reserve(p.board)
    BY <1>3, <2>1
  <2> QED BY <1>2, <1>5, <2>1, <2>2, <2>3 DEF StepOf
<1> QED BY <1>4, <1>5 DEF Joined

(* Any number of steps later. *)
Later(p, q, i, j) ==
    /\ i < j => /\ q.historyState[i + 1].zobristKey = p.zobristKey
                /\ q.historyState[i + 1].halfMoveClock = p.halfMoveClock
    /\ Reserve(q.board) <= Reserve(p.board)
    /\ q.nextPlayer = IF (j - i) % 2 = 0 THEN p.nextPlayer ELSE Other(p.nextPlayer)

\* Each entry of the history tells the key and the clock of its position.
LEMMA Laters ==
  ASSUME NEW phased, NEW c, NEW n \in Nat, GameRecord(c, n, phased), NEW i \in 0 .. n
  PROVE  \A j \in i .. n : Later(c[i], c[j], i, j)
<1> DEFINE T == {d \in Nat : i + d <= n => Later(c[i], c[i + d], i, i + d)}
<1>1. \A k \in 0 .. n : Good(c[k]) /\ Len(c[k].historyState) = k
  BY DEF GameRecord, Sane
<1>2. \A b : Reserve(b) \in Nat
  BY StockFinite
<1>3. 0 \in T
  <2>1. Later(c[i], c[i], i, i)
    BY <1>2 DEF Later
  <2> QED BY <2>1
<1>4. ASSUME NEW d \in Nat, d \in T, i + (d + 1) <= n
      PROVE  Later(c[i], c[i + (d + 1)], i, i + (d + 1))
  <2> DEFINE j == i + d
  <2>1. j \in 0 .. n /\ j + 1 \in 1 .. n /\ j + 1 = i + (d + 1) /\ j >= i
    BY <1>4
  <2>2. PICK p : p = c[i]
    OBVIOUS
  <2>3. PICK q : q = c[j]
    OBVIOUS
  <2>4. PICK r : r = c[j + 1]
    OBVIOUS
  <2>5. Later(p, q, i, j)
    BY <1>4, <2>1, <2>2, <2>3
  <2>6. StepOf(q, r)
    <3>1. (j + 1) - 1 = j
      BY <2>1
    <3>2. Joined(c[j], c[j + 1])
      BY <2>1, <3>1 DEF GameRecord
    <3> QED BY <1>1, <2>1, <2>3, <2>4, <3>2, JoinedSteps
  <2>7. Good(p) /\ Good(q) /\ Len(q.historyState) = j
    BY <1>1, <2>1, <2>2, <2>3
  <2> HIDE DEF j, T
  <2>8. PICK e : /\ r.historyState = Append(q.historyState, e)
                 /\ e.zobristKey = q.zobristKey /\ e.halfMoveClock = q.halfMoveClock
    BY <2>6 DEF StepOf
  <2>9. r.historyState[j + 1] = e /\ \A k \in 1 .. j : r.historyState[k] = q.historyState[k]
    <3>1. PICK X : q.historyState \in Seq(X)
      BY <2>7 DEF Good, IsHistory
    <3>2. q.historyState \in Seq(X \cup {e})
      BY <3>1
    <3> QED BY <2>7, <2>8, <3>2
  <2>10. /\ r.historyState[i + 1].zobristKey = p.zobristKey
         /\ r.historyState[i + 1].halfMoveClock = p.halfMoveClock
    <3>1. CASE i = j
      BY <2>2, <2>3, <2>8, <2>9, <3>1
    <3>2. CASE i < j
      <4>1. i + 1 \in 1 .. j
        BY <2>1, <3>2
      <4> QED BY <2>5, <2>9, <3>2, <4>1 DEF Later
    <3> QED BY <2>1, <3>1, <3>2
  <2>11. Reserve(r.board) <= Reserve(p.board)
    BY <1>2, <2>5, <2>6 DEF Later, StepOf
  <2>12. r.nextPlayer = IF ((j + 1) - i) % 2 = 0 THEN p.nextPlayer ELSE Other(p.nextPlayer)
    <3>1. q.nextPlayer = IF (j - i) % 2 = 0 THEN p.nextPlayer ELSE Other(p.nextPlayer)
      BY <2>5 DEF Later
    <3>2. r.nextPlayer = Other(q.nextPlayer)
      BY <2>6 DEF StepOf
    <3>3. Other(Other(p.nextPlayer)) = p.nextPlayer
      BY <2>7, OtherColor DEF Good
    <3>4. (j - i) % 2 = 0 <=> ((j + 1) - i) % 2 # 0
      BY <2>1
    <3> QED BY <3>1, <3>2, <3>3, <3>4
  <2>13. Later(p, r, i, j + 1)
    BY <2>10, <2>11, <2>12 DEF Later
  <2> QED BY <2>1, <2>2, <2>4, <2>13
<1>5. \A d \in Nat : d \in T => d + 1 \in T
  BY <1>4
<1>6. Nat \subseteq T
  <2> HIDE DEF T
  <2> QED BY <1>3, <1>5, SetInduction
<1>7. ASSUME NEW j \in i .. n PROVE Later(c[i], c[j], i, j)
  <2>1. j - i \in T
    BY <1>6
  <2>2. i + (j - i) = j
    OBVIOUS
  <2> QED BY <2>1, <2>2
<1> QED BY <1>7

\* two moves on, the clock is higher as long as nothing is lost
LEMMA ClockRises ==
  ASSUME NEW phased, NEW c, NEW n \in Nat, GameRecord(c, n, phased), NEW i \in 0 .. n,
         Reserve(c[n].board) = Reserve(c[i].board), NEW j \in i .. n, j + 2 <= n
  PROVE  c[j].halfMoveClock < c[j + 2].halfMoveClock
<1>1. /\ j \in 0 .. n /\ j + 1 \in 0 .. n /\ j + 2 \in 0 .. n /\ j + 1 \in 1 .. n /\ j + 2 \in 1 .. n
      /\ (j + 1) - 1 = j /\ (j + 2) - 1 = j + 1
  OBVIOUS
<1>2. ASSUME NEW k \in i .. n PROVE Reserve(c[k].board) = Reserve(c[i].board)
  <2>1. Reserve(c[k].board) <= Reserve(c[i].board)
    BY Laters DEF Later
  <2>2. k \in 0 .. n /\ n \in k .. n
    OBVIOUS
  <2>3. Reserve(c[n].board) <= Reserve(c[k].board)
    BY <2>2, Laters DEF Later
  <2> QED BY <2>1, <2>3, StockFinite
<1>3. Reserve(c[j + 1].board) = Reserve(c[j].board) /\ Reserve(c[j + 2].board) = Reserve(c[j + 1].board)
  <2>1. j + 1 \in i .. n /\ j + 2 \in i .. n
    OBVIOUS
  <2> QED BY <1>2, <2>1
<1>4. Joined(c[j], c[j + 1]) /\ Joined(c[j + 1], c[j + 2])
  BY <1>1 DEF GameRecord
<1>5. Good(c[j]) /\ Good(c[j + 1]) /\ c[j].halfMoveClock \in Nat /\ c[j + 1].halfMoveClock \in Nat
  BY <1>1 DEF GameRecord, Sane
<1>6. StepOf(c[j], c[j + 1]) /\ StepOf(c[j + 1], c[j + 2])
  BY <1>4, <1>5, JoinedSteps
<1> QED BY <1>3, <1>5, <1>6 DEF StepOf

-----------------------------------------------------------------------------

\* In a recorded game every repetition is within the window.
LEMMA RepetitionsFound ==
  ASSUME NEW phased, Reached(phased)
  PROVE  RepetitionExact
<1>1. PICK c, n : /\ GameRecord(c, n, phased) /\ c[n] = pos /\ n \in Nat
                  /\ Sane(pos, phased) /\ Len(pos.historyState) = n
  BY ReachedNow
<1> DEFINE h == pos.historyState
           W == RepetitionWindow(pos)
<1>2. IsHistory(h) /\ DOMAIN h = 1 .. n
  <2>1. IsHistory(h)
    BY <1>1 DEF Sane, Good
  <2> QED BY <1>1, <2>1 DEF IsHistory
<1>3. ASSUME NEW k \in 1 .. n
      PROVE  h[k].zobristKey = c[k - 1].zobristKey /\ h[k].halfMoveClock = c[k - 1].halfMoveClock
  <2>1. k - 1 \in 0 .. n /\ n \in (k - 1) .. n /\ k - 1 < n /\ (k - 1) + 1 = k
    BY <1>1
  <2>2. Later(c[k - 1], c[n], k - 1, n)
    BY <1>1, <2>1, Laters
  <2> QED BY <1>1, <2>1, <2>2 DEF Later
<1>4. ASSUME NEW k \in 1 .. n, h[k].zobristKey = pos.zobristKey
      PROVE  k \in W
  <2>1. k - 1 \in 0 .. n /\ n \in (k - 1) .. n /\ n \in 0 .. n
    BY <1>1
  <2>2. Sane(c[k - 1], phased)
    BY <1>1, <2>1 DEF GameRecord
  <2>3. c[k - 1].board = pos.board /\ c[k - 1].nextPlayer = pos.nextPlayer
    BY <1>1, <1>3, <1>4, <2>2, KeyTellsAll DEF Sane
  <2>4. Later(c[k - 1], c[n], k - 1, n)
    BY <1>1, <2>1, Laters
  <2>5. (n - (k - 1)) % 2 = 0
    <3>1. pos.nextPlayer # Other(pos.nextPlayer)
      BY <1>1, OtherColor DEF Sane, Good
    <3> QED BY <1>1, <2>3, <2>4, <3>1 DEF Later
  <2>6. k \in 1 .. n - 1 /\ (n - 1 - k) % 2 = 0
    BY <1>1, <2>5
  <2>7. Reserve(c[n].board) = Reserve(c[k - 1].board)
    BY <1>1, <2>3
  <2>8. ASSUME NEW j \in k .. n - 1
        PROVE  h[j].halfMoveClock < IF j = n - 1 THEN pos.halfMoveClock ELSE h[j + 2].halfMoveClock
    <3>1. /\ j \in 1 .. n /\ j - 1 \in (k - 1) .. n /\ (j - 1) + 2 <= n
          /\ (j - 1) + 2 = j + 1 /\ (j + 2) - 1 = j + 1
      BY <1>1
    <3>2. c[j - 1].halfMoveClock < c[j + 1].halfMoveClock
      BY <1>1, <2>1, <2>7, <3>1, ClockRises
    <3>3. h[j].halfMoveClock = c[j - 1].halfMoveClock
      BY <1>3, <3>1
    <3>4. CASE j = n - 1
      <4>1. j + 1 = n
        BY <1>1, <3>4
      <4> QED BY <1>1, <3>2, <3>3, <3>4, <4>1
    <3>5. CASE j # n - 1
      <4>1. j + 2 \in 1 .. n
        BY <1>1, <3>5
      <4>2. h[j + 2].halfMoveClock = c[j + 1].halfMoveClock
        BY <1>3, <3>1, <4>1
      <4> QED BY <3>2, <3>3, <3>5, <4>2
    <3> QED BY <3>4, <3>5
  <2> HIDE DEF h
  <2> QED BY <1>1, <2>6, <2>8 DEF RepetitionWindow, h
<1>5. \A k \in W : k \in 1 .. n
  BY <1>1 DEF RepetitionWindow
<1>6. {k \in W : h[k].zobristKey = pos.zobristKey} = {k \in 1 .. n : h[k].zobristKey = pos.zobristKey}
  <2> HIDE DEF W, h
  <2> QED BY <1>4, <1>5
<1> QED BY <1>2, <1>6 DEF RepetitionExact, countRepetitions

\* countRepetitions finds every earlier occurrence of the position in the game: a move
\* that no reset of the half move clock marks loses nothing of the board's reserve, and
\* what is lost never comes back, so neither does the position.
THEOREM RepetitionsAlways == Spec => []RepetitionExact
<1>1. Reached(FALSE) => RepetitionExact
  BY RepetitionsFound
<1> QED BY <1>1, GamesAreRecorded, PTL
=============================================================================
