------------------------------ MODULE Chessboard ------------------------------
(***************************************************************************)
(* The types of FrankyCPP (types/): colours, pieces, squares, directions,  *)
(* castling rights, moves, and the tables of types/bitboard.cpp.           *)
(*                                                                         *)
(* A bitboard is the set of its squares, so its Boolean operators are the  *)
(* operators of sets. A table that the program fills in at startup is a    *)
(* function with the same name.                                            *)
(***************************************************************************)
EXTENDS Integers, FiniteSets

WHITE == 0
BLACK == 1
Color == {WHITE, BLACK}
Other(c) == 1 - c

KING == 1
PAWN == 2
KNIGHT == 3
BISHOP == 4
ROOK == 5
QUEEN == 6
PieceType == KING .. QUEEN
phaseValue == <<0, 0, 1, 1, 2, 4>>
pieceTypeValue == <<2000, 100, 320, 330, 500, 900>>
GAME_PHASE_MAX == 24

PIECE_NONE == 0
makePiece(c, pt) == 8 * c + pt
colorOf(pc) == pc \div 8
typeOf(pc) == pc % 8
Piece == {makePiece(c, pt) : c \in Color, pt \in PieceType}

Square == 0 .. 63
SQ_NONE == 64
fileOf(s) == s % 8
rankOf(s) == s \div 8
squareOf(f, r) == 8 * r + f
Larger(m, n) == IF m > n THEN m ELSE n
Gap(m, n) == Larger(m - n, n - m)
distance(s, t) == Larger(Gap(fileOf(s), fileOf(t)), Gap(rankOf(s), rankOf(t)))

NORTH == 8
EAST == 1
SOUTH == -NORTH
WEST == -EAST
pawnPush(c) == IF c = WHITE THEN NORTH ELSE SOUTH
promotionRank(c) == IF c = WHITE THEN 7 ELSE 0
\* the rank a pawn stands on after a single step from its first square
pawnDoubleRank(c) == IF c = WHITE THEN 2 ELSE 5

A1 == 0
C1 == 2
E1 == 4
G1 == 6
H1 == 7
A8 == 56
C8 == 58
E8 == 60
G8 == 62
H8 == 63

(* The castling rights, a set of the four rights. *)
OO(c) == IF c = WHITE THEN "WHITE_OO" ELSE "BLACK_OO"
OOO(c) == IF c = WHITE THEN "WHITE_OOO" ELSE "BLACK_OOO"
Castling(c) == {OO(c), OOO(c)}
AnyCastling == Castling(WHITE) \cup Castling(BLACK)
\* Castling::castlingRights: the rights that a move from or to s ends
rightsOf ==
    [s \in Square |->
        {OO(c) : c \in {d \in Color : s \in (IF d = WHITE THEN {E1, H1} ELSE {E8, H8})}}
        \cup
        {OOO(c) : c \in {d \in Color : s \in (IF d = WHITE THEN {E1, A1} ELSE {E8, A8})}}]

(***************************************************************************)
(* A move, without its sort value. The promotion type of a move that is no *)
(* promotion is KNIGHT, the value zero of its two bits.                    *)
(***************************************************************************)
NORMAL == "normal"
PROMOTION == "promotion"
ENPASSANT == "enpassant"
CASTLING == "castling"
MoveType == {NORMAL, PROMOTION, ENPASSANT, CASTLING}
createMove(from, to, type) == [from |-> from, to |-> to, type |-> type, prom |-> KNIGHT]
createPromotion(from, to, pt) == [createMove(from, to, PROMOTION) EXCEPT !.prom = pt]
MOVE_NONE == createMove(0, 0, NORMAL)
Move == [from : Square, to : Square, type : MoveType, prom : KNIGHT .. QUEEN]

-----------------------------------------------------------------------------
(* The tables *)

File(f) == {s \in Square : fileOf(s) = f}
Rank(r) == {s \in Square : rankOf(s) = r}
fileBb == [f \in 0 .. 7 |-> File(f)]
rankBb == [r \in 0 .. 7 |-> Rank(r)]

\* shiftBb: the squares that would come out on the other edge are masked
shiftBb(d, squares) ==
    {t \in {s + d : s \in squares} \cap Square :
        /\ d \in {EAST, NORTH + EAST, SOUTH + EAST} => t \notin fileBb[0]
        /\ d \in {WEST, NORTH + WEST, SOUTH + WEST} => t \notin fileBb[7]}

rookDirections == {NORTH, EAST, SOUTH, WEST}
bishopDirections == {NORTH + EAST, SOUTH + EAST, SOUTH + WEST, NORTH + WEST}

\* how far a slider gets from s in direction d on an empty board
Reach ==
    [d \in rookDirections \cup bishopDirections |->
        [s \in Square |->
            Cardinality({n \in 1 .. 7 : \A i \in 1 .. n :
                            /\ s + i * d \in Square
                            /\ distance(s + i * d, s + (i - 1) * d) = 1})]]

\* one turn of the outer loop of sliding_attack
Ray(d, s, occupied) ==
    LET blocks == {n \in 1 .. Reach[d][s] : s + n * d \in occupied}
        last == IF blocks = {} THEN Reach[d][s]
                ELSE CHOOSE n \in blocks : \A m \in blocks : n <= m
    IN {s + n * d : n \in 1 .. last}
sliding_attack(directions, s, occupied) == UNION {Ray(d, s, occupied) : d \in directions}

\* init_magics: the edges, but for those s is on, do not count as blockers
Edges ==
    [s \in Square |->
        ((rankBb[0] \cup rankBb[7]) \ rankBb[rankOf(s)])
        \cup ((fileBb[0] \cup fileBb[7]) \ fileBb[fileOf(s)])]
rookMask == [s \in Square |-> sliding_attack(rookDirections, s, {}) \ Edges[s]]
bishopMask == [s \in Square |-> sliding_attack(bishopDirections, s, {}) \ Edges[s]]

\* Magic::index keeps of the occupied squares those of the mask
rookAttacks(s, occupied) == sliding_attack(rookDirections, s, occupied \cap rookMask[s])
bishopAttacks(s, occupied) == sliding_attack(bishopDirections, s, occupied \cap bishopMask[s])

\* nonSlidingAttacksPreCompute: the steps of white, negated for black
Jumps(s, steps) == {t \in {s + d : d \in steps} \cap Square : distance(s, t) < 3}
Negated(steps) == {-d : d \in steps}
pawnSteps == {NORTH + WEST, NORTH + EAST}
kingSteps == {NORTH + WEST, NORTH, NORTH + EAST, EAST}
knightSteps == {WEST + NORTH + WEST, EAST + NORTH + EAST,
                NORTH + NORTH + WEST, NORTH + NORTH + EAST}
pawnAttacks ==
    [c \in Color |->
        [s \in Square |-> Jumps(s, IF c = WHITE THEN pawnSteps ELSE Negated(pawnSteps))]]
kingAttacks == [s \in Square |-> Jumps(s, kingSteps \cup Negated(kingSteps))]
knightAttacks == [s \in Square |-> Jumps(s, knightSteps \cup Negated(knightSteps))]

getAttacksBb(pt, s, occupied) ==
    CASE pt = KING -> kingAttacks[s]
      [] pt = KNIGHT -> knightAttacks[s]
      [] pt = BISHOP -> bishopAttacks(s, occupied)
      [] pt = ROOK -> rookAttacks(s, occupied)
      [] pt = QUEEN -> bishopAttacks(s, occupied) \cup rookAttacks(s, occupied)
      [] OTHER -> {}

\* neighbourMasksPreCompute
neighbourFilesMask ==
    [s \in Square |-> {t \in Square : Gap(fileOf(s), fileOf(t)) = 1}]

\* raysPreCompute, from the attacks on an empty board
rays ==
    [d \in rookDirections \cup bishopDirections |-> [s \in Square |-> Ray(d, s, {})]]

\* intermediatePreCompute: nothing for squares that no ray joins
intermediateBb ==
    [from \in Square |-> [to \in Square |->
        UNION {rays[d][from] \ (rays[d][to] \cup {to}) :
                d \in {e \in DOMAIN rays : to \in rays[e][from]}}]]

\* maskPassedPawnsPreCompute: the own file and its neighbours ahead of the pawn
passedPawnMask ==
    [c \in Color |-> [s \in Square |->
        UNION {rays[pawnPush(c)][t] : t \in {s} \cup (shiftBb(EAST, {s}) \cup shiftBb(WEST, {s}))}]]
===============================================================================
