----------------------------- MODULE MoveGenerator -----------------------------
(***************************************************************************)
(* chesscore/MoveGenerator: the moves of a position, all at once or one by *)
(* one in stages.                                                          *)
(*                                                                         *)
(* Sort values are left out, with what they depend on (killers, history):  *)
(* a list of moves is a set, and in a stage the PV move comes first, as    *)
(* its sort value is the highest, or last, as a history count may exceed   *)
(* it. PvFirst says which.                                                 *)
(***************************************************************************)
EXTENDS Position

GenNonQuiet == "GenNonQuiet"
GenQuiet == "GenQuiet"
GenAll == {GenNonQuiet, GenQuiet}

Theirs(p) == p.occupiedBb[Other(p.nextPlayer)]
isCapturingMove(p, move) == move.to \in Theirs(p) \/ move.type = ENPASSANT

-----------------------------------------------------------------------------
(* The moves of each kind. targets is the set of squares a move that is no *)
(* king move may go to: every square, unless only evasions are generated.  *)

Promotions(from, to, pieceTypes) == {createPromotion(from, to, pt) : pt \in pieceTypes}

PawnCaptures(p, targets) ==
    LET us == p.nextPlayer
        myPawns == p.piecesBb[us][PAWN]
        back == pawnPush(Other(us))
        OneSide(dir) ==
            LET captures == shiftBb(pawnPush(us) + dir, myPawns) \cap Theirs(p) \cap targets
                promCaptures == captures \cap rankBb[promotionRank(us)]
            IN (UNION {Promotions(t + back - dir, t, KNIGHT .. QUEEN) : t \in promCaptures})
               \cup {createMove(t + back - dir, t, NORMAL) : t \in captures \ promCaptures}
        EnPassant(dir) ==
            {createMove(s, s + pawnPush(us) - dir, ENPASSANT) :
                s \in shiftBb(back + dir, {p.enPassantSquare} \ {SQ_NONE}) \cap myPawns}
        promMoves == ((shiftBb(pawnPush(us), myPawns) \ getOccupiedBb(p))
                        \cap rankBb[promotionRank(us)]) \cap targets
    IN (UNION {OneSide(dir) \cup EnPassant(dir) : dir \in {WEST, EAST}})
       \cup (UNION {Promotions(t + back, t, {QUEEN, KNIGHT}) : t \in promMoves})

PawnPushes(p, targets) ==
    LET us == p.nextPlayer
        back == pawnPush(Other(us))
        occupied == getOccupiedBb(p)
        single == shiftBb(pawnPush(us), p.piecesBb[us][PAWN]) \ occupied
        double == (shiftBb(pawnPush(us), single \cap rankBb[pawnDoubleRank(us)]) \ occupied)
                    \cap targets
        promMoves == (single \cap targets) \cap rankBb[promotionRank(us)]
    IN (UNION {Promotions(t + back, t, {ROOK, BISHOP}) : t \in promMoves})
       \cup {createMove(t + 2 * back, t, NORMAL) : t \in double}
       \cup {createMove(t + back, t, NORMAL) : t \in (single \cap targets) \ promMoves}

generatePawnMoves(p, mode, targets) ==
    IF mode = GenNonQuiet THEN PawnCaptures(p, targets) ELSE PawnPushes(p, targets)

\* the squares a piece may go to in a mode
Destinations(p, mode) == IF mode = GenNonQuiet THEN Theirs(p) ELSE Square \ getOccupiedBb(p)

generateMoves(p, mode, targets) ==
    LET us == p.nextPlayer
        squares == Destinations(p, mode) \cap targets
        OfPiece(pt, from) ==
            {createMove(from, t, NORMAL) :
                t \in getAttacksBb(pt, from, getOccupiedBb(p)) \cap squares}
    IN UNION {UNION {OfPiece(pt, from) : from \in p.piecesBb[us][pt]} : pt \in KNIGHT .. QUEEN}

\* an evading king goes only where it is not attacked as things stand
generateKingMoves(p, mode, evasion) ==
    LET us == p.nextPlayer
        from == CHOOSE s \in p.piecesBb[us][KING] : TRUE
        squares == kingAttacks[from] \cap Destinations(p, mode)
    IN {createMove(from, t, NORMAL) :
            t \in {s \in squares : evasion => attacksTo(p, s, Other(us)) = {}}}

generateCastling(p) ==
    LET us == p.nextPlayer
        king == IF us = WHITE THEN E1 ELSE E8
        Way(corner) == intermediateBb[king][corner] \cap getOccupiedBb(p)
    IN {createMove(king, king + 2 * EAST, CASTLING) :
            c \in {d \in {us} : OO(d) \in p.castlingRights /\ Way(king + 3 * EAST) = {}}}
       \cup
       {createMove(king, king + 2 * WEST, CASTLING) :
            c \in {d \in {us} : OOO(d) \in p.castlingRights /\ Way(king + 4 * WEST) = {}}}

\* Fault: a check is never blocked
getEvasionTargetsCaptureOnly(p) == attacksTo(p, p.kingSquare[p.nextPlayer], Other(p.nextPlayer))
\* the squares that capture or block the only attacker of the king
getEvasionTargets(p) ==
    LET us == p.nextPlayer
        king == p.kingSquare[us]
        attackers == attacksTo(p, king, Other(us))
    IN IF Cardinality(attackers) > 1 THEN {}
       ELSE attackers \cup UNION {intermediateBb[a][king] :
                                    a \in {s \in attackers : typeOf(p.board[s]) > KNIGHT}}

Targets(p, evasion) == IF evasion THEN getEvasionTargets(p) ELSE Square

generatePseudoLegalMoves(p, genMode, evasion) ==
    LET OfMode(mode, targets) ==
            generatePawnMoves(p, mode, targets) \cup generateMoves(p, mode, targets)
              \cup generateKingMoves(p, mode, evasion)
    IN (UNION {OfMode(mode, Targets(p, evasion)) : mode \in genMode})
       \cup (IF GenQuiet \in genMode /\ ~evasion THEN generateCastling(p) ELSE {})

generateLegalMoves(p, genMode) ==
    {m \in generatePseudoLegalMoves(p, genMode, hasCheck(p)) : isLegalMove(p, m)}

\* some move of each kind is tried, promotions as if they were plain pawn moves
hasLegalMove(p) ==
    LET us == p.nextPlayer
        ourPawns == p.piecesBb[us][PAWN]
        occupied == getOccupiedBb(p)
        single == shiftBb(pawnPush(us), ourPawns) \ occupied
        double == shiftBb(pawnPush(us), single \cap rankBb[pawnDoubleRank(us)]) \ occupied
        Normal(from, to) == createMove(from, to, NORMAL)
        candidates ==
            {Normal(p.kingSquare[us], t) : t \in kingAttacks[p.kingSquare[us]] \ p.occupiedBb[us]}
            \cup {Normal(t - 2 * pawnPush(us), t) : t \in double}
            \cup {Normal(t - pawnPush(us), t) : t \in single}
            \cup (UNION {{Normal(t - pawnPush(us) - dir, t) :
                            t \in shiftBb(pawnPush(us) + dir, ourPawns) \cap Theirs(p)} :
                            dir \in {WEST, EAST}})
            \cup (UNION {{Normal(from, t) :
                            t \in getAttacksBb(typeOf(p.board[from]), from, occupied) \ p.occupiedBb[us]} :
                            from \in UNION {p.piecesBb[us][pt] : pt \in KNIGHT .. QUEEN}})
            \cup UNION {{createMove(s, s + pawnPush(us) - dir, ENPASSANT) :
                           s \in shiftBb(pawnPush(Other(us)) + dir, {p.enPassantSquare} \ {SQ_NONE})
                                   \cap ourPawns} : dir \in {WEST, EAST}}
    IN \E m \in candidates : isLegalMove(p, m)

-----------------------------------------------------------------------------
(* On demand generation. A generator is a record; stage counts the stages  *)
(* OD_NEW, PV, OD1, ..., OD8, OD_END, and moves is what of the list has    *)
(* not been taken yet.                                                     *)

OD_NEW == 0
PV == 1
OD1 == 2
OD2 == 3
OD3 == 4
OD4 == 5
OD5 == 6
OD6 == 7
OD7 == 8
OD8 == 9
OD_END == 10

resetOnDemand ==
    [moves |-> <<>>, stage |-> OD_NEW, pvMove |-> MOVE_NONE, pvMovePushed |-> FALSE,
     currentODZobrist |-> {}, evasionTargets |-> {}]

setPV(g, move) == [g EXCEPT !.pvMove = move]

\* the PV move is returned first if it is one of the moves asked for
PushesPv(p, g, genMode) ==
    /\ g.pvMove /= MOVE_NONE
    /\ (IF isCapturingMove(p, g.pvMove) THEN GenNonQuiet ELSE GenQuiet) \in genMode

Stage(p, g, genMode, evasion, stage) ==
    LET quiet == stage > OD4
        mode == IF quiet THEN GenQuiet ELSE GenNonQuiet
        targets == IF evasion THEN g.evasionTargets ELSE Square
    IN CASE stage = PV -> IF PushesPv(p, g, genMode) THEN {g.pvMove} ELSE {}
         [] stage /= PV /\ mode \notin genMode -> {}
         [] stage \in {OD1, OD5} /\ mode \in genMode -> generatePawnMoves(p, mode, targets)
         [] stage \in {OD2, OD7} /\ mode \in genMode -> generateMoves(p, mode, targets)
         [] stage \in {OD3, OD8} /\ mode \in genMode -> generateKingMoves(p, mode, evasion)
         [] stage = OD6 /\ mode \in genMode -> IF evasion THEN {} ELSE generateCastling(p)
         [] OTHER -> {}

Listed(moves, pv, pvFirst) ==
    LET others == FoldSet(LAMBDA m, list : Append(list, m), <<>>, moves \ {pv})
    IN IF pv \notin moves THEN others
       ELSE IF pvFirst THEN <<pv>> \o others ELSE Append(others, pv)

\* Fault: that the PV move was handed out is forgotten
FillForgettingPv(g, genMode, pvFirst, stages) ==
    LET filled == {s \in DOMAIN stages : s >= g.stage /\ stages[s] /= {}}
    IN IF filled = {}
       THEN [g EXCEPT !.stage = OD_END]
       ELSE [g EXCEPT !.moves = Listed(stages[Min(filled)], g.pvMove, pvFirst),
                      !.stage = Min(filled) + 1]
\* on to the next stage that has moves
Fill(g, genMode, pvFirst, stages) ==
    LET filled == {s \in DOMAIN stages : s >= g.stage /\ stages[s] /= {}}
        next == Min(filled)
    IN IF filled = {}
       THEN [g EXCEPT !.stage = OD_END]
       ELSE [g EXCEPT !.moves = Listed(stages[next], g.pvMove, pvFirst),
                      !.pvMovePushed = @ \/ next = PV,
                      !.stage = IF next = PV /\ GenNonQuiet \notin genMode THEN OD4 ELSE next + 1]
fillOnDemandMoveList(p, g, genMode, evasion, pvFirst) ==
    IF g.moves /= <<>> THEN g
    ELSE Fill(g, genMode, pvFirst, [s \in PV .. OD8 |-> Stage(p, g, genMode, evasion, s)])

\* the generator starts again when the position has changed
Renewed(p, g, evasion) ==
    LET fresh == IF p.zobristKey = g.currentODZobrist THEN g
                 ELSE [resetOnDemand EXCEPT !.pvMove = g.pvMove,
                                            !.currentODZobrist = p.zobristKey]
    IN IF evasion /\ fresh.evasionTargets = {}
       THEN [fresh EXCEPT !.evasionTargets = getEvasionTargets(p)]
       ELSE fresh

\* the PV move is not returned a second time in its stage
WithoutPv(g) ==
    IF /\ g.moves /= <<>>
       /\ g.stage /= OD1
       /\ g.pvMovePushed
       /\ Head(g.moves) = g.pvMove
    THEN [g EXCEPT !.moves = Tail(@), !.pvMovePushed = FALSE]
    ELSE g

\* the generator after a call, and the move returned
Returned(g) ==
    IF g.moves /= <<>>
    THEN [generator |-> [g EXCEPT !.moves = Tail(@)], move |-> Head(g.moves)]
    ELSE [generator |-> [g EXCEPT !.pvMovePushed = FALSE], move |-> MOVE_NONE]

getNextPseudoLegalMove(p, generator, genMode, evasion, pvFirst) ==
    LET Filled(g) == fillOnDemandMoveList(p, g, genMode, evasion, pvFirst)
    IN Returned(Filled(WithoutPv(Filled(Renewed(p, generator, evasion)))))

\* the moves returned by one call after the other, up to MOVE_NONE
OnDemand(p, g, genMode, evasion, pvFirst) ==
    LET calls == Cardinality(generatePseudoLegalMoves(p, genMode, evasion)) + 3
        Collect(acc, r) ==
            [g |-> r.generator, done |-> r.move = MOVE_NONE,
             out |-> IF r.move = MOVE_NONE THEN acc.out ELSE Append(acc.out, r.move)]
        Call(acc, i) ==
            IF acc.done THEN acc
            ELSE Collect(acc, getNextPseudoLegalMove(p, acc.g, genMode, evasion, pvFirst))
    IN FoldLeft(Call, [g |-> g, done |-> FALSE, out |-> <<>>], [i \in 1 .. calls |-> i]).out

\* uci: the two squares, and the promotion piece or 0
getMoveFromUci(p, uci) ==
    LET text(m) == <<m.from, m.to, IF m.type = PROMOTION THEN m.prom ELSE 0>>  \* str(Move)
        FirstOf(moves) == IF moves = <<>> THEN MOVE_NONE ELSE Head(moves)
    IN FirstOf(SelectSeq(OnDemand(p, resetOnDemand, GenAll, hasCheck(p), TRUE),
                         LAMBDA m : text(m) = uci /\ isLegalMove(p, m)))
================================================================================
