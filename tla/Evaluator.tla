------------------------------- MODULE Evaluator -------------------------------
(***************************************************************************)
(* engine/Evaluator with its cache engine/PawnTT, in the configuration of  *)
(* EvalConfig.h, but without values of squares (USE_POSITIONAL); pieces    *)
(* and kings are not evaluated there (USE_PIECE_EVAL, USE_KING_EVAL).      *)
(* A score is a pair of a middle game and an end game value.               *)
(***************************************************************************)
EXTENDS Position

CONSTANT Slots      \* maxNumberOfEntries of the pawn cache

ASSUME SlotsAssumption == Slots \in Nat \ {0}

VALUE_NONE == -15001
VALUE_DRAW == 0
TEMPO == 34
LAZY_THRESHOLD == 700

score(mid, end) == [midgame |-> mid, endgame |-> end]
Plus(s, t) == score(s.midgame + t.midgame, s.endgame + t.endgame)
Negative(s) == score(-s.midgame, -s.endgame)

-----------------------------------------------------------------------------
(* The cache. getHash keeps the low bits of a key; for a key that is a set *)
(* of features any function does that maps the key 0 to entry 0.           *)

Key0 == {}
getHash(key) == Cardinality(key) % Slots
FreeEntry == [key |-> Key0, midvalue |-> VALUE_NONE, endvalue |-> VALUE_NONE]

clearPawnTT(cache) ==
    [cache EXCEPT !.entries = [i \in 0 .. Slots - 1 |-> FreeEntry],
                  !.numberOfEntries = 0, !.numberOfUpdates = 0]

\* resize clears a new array; the other counters are those of the constructor
NewPawnTT ==
    clearPawnTT([entries |-> <<>>, numberOfPuts |-> 0, numberOfEntries |-> 0,
                 numberOfUpdates |-> 0, numberOfCollisions |-> 0])

putPawnTT(cache, key, s) ==
    LET old == cache.entries[getHash(key)].key
        One(test) == IF test THEN 1 ELSE 0
    IN [cache EXCEPT
          !.entries[getHash(key)] = [key |-> key, midvalue |-> s.midgame, endvalue |-> s.endgame],
          !.numberOfPuts = @ + 1,
          !.numberOfEntries = @ + One(old = Key0),
          !.numberOfUpdates = @ + One(old /= Key0 /\ old = key),
          !.numberOfCollisions = @ + One(old /= Key0 /\ old /= key)]

-----------------------------------------------------------------------------
(* The pawns of both colours *)

\* the pawns with a property, with the weights of the property
OneColor(my, opp, c) ==
    LET forward(sq) == rays[pawnPush(c)][sq]
        neighbours(sq) == my \cap neighbourFilesMask[sq]
        isolated == {sq \in my : neighbours(sq) = {}}
        doubled == UNION {my \cap forward(sq) : sq \in my}
        passed == {sq \in my : /\ my \cap forward(sq) = {}
                               /\ opp \cap passedPawnMask[c][sq] = {}}
        blocked == {sq \in my : (my \cup opp) \cap forward(sq) /= {}}
        phalanx == {sq \in my : neighbours(sq) \cap rankBb[rankOf(sq)] /= {}}
        supported == UNION {neighbours(sq) \cap rankBb[rankOf(sq + pawnPush(c))] : sq \in my}
        Weighted(squares, mid, end) == score(mid * Cardinality(squares), end * Cardinality(squares))
    IN FoldLeft(Plus, score(0, 0),
                <<Weighted(isolated, -10, -20), Weighted(doubled, -10, -30),
                  Weighted(passed, 20, 40), Weighted(blocked, -2, -20),
                  Weighted(phalanx, 4, 4), Weighted(supported, 10, 15)>>)

PawnScore(p) ==
    LET white == p.piecesBb[WHITE][PAWN]
        black == p.piecesBb[BLACK][PAWN]
    IN Plus(OneColor(white, black, WHITE), Negative(OneColor(black, white, BLACK)))

\* pawnEval: the score it adds, and the cache it leaves
\* Fault: any entry of the slot will do
CacheHitOfSlot(p, cache) == cache.entries[getHash(p.pawnKey)].key /= Key0
CacheHit(p, cache) == cache.entries[getHash(p.pawnKey)].key = p.pawnKey
pawnEval(p, cache) ==
    LET entry == cache.entries[getHash(p.pawnKey)]
    IN IF CacheHit(p, cache) THEN score(entry.midvalue, entry.endvalue) ELSE PawnScore(p)
CacheAfter(p, cache) ==
    IF CacheHit(p, cache) THEN cache ELSE putPawnTT(cache, p.pawnKey, PawnScore(p))

-----------------------------------------------------------------------------
Material(p) == p.material[WHITE] - p.material[BLACK]

\* white is so far ahead that nothing else is looked at; the game phase counts
\* down from 1 to 0 in steps of 1 / GAME_PHASE_MAX
LazyExit(p) == Material(p) * GAME_PHASE_MAX > LAZY_THRESHOLD * (GAME_PHASE_MAX + p.gamePhase)
LooksAtPawns(p) == ~checkInsufficientMaterial(p) /\ ~LazyExit(p)

\* the value, before it is divided by GAME_PHASE_MAX and rounded
valueFromScore(s, phase) == s.midgame * phase + s.endgame * (GAME_PHASE_MAX - phase)
finalEval(p, value) == IF p.nextPlayer = WHITE THEN value ELSE -value

evaluate(p, cache) ==
    LET material == score(Material(p), Material(p))
        full == Plus(Plus(material, pawnEval(p, cache)), score(TEMPO, 0))
    IN IF checkInsufficientMaterial(p) THEN VALUE_DRAW
       ELSE finalEval(p, valueFromScore(IF LazyExit(p) THEN material ELSE full, p.gamePhase))
================================================================================
