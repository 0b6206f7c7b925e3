-------------------------- MODULE SearchNodeProofs --------------------------
(***************************************************************************)
(* Alpha-beta is minimax: whatever search() and qsearch() return, for      *)
(* every game, depth and window, is the value of the node by its           *)
(* definition or a bound of it, with null windows, mate distance pruning,  *)
(* killers, internal iterative deepening and a table that orders moves,    *)
(* and with a stop between any two reads of the flag.                      *)
(*                                                                         *)
(* The first part unfolds the reference values, the second one is about    *)
(* the stack, the third one is the inductive invariant, and the last one   *)
(* is about the values the table keeps.                                    *)
(***************************************************************************)
EXTENDS SearchNode, SequenceTheorems, WellFoundedInduction, TLAPS

(***************************************************************************)
(* The settings that search every line to its depth: nothing that guesses, *)
(* the cut at beta (without it, windows are turned round), and no answers  *)
(* from the table, which may have looked deeper.                           *)
(***************************************************************************)
Thorough ==
  Exact /\ On("ALPHABETA") /\ ~(On("TT") /\ On("TT_VALUE"))

(* What the node of a call is worth, and a move in it. *)
Worth(c) == MinimaxValue(c.node, c.depth, c.ply)
DepthBelow(c) == IF c.fn = "search" THEN c.depth - 1 ELSE 0
MoveWorth(c, m) ==
  IF Drawn(Child(c.node, m)) THEN VALUE_DRAW
  ELSE -MinimaxValue(Child(c.node, m), DepthBelow(c), c.ply + 1)

(* The moves that count, and the window after mate distance pruning. *)
StandsPat(c) == c.fn = "qsearch" /\ ~HasCheck(c.node)
Candidates(c) == IF c.fn = "search" THEN Legal(c.node) ELSE Resolving(c.node)
LowEnd(c) == IF On("MDP") THEN Larger(c.alpha, -VALUE_CHECKMATE + c.ply) ELSE c.alpha
HighEnd(c) == IF On("MDP") THEN Smaller(c.beta, VALUE_CHECKMATE - c.ply) ELSE c.beta

-----------------------------------------------------------------------------
(***************************************************************************)
(* The invariant.                                                          *)
(***************************************************************************)
Looping == {"moves", "searched", "probed", "end"}
Waiting == {"searched", "probed", "iidSearched"}
Labels == {"enter", "prune", "iid"} \cup Looping \cup Waiting

IsCall(c) ==
  /\ c.fn \in {"search", "qsearch"} /\ c.node \in Nodes
  /\ c.depth \in Depths /\ c.ply \in Plies /\ (c.fn = "qsearch" => c.depth = 0)
  /\ c.alpha \in Values /\ c.beta \in Values /\ c.alpha < c.beta

Fields ==
  {"call", "pc", "alpha", "beta", "bestNodeValue", "bestNodeMove", "ttMove", "ttType",
   "staticEval", "matethreat", "move", "newDepth", "lmrDepth", "movesSearched"}
IsFrame(f) == DOMAIN f = Fields

(* Past the entry the node has moves to look at and a window. *)
EnteredOK(f) ==
  /\ f.call.ply < MAX_DEPTH
  /\ f.call.fn = "search" => f.call.depth > 0
  /\ f.call.fn = "qsearch" => On("QUIESCENCE")
  /\ f.beta = HighEnd(f.call) /\ f.alpha \in Values /\ f.beta \in Values
  /\ LowEnd(f.call) <= f.alpha /\ f.alpha < f.beta

FreshOK(f) ==
  /\ f.alpha = LowEnd(f.call) /\ f.bestNodeValue = VALUE_NONE
  /\ f.movesSearched = 0 /\ f.call.fn = "search"

(* The move under way and the moves the generator has left are open. *)
Pending(f) == IF f.pc \in {"searched", "probed"} THEN {f.move} ELSE {}
Done(f, left) == Candidates(f.call) \ (left \cup Pending(f))

BestOK(f, left) ==
  /\ f.movesSearched \in Nat
  /\ f.bestNodeValue \in Values \cup {VALUE_NONE}
  /\ f.movesSearched > 0 => f.bestNodeValue # VALUE_NONE /\ Candidates(f.call) # {}
  /\ f.movesSearched = 0 /\ ~StandsPat(f.call) => f.bestNodeValue = VALUE_NONE
  /\ StandsPat(f.call) => f.bestNodeValue >= Eval(f.call.node) /\ left \subseteq NonQuiet(f.call.node)
  /\ f.alpha = LowEnd(f.call) \/ f.alpha <= f.bestNodeValue
  /\ f.bestNodeValue > LowEnd(f.call) => f.bestNodeValue <= Worth(f.call)
  /\ f.bestNodeValue < f.beta => \A m \in Done(f, left) : MoveWorth(f.call, m) <= f.bestNodeValue

MoveOK(f) ==
  /\ f.move \in Candidates(f.call)
  /\ f.call.fn = "search" => f.newDepth = DepthBelow(f.call)
  /\ f.pc = "probed" => /\ f.call.fn = "search" /\ f.lmrDepth = f.newDepth
                        /\ ~Drawn(Child(f.call.node, f.move))

FrameOK(f, left) ==
  /\ IsCall(f.call) /\ f.pc \in Labels
  /\ f.pc = "enter" => f = Frame(f.call)
  /\ f.pc # "enter" => EnteredOK(f)
  /\ f.pc \in {"prune", "iid", "iidSearched"} => FreshOK(f)
  /\ f.pc \in Looping => BestOK(f, left)
  /\ f.pc \in {"searched", "probed"} => MoveOK(f)
  /\ f.pc = "end" => left = {} \/ f.bestNodeValue >= f.beta

(* What a waiting frame has asked the one above it. *)
HighOf(f) == IF f.pc = "probed" THEN f.alpha + 1 ELSE f.beta
Asked(f, c) ==
  f.pc \in {"searched", "probed"} =>
    Worth(c) = -MoveWorth(f.call, f.move) /\ c.alpha = -HighOf(f) /\ c.beta = -f.alpha

Below(f, g) ==
  /\ f.pc \in Waiting /\ f.call.ply <= g.call.ply
  /\ f.pc # "iidSearched" => f.call.ply < g.call.ply

(* A sequence, of whatever values. *)
IsStack(s) == s \in Seq({s[i] : i \in DOMAIN s})

(* Every ply has a move generator. *)
Parts == {"left", "pvMove", "killers"}
IsGenerators(g) == DOMAIN g = Plies /\ \A p \in Plies : DOMAIN g[p] = Parts

ShapeOK == IsStack(stack) /\ IsGenerators(mg)

FramesOK ==
  \A i \in 1 .. Len(stack) : \A f \in {stack[i]} : \A left \in {mg[f.call.ply].left} :
    IsFrame(f) /\ FrameOK(f, left)

NestedOK ==
  /\ \A j \in 1 .. Len(stack) : \A i \in 1 .. j - 1 : Below(stack[i], stack[j])
  /\ \A i \in 1 .. Len(stack) - 1 : \A f \in {stack[i]}, c \in {stack[i + 1].call} : Asked(f, c)

(* The value of the move under way, when its search has come back. *)
ValueOK(f, v) ==
  f.pc \in {"searched", "probed"} =>
    v \in Values /\ Answers(v, MoveWorth(f.call, f.move), f.alpha, HighOf(f))

AnsweredOK ==
  ~stopSearchFlag /\ stack # <<>> => \A f \in {Top}, v \in {-result.value} : ValueOK(f, v)

ReturnedOK(c, v) ==
  /\ v \in Values \cup {VALUE_NONE}
  /\ v # VALUE_NONE /\ c.node \in Nodes =>
       c.depth \in Depths /\ Answers(v, Worth(c), c.alpha, c.beta)

ResultOK == \A c \in {result.call}, v \in {result.value} : ReturnedOK(c, v)

SInv ==
  /\ game \in Games
  /\ Thorough => ShapeOK /\ FramesOK /\ NestedOK /\ AnsweredOK /\ ResultOK

-----------------------------------------------------------------------------
(***************************************************************************)
(* Induction and greatest elements.                                        *)
(***************************************************************************)
(* Induction, with the set of the numbers that have the property. *)
LEMMA SetInduction ==
  ASSUME NEW S, 0 \in S, \A n \in Nat : n \in S => n + 1 \in S
  PROVE  Nat \subseteq S
<1> DEFINE T == Nat \ S
           R == OpToRel(<, Nat)
<1>1. SUFFICES ASSUME T # {} PROVE FALSE
  OBVIOUS
<1>2. IsWellFoundedOn(R, Nat)
  BY NatLessThanWellFounded
<1>3. PICK x \in T : \A y \in T : ~(<<y, x>> \in R)
  <2>1. T \subseteq Nat
    OBVIOUS
  <2> HIDE DEF R, T
  <2> QED BY <1>1, <1>2, <2>1, WFMin
<1>4. x \in Nat /\ x # 0 /\ x \notin S
  OBVIOUS
<1>5. x - 1 \in Nat /\ x - 1 < x
  BY <1>4
<1>6. <<x - 1, x>> \in R
  BY <1>4, <1>5 DEF OpToRel
<1>7. x - 1 \in S
  BY <1>3, <1>5, <1>6
<1>8. (x - 1) + 1 \in S
  BY <1>5, <1>7
<1> QED BY <1>4, <1>8

(* A set of integers with an upper bound has a greatest element. *)
LEMMA Greatest ==
  ASSUME NEW S, S # {}, NEW b \in Int, \A x \in S : x \in Int /\ x <= b
  PROVE  MaxOf(S) \in S /\ \A y \in S : y <= MaxOf(S)
<1> DEFINE D == {b - x : x \in S}
           R == OpToRel(<, Nat)
<1>1. D # {} /\ D \subseteq Nat
  OBVIOUS
<1>2. PICK d \in D : \A e \in D : ~(<<e, d>> \in R)
  <2> HIDE DEF R, D
  <2> QED BY <1>1, NatLessThanWellFounded, WFMin DEF R
<1>3. PICK x \in S : d = b - x
  OBVIOUS
<1>4. ASSUME NEW y \in S PROVE y <= x
  <2>1. b - y \in D /\ b - y \in Nat /\ d \in Nat
    OBVIOUS
  <2>2. ~(<<b - y, d>> \in R)
    BY <1>2, <2>1
  <2>3. ~(b - y < d)
    BY <2>1, <2>2 DEF OpToRel
  <2> QED BY <1>3, <2>1, <2>3
<1> QED BY <1>4 DEF MaxOf

-----------------------------------------------------------------------------
(***************************************************************************)
(* The reference values.                                                   *)
(***************************************************************************)
LEMMA DepthFacts == MAX_DEPTH \in Nat /\ 1 <= MAX_DEPTH /\ MAX_DEPTH < 4000
BY DepthAssumption, SearchAssumption

(* All that is needed of the values: a mate is worth more than there are plies. *)
LEMMA ValueFacts ==
  /\ VALUE_CHECKMATE \in Nat /\ MAX_DEPTH < VALUE_CHECKMATE /\ VALUE_DRAW = 0
  /\ VALUE_NONE \in Int /\ VALUE_NONE < -VALUE_CHECKMATE
  /\ VALUE_MIN = -VALUE_CHECKMATE /\ VALUE_MAX = VALUE_CHECKMATE
  /\ VALUE_CHECKMATE_THRESHOLD = VALUE_CHECKMATE - MAX_DEPTH - 1
BY DepthAssumption
DEF VALUE_NONE, VALUE_MIN, VALUE_MAX, VALUE_DRAW, VALUE_CHECKMATE, VALUE_CHECKMATE_THRESHOLD

LEMMA GameFacts ==
  ASSUME game \in Games
  PROVE  /\ 0 \notin Nodes
         /\ \A n \in Nodes : \A m \in Legal(n) : Child(n, m) \in Nodes
         /\ \A n \in Nodes : Eval(n) \in -VALUE_CHECKMATE_THRESHOLD .. VALUE_CHECKMATE_THRESHOLD
         /\ \A n \in Nodes : Resolving(n) \subseteq Legal(n)
         /\ \A c \in game.roots : IsRoot(c, game)
<1>1. IsGame(game)
  BY SearchAssumption
<1>2. 0 \notin Nodes /\ \A n \in Nodes : \A m \in Legal(n) : Child(n, m) \in Nodes
  BY <1>1 DEF IsGame, Nodes, Legal, Child
<1>3. \A n \in Nodes : Eval(n) \in -VALUE_CHECKMATE_THRESHOLD .. VALUE_CHECKMATE_THRESHOLD
  BY <1>1 DEF IsGame, Nodes, Eval
<1>4. \A n \in Nodes : Resolving(n) \subseteq Legal(n)
  BY DEF Resolving
<1>5. \A c \in game.roots : IsRoot(c, game)
  BY <1>1 DEF IsGame
<1> QED BY <1>2, <1>3, <1>4, <1>5

(* The values a position can have at a ply. *)
Reach(p) == -VALUE_CHECKMATE + p .. VALUE_CHECKMATE - p

(* The values of leaves from ply p0 on. *)
IsQuiescence(q, p0) ==
  q = [p \in p0 .. MAX_DEPTH |-> [n \in Nodes |-> QuiescenceAt(n, p, q[p + 1])]]

LEMMA LastPly == ASSUME NEW n, NEW x PROVE QuiescenceAt(n, MAX_DEPTH, x) = Eval(n)
<1>1. MAX_DEPTH >= MAX_DEPTH
  BY DepthFacts
<1> QED BY <1>1 DEF QuiescenceAt

LEMMA QuiescenceExists == \E q : IsQuiescence(q, 0)
<1> DEFINE S == {k \in Nat : k <= MAX_DEPTH => \E q : IsQuiescence(q, MAX_DEPTH - k)}
<1>1. 0 \in S
  <2> DEFINE q == [p \in MAX_DEPTH .. MAX_DEPTH |-> [n \in Nodes |-> Eval(n)]]
  <2>1. \A p \in MAX_DEPTH .. MAX_DEPTH : p = MAX_DEPTH
    BY DepthFacts
  <2>2. \A x : \A p \in MAX_DEPTH .. MAX_DEPTH :
          [n \in Nodes |-> Eval(n)] = [n \in Nodes |-> QuiescenceAt(n, p, x)]
    BY <2>1, LastPly
  <2>3. q = [p \in MAX_DEPTH .. MAX_DEPTH |-> [n \in Nodes |-> QuiescenceAt(n, p, q[p + 1])]]
    BY <2>2
  <2>4. IsQuiescence(q, MAX_DEPTH)
    BY <2>3 DEF IsQuiescence
  <2>5. MAX_DEPTH - 0 = MAX_DEPTH
    BY DepthFacts
  <2> QED BY <2>4, <2>5
<1>2. ASSUME NEW k \in Nat, k \in S PROVE k + 1 \in S
  <2> SUFFICES ASSUME k + 1 <= MAX_DEPTH PROVE \E q : IsQuiescence(q, MAX_DEPTH - (k + 1))
    BY <1>2
  <2> DEFINE p0 == MAX_DEPTH - k
  <2>1. PICK q : IsQuiescence(q, p0)
    BY <1>2, DepthFacts
  <2> DEFINE r == [p \in p0 - 1 .. MAX_DEPTH |->
                     IF p = p0 - 1 THEN [n \in Nodes |-> QuiescenceAt(n, p, q[p + 1])] ELSE q[p]]
  <2>2. p0 \in 1 .. MAX_DEPTH /\ MAX_DEPTH - (k + 1) = p0 - 1
    BY DepthFacts
  <2> HIDE DEF p0
  <2>3. ASSUME NEW p \in p0 - 1 .. MAX_DEPTH
        PROVE  r[p] = [n \in Nodes |-> QuiescenceAt(n, p, r[p + 1])]
    <3>1. CASE p = MAX_DEPTH
      <4>1. p \in p0 .. MAX_DEPTH /\ r[p] = q[p]
        BY <2>2, <3>1
      <4>2. q[p] = [n \in Nodes |-> QuiescenceAt(n, p, q[p + 1])]
        BY <2>1, <4>1 DEF IsQuiescence
      <4>3. \A x, y : [n \in Nodes |-> QuiescenceAt(n, p, x)] = [n \in Nodes |-> QuiescenceAt(n, p, y)]
        BY <3>1, LastPly
      <4> QED BY <4>1, <4>2, <4>3
    <3>2. CASE p # MAX_DEPTH
      <4>1. p + 1 \in p0 .. MAX_DEPTH /\ r[p + 1] = q[p + 1]
        BY <2>2, <3>2, DepthFacts
      <4>2. r[p] = [n \in Nodes |-> QuiescenceAt(n, p, q[p + 1])]
        <5>1. CASE p = p0 - 1
          BY <5>1
        <5>2. CASE p # p0 - 1
          <6>1. p \in p0 .. MAX_DEPTH
            BY <2>2, <5>2
          <6> QED BY <2>1, <5>2, <6>1 DEF IsQuiescence
        <5> QED BY <5>1, <5>2
      <4> QED BY <4>1, <4>2
    <3> QED BY <3>1, <3>2
  <2>4. IsQuiescence(r, p0 - 1)
    <3> HIDE DEF r
    <3>1. r = [p \in p0 - 1 .. MAX_DEPTH |-> r[p]]
      BY DEF r
    <3> QED BY <2>3, <3>1 DEF IsQuiescence
  <2> QED BY <2>2, <2>4
<1> HIDE DEF S
<1>3. MAX_DEPTH \in S
  <2>1. Nat \subseteq S
    BY <1>1, <1>2, SetInduction
  <2> QED BY <2>1, DepthFacts
<1>4. MAX_DEPTH - MAX_DEPTH = 0 /\ MAX_DEPTH <= MAX_DEPTH
  BY DepthFacts
<1> QED BY <1>3, <1>4 DEF S

(* The worth of a leaf, from the worth of the leaves below it. *)
LEMMA QuiescenceUnfolds ==
  ASSUME NEW n \in Nodes, NEW p \in Plies
  PROVE  QuiescenceValue(n, p) =
           QuiescenceAt(n, p, [x \in Nodes |-> QuiescenceValue(x, p + 1)])
<1> DEFINE q == CHOOSE q : q = [i \in Plies |-> [x \in Nodes |-> QuiescenceAt(x, i, q[i + 1])]]
<1>1. \A x, i : QuiescenceValue(x, i) = q[i][x]
  BY DEF QuiescenceValue
<1>2. q = [i \in Plies |-> [x \in Nodes |-> QuiescenceAt(x, i, q[i + 1])]]
  BY QuiescenceExists DEF IsQuiescence, Plies
<1> HIDE DEF q
<1>3. q[p] = [x \in Nodes |-> QuiescenceAt(x, p, q[p + 1])]
  BY <1>2
<1>4. QuiescenceValue(n, p) = QuiescenceAt(n, p, q[p + 1])
  BY <1>1, <1>3
<1>5. CASE p = MAX_DEPTH
  BY <1>4, <1>5, LastPly
<1>6. CASE p # MAX_DEPTH
  <2>1. p + 1 \in Plies
    BY <1>6, DepthFacts DEF Plies
  <2>2. q[p + 1] = [x \in Nodes |-> q[p + 1][x]]
    BY <1>2, <2>1
  <2> QED BY <1>1, <1>4, <2>2
<1> QED BY <1>5, <1>6

(* What a move is worth at the horizon. *)
LeafWorth(n, m, p) ==
  IF Drawn(Child(n, m)) THEN VALUE_DRAW ELSE -QuiescenceValue(Child(n, m), p + 1)

LEMMA LeafWorths ==
  ASSUME game \in Games, NEW n \in Nodes, NEW p \in Plies, NEW m \in Legal(n)
  PROVE  WorthOf(n, m, [x \in Nodes |-> QuiescenceValue(x, p + 1)]) = LeafWorth(n, m, p)
BY GameFacts DEF WorthOf, LeafWorth

LEMMA ReachFacts ==
  ASSUME NEW p \in Nat, p <= MAX_DEPTH
  PROVE  /\ VALUE_DRAW \in Reach(p) /\ -VALUE_CHECKMATE + p \in Reach(p)
         /\ \A v \in Reach(p + 1) : v \in Reach(p) /\ -v \in Reach(p)
         /\ \A v \in -VALUE_CHECKMATE_THRESHOLD .. VALUE_CHECKMATE_THRESHOLD : v \in Reach(p)
         /\ \A v \in Reach(p) : v \in Int /\ v <= VALUE_CHECKMATE - p /\ v \in Values
<1>1. VALUE_CHECKMATE \in Nat /\ p < VALUE_CHECKMATE
  BY DepthFacts, ValueFacts
<1>2. VALUE_DRAW \in Reach(p) /\ -VALUE_CHECKMATE + p \in Reach(p)
  BY <1>1, ValueFacts DEF Reach
<1>3. \A v \in Reach(p + 1) : v \in Reach(p) /\ -v \in Reach(p)
  BY <1>1 DEF Reach
<1>4. \A v \in -VALUE_CHECKMATE_THRESHOLD .. VALUE_CHECKMATE_THRESHOLD : v \in Reach(p)
  BY <1>1, DepthFacts, ValueFacts DEF Reach
<1>5. \A v \in Reach(p) : v \in Int /\ v <= VALUE_CHECKMATE - p /\ v \in Values
  BY <1>1 DEF Reach, Values
<1> QED BY <1>2, <1>3, <1>4, <1>5

LEMMA LeafStep ==
  ASSUME game \in Games, NEW n \in Nodes, NEW p \in Plies,
         p # MAX_DEPTH => \A x \in Nodes : QuiescenceValue(x, p + 1) \in Reach(p + 1)
  PROVE  /\ QuiescenceValue(n, p) \in Reach(p)
         /\ On("QUIESCENCE") /\ p < MAX_DEPTH =>
              /\ \A m \in Resolving(n) : LeafWorth(n, m, p) \in Reach(p)
                                         /\ LeafWorth(n, m, p) <= QuiescenceValue(n, p)
              /\ ~HasCheck(n) => Eval(n) <= QuiescenceValue(n, p)
              /\ \/ \E m \in Resolving(n) : QuiescenceValue(n, p) = LeafWorth(n, m, p)
                 \/ ~HasCheck(n) /\ QuiescenceValue(n, p) = Eval(n)
                 \/ /\ HasCheck(n) /\ Resolving(n) = {}
                    /\ QuiescenceValue(n, p) = -VALUE_CHECKMATE + p
<1> DEFINE next == [x \in Nodes |-> QuiescenceValue(x, p + 1)]
           W == {WorthOf(n, m, next) : m \in Resolving(n)}
           v == QuiescenceValue(n, p)
<1>1. v = QuiescenceAt(n, p, next)
  BY QuiescenceUnfolds
<1>2. p \in Nat /\ p <= MAX_DEPTH /\ MAX_DEPTH \in Nat
  BY DepthFacts DEF Plies
<1>3. Eval(n) \in Reach(p)
  BY <1>2, GameFacts, ReachFacts
<1>4. CASE ~On("QUIESCENCE") \/ p >= MAX_DEPTH
  <2>1. v = Eval(n)
    BY <1>1, <1>4 DEF QuiescenceAt
  <2> QED BY <1>2, <1>3, <1>4, <2>1
<1>5. CASE On("QUIESCENCE") /\ p < MAX_DEPTH
  <2>1. \A m \in Resolving(n) : WorthOf(n, m, next) = LeafWorth(n, m, p)
    BY LeafWorths, GameFacts
  <2>2. ASSUME NEW m \in Resolving(n) PROVE LeafWorth(n, m, p) \in Reach(p)
    <3>1. Child(n, m) \in Nodes
      BY GameFacts
    <3>2. QuiescenceValue(Child(n, m), p + 1) \in Reach(p + 1)
      BY <1>5, <3>1, <1>2
    <3> QED BY <1>2, <3>2, ReachFacts DEF LeafWorth
  <2>3. W = {LeafWorth(n, m, p) : m \in Resolving(n)}
    BY <2>1
  <2>4. \A w \in W : w \in Reach(p)
    BY <2>2, <2>3
  <2> HIDE DEF W, next, v
  <2>5. \A S : (\A w \in S : w \in Reach(p)) /\ S # {} =>
          MaxOf(S) \in S /\ \A w \in S : w <= MaxOf(S)
    <3>1. VALUE_CHECKMATE - p \in Int
      BY <1>2, ValueFacts
    <3>2. \A w \in Reach(p) : w \in Int /\ w <= VALUE_CHECKMATE - p
      BY <1>2, ReachFacts
    <3> QED BY <3>1, <3>2, Greatest
  <2>6. CASE ~HasCheck(n)
    <3> DEFINE S == W \cup {Eval(n)}
    <3>1. v = MaxOf(S)
      BY <1>1, <1>2, <1>5, <2>6 DEF QuiescenceAt, W
    <3>2. \A w \in S : w \in Reach(p)
      BY <1>3, <2>4
    <3>3. v \in S /\ \A w \in S : w <= v
      <4>1. S # {}
        OBVIOUS
      <4> HIDE DEF S
      <4> QED BY <2>5, <3>1, <3>2, <4>1
    <3>4. v \in Reach(p) /\ Eval(n) <= v /\ \A w \in W : w <= v
      BY <3>2, <3>3
    <3>5. (\E m \in Resolving(n) : v = LeafWorth(n, m, p)) \/ v = Eval(n)
      BY <2>3, <3>3
    <3> QED BY <2>2, <2>3, <2>6, <3>4, <3>5 DEF v
  <2>7. CASE HasCheck(n) /\ Resolving(n) # {}
    <3>1. v = MaxOf(W)
      BY <1>1, <1>2, <1>5, <2>7 DEF QuiescenceAt, W
    <3>2. W # {}
      BY <2>3, <2>7
    <3>3. v \in W /\ \A w \in W : w <= v
      BY <2>4, <2>5, <3>1, <3>2
    <3> QED BY <2>2, <2>3, <2>4, <2>7, <3>3 DEF v
  <2>8. CASE HasCheck(n) /\ Resolving(n) = {}
    <3>1. v = -VALUE_CHECKMATE + p
      BY <1>1, <1>2, <1>5, <2>8, ValueFacts DEF QuiescenceAt
    <3> QED BY <1>2, <2>8, <3>1, ReachFacts DEF v
  <2> QED BY <2>6, <2>7, <2>8
<1> QED BY <1>2, <1>4, <1>5

LEMMA QuiescenceReach ==
  ASSUME game \in Games
  PROVE  \A p \in Plies : \A n \in Nodes : QuiescenceValue(n, p) \in Reach(p)
<1> DEFINE S == {k \in Nat : k <= MAX_DEPTH =>
                   \A p \in Plies : p = MAX_DEPTH - k =>
                     \A n \in Nodes : QuiescenceValue(n, p) \in Reach(p)}
<1>1. 0 \in S
  <2>1. \A p \in Plies : p = MAX_DEPTH - 0 => p = MAX_DEPTH
    BY DepthFacts
  <2> QED BY <2>1, LeafStep
<1>2. ASSUME NEW k \in Nat, k \in S PROVE k + 1 \in S
  <2> SUFFICES ASSUME k + 1 <= MAX_DEPTH, NEW p \in Plies, p = MAX_DEPTH - (k + 1), NEW n \in Nodes
               PROVE  QuiescenceValue(n, p) \in Reach(p)
    BY <1>2
  <2>1. p + 1 \in Plies /\ p + 1 = MAX_DEPTH - k /\ k <= MAX_DEPTH
    BY DepthFacts DEF Plies
  <2>2. \A x \in Nodes : QuiescenceValue(x, p + 1) \in Reach(p + 1)
    BY <1>2, <2>1
  <2> QED BY <2>2, LeafStep
<1>3. Nat \subseteq S
  <2> HIDE DEF S
  <2> QED BY <1>1, <1>2, SetInduction
<1>4. ASSUME NEW p \in Plies PROVE \A n \in Nodes : QuiescenceValue(n, p) \in Reach(p)
  <2>1. MAX_DEPTH - p \in S /\ MAX_DEPTH - p <= MAX_DEPTH /\ p = MAX_DEPTH - (MAX_DEPTH - p)
    BY <1>3, DepthFacts DEF Plies
  <2> QED BY <2>1
<1> QED BY <1>4

(* The values of all positions at all plies, one after the other depth. *)
MinimaxLevel(d, next) == [p \in Plies |-> [n \in Nodes |-> MinimaxAt(n, d, p, next)]]
IsMinimax(v, d0) == v = [d \in 0 .. d0 |-> MinimaxLevel(d, v[d - 1])]

LEMMA NoDepth == ASSUME NEW x, NEW y PROVE MinimaxLevel(0, x) = MinimaxLevel(0, y)
BY DEF MinimaxLevel, MinimaxAt

LEMMA MinimaxExists == \E v : IsMinimax(v, MAX_DEPTH)
<1> DEFINE S == {k \in Nat : \E v : IsMinimax(v, k)}
<1>1. 0 \in S
  <2> DEFINE v == [d \in 0 .. 0 |-> MinimaxLevel(0, 0)]
  <2>1. \A d \in 0 .. 0 : d = 0
    OBVIOUS
  <2>2. \A x : \A d \in 0 .. 0 : MinimaxLevel(0, 0) = MinimaxLevel(d, x)
    BY <2>1, NoDepth
  <2>3. v = [d \in 0 .. 0 |-> MinimaxLevel(d, v[d - 1])]
    BY <2>2
  <2>4. IsMinimax(v, 0)
    BY <2>3 DEF IsMinimax
  <2> QED BY <2>4
<1>2. ASSUME NEW k \in Nat, k \in S PROVE k + 1 \in S
  <2>1. PICK v : IsMinimax(v, k)
    BY <1>2
  <2> DEFINE w == [d \in 0 .. k + 1 |-> IF d = k + 1 THEN MinimaxLevel(d, v[k]) ELSE v[d]]
  <2>2. ASSUME NEW d \in 0 .. k + 1 PROVE w[d] = MinimaxLevel(d, w[d - 1])
    <3>1. CASE d = k + 1
      <4>1. d - 1 = k /\ k \in 0 .. k + 1 /\ k # k + 1
        BY <3>1
      <4> QED BY <3>1, <4>1
    <3>2. CASE d # k + 1
      <4>1. d \in 0 .. k
        BY <3>2
      <4>2. w[d] = v[d] /\ v[d] = MinimaxLevel(d, v[d - 1])
        BY <2>1, <3>2, <4>1 DEF IsMinimax
      <4>3. CASE d = 0
        <5> HIDE DEF w
        <5>1. MinimaxLevel(d, v[d - 1]) = MinimaxLevel(d, w[d - 1])
          BY <4>3, NoDepth
        <5> QED BY <4>2, <5>1
      <4>4. CASE d # 0
        <5>1. d - 1 \in 0 .. k + 1 /\ d - 1 # k + 1
          BY <4>1, <4>4
        <5>2. w[d - 1] = v[d - 1]
          BY <5>1
        <5> QED BY <4>2, <5>2
      <4> QED BY <4>3, <4>4
    <3> QED BY <3>1, <3>2
  <2>3. w = [d \in 0 .. k + 1 |-> w[d]]
    OBVIOUS
  <2> HIDE DEF w
  <2>4. IsMinimax(w, k + 1)
    BY <2>2, <2>3 DEF IsMinimax
  <2> QED BY <2>4
<1> HIDE DEF S
<1>3. Nat \subseteq S
  BY <1>1, <1>2, SetInduction
<1> QED BY <1>3, DepthFacts DEF S

LEMMA MinimaxUnfolds ==
  ASSUME NEW n \in Nodes, NEW d \in Depths, NEW p \in Plies
  PROVE  /\ d = 0 \/ p >= MAX_DEPTH => MinimaxValue(n, d, p) = QuiescenceValue(n, p)
         /\ d > 0 /\ p < MAX_DEPTH =>
              MinimaxValue(n, d, p) =
                IF Legal(n) # {}
                THEN MaxOf({WorthOf(n, m, [x \in Nodes |-> MinimaxValue(x, d - 1, p + 1)]) : m \in Legal(n)})
                ELSE IF HasCheck(n) THEN -VALUE_CHECKMATE + p ELSE VALUE_DRAW
<1> DEFINE v == CHOOSE v : v = [e \in Depths |->
                                  [i \in Plies |-> [x \in Nodes |-> MinimaxAt(x, e, i, v[e - 1])]]]
<1>1. \A x, e, i : MinimaxValue(x, e, i) = v[e][i][x]
  BY DEF MinimaxValue
<1>2. v = [e \in Depths |-> [i \in Plies |-> [x \in Nodes |-> MinimaxAt(x, e, i, v[e - 1])]]]
  BY MinimaxExists DEF IsMinimax, MinimaxLevel, Depths
<1> HIDE DEF v
<1>3. \A e \in Depths : v[e] = [i \in Plies |-> [x \in Nodes |-> MinimaxAt(x, e, i, v[e - 1])]]
  BY <1>2
<1>4. MinimaxValue(n, d, p) = MinimaxAt(n, d, p, v[d - 1])
  <2>1. v[d] = [i \in Plies |-> [x \in Nodes |-> MinimaxAt(x, d, i, v[d - 1])]]
    BY <1>3
  <2>2. v[d][p] = [x \in Nodes |-> MinimaxAt(x, d, p, v[d - 1])]
    BY <2>1
  <2> QED BY <1>1, <2>2
<1>5. CASE d = 0 \/ p >= MAX_DEPTH
  <2>1. MinimaxValue(n, d, p) = QuiescenceValue(n, p)
    BY <1>4, <1>5 DEF MinimaxAt
  <2>2. ~(d > 0 /\ p < MAX_DEPTH)
    BY <1>5, DepthFacts DEF Plies
  <2> QED BY <2>1, <2>2
<1>6. CASE d > 0 /\ p < MAX_DEPTH
  <2>1. d - 1 \in Depths /\ p + 1 \in Plies /\ ~(d = 0 \/ p >= MAX_DEPTH)
    BY <1>6, DepthFacts DEF Depths, Plies
  <2>2. v[d - 1][p + 1] = [x \in Nodes |-> v[d - 1][p + 1][x]]
    <3>1. v[d - 1] = [i \in Plies |-> [x \in Nodes |-> MinimaxAt(x, d - 1, i, v[d - 1 - 1])]]
      BY <1>3, <2>1
    <3>2. v[d - 1][p + 1] = [x \in Nodes |-> MinimaxAt(x, d - 1, p + 1, v[d - 1 - 1])]
      BY <2>1, <3>1
    <3> QED BY <3>2
  <2>3. v[d - 1][p + 1] = [x \in Nodes |-> MinimaxValue(x, d - 1, p + 1)]
    BY <1>1, <2>2
  <2> QED BY <1>4, <2>1, <2>3, ValueFacts DEF MinimaxAt
<1> QED BY <1>5, <1>6, DepthFacts DEF Depths, Plies

(* What a move is worth above the horizon. *)
NodeWorth(n, m, d, p) ==
  IF Drawn(Child(n, m)) THEN VALUE_DRAW ELSE -MinimaxValue(Child(n, m), d - 1, p + 1)

LEMMA NodeStep ==
  ASSUME game \in Games, NEW n \in Nodes, NEW d \in Depths, NEW p \in Plies, d > 0, p < MAX_DEPTH,
         \A x \in Nodes : MinimaxValue(x, d - 1, p + 1) \in Reach(p + 1)
  PROVE  /\ MinimaxValue(n, d, p) \in Reach(p)
         /\ \A m \in Legal(n) : NodeWorth(n, m, d, p) \in Reach(p)
                                /\ NodeWorth(n, m, d, p) <= MinimaxValue(n, d, p)
         /\ \/ \E m \in Legal(n) : MinimaxValue(n, d, p) = NodeWorth(n, m, d, p)
            \/ /\ Legal(n) = {}
               /\ MinimaxValue(n, d, p) = IF HasCheck(n) THEN -VALUE_CHECKMATE + p ELSE VALUE_DRAW
<1> DEFINE next == [x \in Nodes |-> MinimaxValue(x, d - 1, p + 1)]
           W == {WorthOf(n, m, next) : m \in Legal(n)}
           v == MinimaxValue(n, d, p)
<1>1. p \in Nat /\ p <= MAX_DEPTH /\ MAX_DEPTH \in Nat
  BY DepthFacts DEF Plies
<1>2. v = IF Legal(n) # {} THEN MaxOf(W) ELSE IF HasCheck(n) THEN -VALUE_CHECKMATE + p ELSE VALUE_DRAW
  BY MinimaxUnfolds
<1>3. ASSUME NEW m \in Legal(n)
      PROVE  WorthOf(n, m, next) = NodeWorth(n, m, d, p) /\ NodeWorth(n, m, d, p) \in Reach(p)
  <2>1. Child(n, m) \in Nodes
    BY GameFacts
  <2>2. WorthOf(n, m, next) = NodeWorth(n, m, d, p)
    BY <2>1 DEF WorthOf, NodeWorth
  <2>3. MinimaxValue(Child(n, m), d - 1, p + 1) \in Reach(p + 1)
    BY <2>1
  <2> QED BY <1>1, <2>2, <2>3, ReachFacts DEF NodeWorth
<1>4. CASE Legal(n) = {}
  BY <1>1, <1>2, <1>4, ReachFacts
<1>5. CASE Legal(n) # {}
  <2>1. W = {NodeWorth(n, m, d, p) : m \in Legal(n)} /\ W # {}
    BY <1>3, <1>5
  <2>2. \A w \in W : w \in Reach(p)
    BY <1>3, <2>1
  <2>3. \A w \in W : w \in Int /\ w <= VALUE_CHECKMATE - p
    BY <1>1, <2>2, ReachFacts
  <2>4. VALUE_CHECKMATE - p \in Int
    BY <1>1, ValueFacts
  <2> HIDE DEF W, v
  <2>5. v \in W /\ \A w \in W : w <= v
    <3>1. v = MaxOf(W)
      BY <1>2, <1>5
    <3>2. W # {}
      BY <2>1
    <3>3. MaxOf(W) \in W /\ \A w \in W : w <= MaxOf(W)
      BY <2>3, <2>4, <3>2, Greatest
    <3> QED BY <3>1, <3>3
  <2> QED BY <1>3, <2>1, <2>2, <2>5 DEF v
<1> QED BY <1>4, <1>5

LEMMA MinimaxReach ==
  ASSUME game \in Games
  PROVE  \A d \in Depths, p \in Plies : \A n \in Nodes : MinimaxValue(n, d, p) \in Reach(p)
<1> DEFINE S == {d \in Nat : d <= MAX_DEPTH =>
                   \A p \in Plies : \A n \in Nodes : MinimaxValue(n, d, p) \in Reach(p)}
<1>1. 0 \in S
  <2>1. 0 \in Depths
    BY DepthFacts DEF Depths
  <2> QED BY <2>1, MinimaxUnfolds, QuiescenceReach
<1>2. ASSUME NEW d \in Nat, d \in S PROVE d + 1 \in S
  <2> SUFFICES ASSUME d + 1 <= MAX_DEPTH, NEW p \in Plies, NEW n \in Nodes
               PROVE  MinimaxValue(n, d + 1, p) \in Reach(p)
    BY <1>2
  <2>1. d + 1 \in Depths /\ d <= MAX_DEPTH /\ d + 1 - 1 = d /\ d + 1 > 0
    BY DepthFacts DEF Depths
  <2>2. CASE p >= MAX_DEPTH
    BY <2>1, <2>2, MinimaxUnfolds, QuiescenceReach
  <2>3. CASE p < MAX_DEPTH
    <3>1. p + 1 \in Plies
      BY <2>3, DepthFacts DEF Plies
    <3>2. \A x \in Nodes : MinimaxValue(x, d + 1 - 1, p + 1) \in Reach(p + 1)
      BY <1>2, <2>1, <3>1
    <3> QED BY <2>1, <2>3, <3>2, NodeStep
  <2> QED BY <2>2, <2>3, DepthFacts DEF Plies
<1>3. Nat \subseteq S
  <2> HIDE DEF S
  <2> QED BY <1>1, <1>2, SetInduction
<1>4. ASSUME NEW d \in Depths PROVE d \in S /\ d <= MAX_DEPTH
  BY <1>3, DepthFacts DEF Depths
<1> QED BY <1>4

LEMMA UnfoldsAtHorizon ==
  ASSUME NEW n \in Nodes, NEW d \in Depths, NEW p \in Plies, d = 0 \/ p >= MAX_DEPTH
  PROVE  MinimaxValue(n, d, p) = QuiescenceValue(n, p)
BY MinimaxUnfolds

(* The worth of a node past its entry: of its moves, of standing pat, or   *)
(* of a mate or stalemate.                                                 *)
LEMMA CallFacts ==
  ASSUME game \in Games, NEW c, IsCall(c), c.ply < MAX_DEPTH,
         c.fn = "search" => c.depth > 0, c.fn = "qsearch" => On("QUIESCENCE")
  PROVE  /\ Worth(c) \in Reach(c.ply)
         /\ \A m \in Candidates(c) : /\ m \in Legal(c.node)
                                     /\ MoveWorth(c, m) \in Reach(c.ply)
                                     /\ MoveWorth(c, m) <= Worth(c)
         /\ StandsPat(c) => Eval(c.node) <= Worth(c)
         /\ \/ \E m \in Candidates(c) : Worth(c) = MoveWorth(c, m)
            \/ StandsPat(c) /\ Worth(c) = Eval(c.node)
            \/ /\ Candidates(c) = {} /\ ~StandsPat(c)
               /\ Worth(c) = IF HasCheck(c.node) THEN -VALUE_CHECKMATE + c.ply ELSE VALUE_DRAW
<1>1. c.node \in Nodes /\ c.depth \in Depths /\ c.ply \in Plies /\ c.fn \in {"search", "qsearch"}
  BY DEF IsCall
<1>2. c.ply + 1 \in Plies /\ 0 \in Depths
  BY <1>1, DepthFacts DEF Plies, Depths
<1>3. CASE c.fn = "search"
  <2>1. c.depth > 0 /\ c.depth - 1 \in Depths
    BY <1>1, <1>3, DepthFacts DEF Depths
  <2>2. \A x \in Nodes : MinimaxValue(x, c.depth - 1, c.ply + 1) \in Reach(c.ply + 1)
    BY <1>2, <2>1, MinimaxReach
  <2>3. \A m : MoveWorth(c, m) = NodeWorth(c.node, m, c.depth, c.ply)
    BY <1>3 DEF MoveWorth, NodeWorth, DepthBelow
  <2>4. Candidates(c) = Legal(c.node) /\ ~StandsPat(c)
    BY <1>3 DEF Candidates, StandsPat
  <2> QED BY <1>1, <2>1, <2>2, <2>3, <2>4, NodeStep DEF Worth
<1>4. CASE c.fn = "qsearch"
  <2>1. c.depth = 0 /\ On("QUIESCENCE")
    BY <1>4 DEF IsCall
  <2>2. Worth(c) = QuiescenceValue(c.node, c.ply)
    BY <1>1, <2>1, UnfoldsAtHorizon DEF Worth
  <2>3. \A m \in Legal(c.node) : MoveWorth(c, m) = LeafWorth(c.node, m, c.ply)
    BY <1>1, <1>2, <1>4, GameFacts, UnfoldsAtHorizon DEF MoveWorth, LeafWorth, DepthBelow
  <2>4. Candidates(c) = Resolving(c.node) /\ (StandsPat(c) <=> ~HasCheck(c.node))
    BY <1>4 DEF Candidates, StandsPat
  <2>5. Resolving(c.node) \subseteq Legal(c.node)
    BY <1>1, GameFacts
  <2>6. \A x \in Nodes : QuiescenceValue(x, c.ply + 1) \in Reach(c.ply + 1)
    BY <1>2, QuiescenceReach
  <2> DEFINE n == c.node
             p == c.ply
  <2>7. /\ QuiescenceValue(n, p) \in Reach(p)
        /\ \A m \in Resolving(n) : LeafWorth(n, m, p) \in Reach(p)
                                   /\ LeafWorth(n, m, p) <= QuiescenceValue(n, p)
        /\ ~HasCheck(n) => Eval(n) <= QuiescenceValue(n, p)
        /\ \/ \E m \in Resolving(n) : QuiescenceValue(n, p) = LeafWorth(n, m, p)
           \/ ~HasCheck(n) /\ QuiescenceValue(n, p) = Eval(n)
           \/ /\ HasCheck(n) /\ Resolving(n) = {}
              /\ QuiescenceValue(n, p) = -VALUE_CHECKMATE + p
    BY <1>1, <2>1, <2>6, LeafStep
  <2> QED BY <2>2, <2>3, <2>4, <2>5, <2>7
<1> QED BY <1>1, <1>3, <1>4

LEMMA HorizonFacts ==
  ASSUME game \in Games, NEW c, IsCall(c)
  PROVE  /\ Worth(c) \in Reach(c.ply)
         /\ c.depth = 0 \/ c.ply >= MAX_DEPTH => Worth(c) = QuiescenceValue(c.node, c.ply)
         /\ ~On("QUIESCENCE") \/ c.ply >= MAX_DEPTH => QuiescenceValue(c.node, c.ply) = Eval(c.node)
<1>1. c.node \in Nodes /\ c.depth \in Depths /\ c.ply \in Plies
  BY DEF IsCall
<1>2. Worth(c) \in Reach(c.ply)
  BY <1>1, MinimaxReach DEF Worth
<1>3. c.depth = 0 \/ c.ply >= MAX_DEPTH => Worth(c) = QuiescenceValue(c.node, c.ply)
  BY <1>1, UnfoldsAtHorizon DEF Worth
<1>4. ASSUME ~On("QUIESCENCE") \/ c.ply >= MAX_DEPTH
      PROVE  QuiescenceValue(c.node, c.ply) = Eval(c.node)
  <2>1. \A x : QuiescenceAt(c.node, c.ply, x) = Eval(c.node)
    BY <1>4 DEF QuiescenceAt
  <2> QED BY <1>1, <2>1, QuiescenceUnfolds
<1> QED BY <1>2, <1>3, <1>4

(* The window after mate distance pruning. *)
LEMMA WindowFacts ==
  ASSUME NEW c, IsCall(c)
  PROVE  /\ c.alpha \in Int /\ c.beta \in Int /\ c.alpha < c.beta
         /\ c.ply \in Nat /\ c.ply < VALUE_CHECKMATE
         /\ LowEnd(c) \in Values /\ HighEnd(c) \in Values
         /\ LowEnd(c) = c.alpha \/ (LowEnd(c) = -VALUE_CHECKMATE + c.ply /\ c.alpha <= LowEnd(c))
         /\ HighEnd(c) = c.beta \/ (HighEnd(c) = VALUE_CHECKMATE - c.ply /\ c.beta >= HighEnd(c))
<1> DEFINE a == c.alpha
           b == c.beta
           p == c.ply
<1>1. a \in Values /\ b \in Values /\ a < b /\ p \in Plies
  BY DEF IsCall
<1> HIDE DEF a, b, p
<1>2. VALUE_CHECKMATE \in Nat /\ p \in Nat /\ p < VALUE_CHECKMATE
  BY <1>1, DepthFacts, ValueFacts DEF Plies
<1>3. Larger(a, -VALUE_CHECKMATE + p) \in Values /\ Smaller(b, VALUE_CHECKMATE - p) \in Values
  BY <1>1, <1>2 DEF Larger, Smaller, Values
<1>4. Larger(a, -VALUE_CHECKMATE + p) \in {a, -VALUE_CHECKMATE + p} /\ a <= Larger(a, -VALUE_CHECKMATE + p)
  BY <1>1, <1>2 DEF Larger, Values
<1>5. Smaller(b, VALUE_CHECKMATE - p) \in {b, VALUE_CHECKMATE - p} /\ b >= Smaller(b, VALUE_CHECKMATE - p)
  BY <1>1, <1>2 DEF Smaller, Values
<1>6. a \in Int /\ b \in Int
  BY <1>1, <1>2 DEF Values
<1> QED BY <1>1, <1>2, <1>3, <1>4, <1>5, <1>6 DEF LowEnd, HighEnd, a, b, p

(* A bound in the window that mate distance pruning leaves is one in the   *)
(* window of the call, for no value lies outside the reach of the ply.     *)
LEMMA WidenedWindow ==
  ASSUME NEW c, IsCall(c), NEW t \in Reach(c.ply), NEW v \in Int,
         Answers(v, t, LowEnd(c), HighEnd(c)), LowEnd(c) < HighEnd(c)
  PROVE  Answers(v, t, c.alpha, c.beta)
<1> DEFINE a == c.alpha
           b == c.beta
           p == c.ply
           l == LowEnd(c)
           h == HighEnd(c)
<1>1. /\ a \in Int /\ b \in Int /\ a < b /\ p \in Nat /\ p < VALUE_CHECKMATE
      /\ l = a \/ (l = -VALUE_CHECKMATE + p /\ a <= l)
      /\ h = b \/ (h = VALUE_CHECKMATE - p /\ b >= h)
  BY WindowFacts
<1>2. t \in -VALUE_CHECKMATE + p .. VALUE_CHECKMATE - p /\ VALUE_CHECKMATE \in Nat
  BY ValueFacts DEF Reach
<1>3. Answers(v, t, l, h) /\ l < h
  OBVIOUS
<1> HIDE DEF a, b, p, l, h
<1>4. Answers(v, t, a, b)
  BY <1>1, <1>2, <1>3 DEF Answers
<1> QED BY <1>4 DEF a, b

(* A window that mate distance pruning closes is answered by its lower end. *)
LEMMA ClosedWindow ==
  ASSUME NEW c, IsCall(c), NEW t \in Reach(c.ply), LowEnd(c) >= HighEnd(c)
  PROVE  Answers(LowEnd(c), t, c.alpha, c.beta)
<1> DEFINE a == c.alpha
           b == c.beta
           p == c.ply
           l == LowEnd(c)
           h == HighEnd(c)
<1>1. /\ a \in Int /\ b \in Int /\ a < b /\ p \in Nat /\ p < VALUE_CHECKMATE
      /\ l = a \/ (l = -VALUE_CHECKMATE + p /\ a <= l)
      /\ h = b \/ (h = VALUE_CHECKMATE - p /\ b >= h)
  BY WindowFacts
<1>2. t \in -VALUE_CHECKMATE + p .. VALUE_CHECKMATE - p /\ VALUE_CHECKMATE \in Nat /\ l >= h
  BY ValueFacts DEF Reach
<1> HIDE DEF a, b, p, l, h
<1>3. Answers(l, t, a, b)
  BY <1>1, <1>2 DEF Answers
<1> QED BY <1>3 DEF a, b, l

(* What a node past its entry knows of its worth. *)
LEMMA NodeFacts ==
  ASSUME game \in Games, NEW f, NEW left, FrameOK(f, left), f.pc # "enter"
  PROVE  /\ IsCall(f.call) /\ f.call.ply < MAX_DEPTH
         /\ Worth(f.call) \in Reach(f.call.ply) /\ Worth(f.call) \in Values
         /\ \A m \in Candidates(f.call) : /\ m \in Legal(f.call.node)
                                          /\ MoveWorth(f.call, m) \in Values
                                          /\ MoveWorth(f.call, m) <= Worth(f.call)
         /\ StandsPat(f.call) => Eval(f.call.node) <= Worth(f.call) /\ Eval(f.call.node) \in Values
         /\ \/ \E m \in Candidates(f.call) : Worth(f.call) = MoveWorth(f.call, m)
            \/ StandsPat(f.call) /\ Worth(f.call) = Eval(f.call.node)
            \/ /\ Candidates(f.call) = {} /\ ~StandsPat(f.call)
               /\ Worth(f.call) = IF HasCheck(f.call.node) THEN -VALUE_CHECKMATE + f.call.ply
                                  ELSE VALUE_DRAW
<1> DEFINE c == f.call
<1>1. IsCall(c) /\ c.ply < MAX_DEPTH /\ (c.fn = "search" => c.depth > 0)
      /\ (c.fn = "qsearch" => On("QUIESCENCE"))
  BY DEF FrameOK, EnteredOK
<1>2. c.ply \in Nat /\ c.ply <= MAX_DEPTH /\ c.node \in Nodes
  BY <1>1, DepthFacts DEF IsCall, Plies
<1>3. \A v \in Reach(c.ply) : v \in Values
  BY <1>2, ReachFacts
<1>4. Eval(c.node) \in Reach(c.ply)
  BY <1>2, ReachFacts, GameFacts
<1> HIDE DEF c
<1>5. /\ Worth(c) \in Reach(c.ply)
      /\ \A m \in Candidates(c) : /\ m \in Legal(c.node)
                                  /\ MoveWorth(c, m) \in Reach(c.ply)
                                  /\ MoveWorth(c, m) <= Worth(c)
      /\ StandsPat(c) => Eval(c.node) <= Worth(c)
      /\ \/ \E m \in Candidates(c) : Worth(c) = MoveWorth(c, m)
         \/ StandsPat(c) /\ Worth(c) = Eval(c.node)
         \/ /\ Candidates(c) = {} /\ ~StandsPat(c)
            /\ Worth(c) = IF HasCheck(c.node) THEN -VALUE_CHECKMATE + c.ply ELSE VALUE_DRAW
  BY <1>1, CallFacts
<1> QED BY <1>1, <1>3, <1>4, <1>5 DEF c

(* At the end of the loop the best value answers the call. *)
LEMMA LoopAnswers ==
  ASSUME game \in Games, NEW f, NEW left, FrameOK(f, left), f.pc = "end",
         f.bestNodeValue # VALUE_NONE
  PROVE  f.bestNodeValue \in Values
         /\ Answers(f.bestNodeValue, Worth(f.call), f.call.alpha, f.call.beta)
<1> DEFINE c == f.call
           v == f.bestNodeValue
           t == Worth(f.call)
           l == LowEnd(f.call)
           h == HighEnd(f.call)
<1>1. /\ EnteredOK(f) /\ BestOK(f, left) /\ (left = {} \/ v >= h)
      /\ IsCall(c) /\ t \in Reach(c.ply) /\ t \in Values
  BY NodeFacts DEF FrameOK, Looping, EnteredOK
<1>2. l \in Values /\ h \in Values /\ l < h /\ v \in Values
  <2>1. l \in Values /\ h \in Values /\ v \in Values
    BY <1>1, WindowFacts DEF BestOK
  <2>2. l <= f.alpha /\ f.alpha < h /\ f.alpha \in Values
    BY <1>1 DEF EnteredOK
  <2> HIDE DEF l, h, v
  <2> QED BY <2>1, <2>2, ValueFacts DEF Values
<1>3. v > l => v <= t
  BY <1>1 DEF BestOK
<1>4. v < h => t <= v
  <2> SUFFICES ASSUME v < h PROVE t <= v
    OBVIOUS
  <2>1. left = {}
    <3>1. ~(v >= h)
      <4> HIDE DEF v, h
      <4> QED BY <1>2, ValueFacts DEF Values
    <3> QED BY <1>1, <3>1
  <2>2. Done(f, left) = Candidates(c)
    BY <2>1 DEF Done, Pending
  <2>3. \A m \in Candidates(c) : MoveWorth(c, m) <= v
    BY <1>1, <2>2 DEF BestOK, EnteredOK
  <2>4. StandsPat(c) => v >= Eval(c.node)
    BY <1>1 DEF BestOK
  <2>5. Candidates(c) = {} /\ ~StandsPat(c) => v = VALUE_NONE
    BY <1>1 DEF BestOK
  <2>6. \/ \E m \in Candidates(c) : t = MoveWorth(c, m)
        \/ StandsPat(c) /\ t = Eval(c.node)
        \/ Candidates(c) = {} /\ ~StandsPat(c)
    BY NodeFacts
  <2>7. CASE \E m \in Candidates(c) : t = MoveWorth(c, m)
    BY <2>3, <2>7
  <2>8. CASE StandsPat(c) /\ t = Eval(c.node)
    <3>1. v >= t
      BY <2>4, <2>8
    <3> HIDE DEF v, t
    <3> QED BY <1>1, <1>2, <3>1, ValueFacts DEF Values
  <2> QED BY <2>5, <2>6, <2>7, <2>8
<1>5. Answers(v, t, l, h)
  <2> HIDE DEF v, t, l, h
  <2> QED BY <1>1, <1>2, <1>3, <1>4, ValueFacts DEF Answers, Values
<1>6. v \in Int
  <2> HIDE DEF v
  <2> QED BY <1>2, ValueFacts DEF Values
<1> QED BY <1>1, <1>2, <1>5, <1>6, WidenedWindow

(* What a node returns when it leaves: the value of the loop, or that of a *)
(* mate or stalemate if no move was searched.                              *)
LEMMA LeaveAnswers ==
  ASSUME game \in Games, NEW f, NEW left, IsFrame(f), FrameOK(f, left), f.pc = "end",
         NEW v, v = Ended(f).bestNodeValue
  PROVE  /\ v \in Values \cup {VALUE_NONE}
         /\ v # VALUE_NONE => Answers(v, Worth(f.call), f.call.alpha, f.call.beta)
         /\ v = VALUE_NONE => stopSearchFlag
<1> DEFINE c == f.call
<1>1. BestOK(f, left) /\ Worth(c) \in Values /\ c.fn \in {"search", "qsearch"}
  BY NodeFacts DEF FrameOK, Looping, IsCall
<1>2. CASE f.movesSearched > 0 \/ stopSearchFlag \/ StandsPat(c)
  <2>1. v = f.bestNodeValue
    BY <1>2 DEF Ended, StandsPat
  <2>2. f.movesSearched > 0 \/ StandsPat(c) => v # VALUE_NONE
    <3>1. StandsPat(c) => v >= Eval(c.node) /\ Eval(c.node) \in Values
      BY <1>1, <2>1, NodeFacts DEF BestOK
    <3>2. StandsPat(c) => v # VALUE_NONE
      BY <3>1, ValueFacts DEF Values
    <3> QED BY <1>1, <2>1, <3>2 DEF BestOK
  <2> QED BY <1>1, <1>2, <2>1, <2>2, LoopAnswers DEF BestOK
<1>3. CASE ~(f.movesSearched > 0 \/ stopSearchFlag \/ StandsPat(c))
  <2>1. f.movesSearched = 0 /\ f.bestNodeValue = VALUE_NONE
    BY <1>1, <1>3 DEF BestOK
  <2>2. \A m \in Done(f, left) : MoveWorth(c, m) <= VALUE_NONE
    <3>1. f.beta \in Values
      BY DEF FrameOK, EnteredOK
    <3>2. VALUE_NONE < f.beta
      BY <3>1, ValueFacts DEF Values
    <3> QED BY <1>1, <2>1, <3>2 DEF BestOK
  <2>3. left = {}
    <3>1. f.beta \in Values /\ (left = {} \/ VALUE_NONE >= f.beta)
      BY <2>1 DEF FrameOK, EnteredOK
    <3> QED BY <3>1, ValueFacts DEF Values
  <2>4. Candidates(c) = {}
    <3>1. Done(f, left) = Candidates(c)
      BY <2>3 DEF Done, Pending
    <3>2. ASSUME NEW m \in Candidates(c) PROVE FALSE
      <4>1. MoveWorth(c, m) <= VALUE_NONE /\ MoveWorth(c, m) \in Values
        BY <2>2, <3>1, NodeFacts
      <4> QED BY <4>1, ValueFacts DEF Values
    <3> QED BY <3>2
  <2>5. Worth(c) = IF HasCheck(c.node) THEN -VALUE_CHECKMATE + c.ply ELSE VALUE_DRAW
    BY <1>3, <2>4, NodeFacts
  <2>6. v = Worth(c)
    BY <1>1, <1>3, <2>1, <2>5 DEF Ended, StandsPat, IsFrame, Fields
  <2>7. Answers(v, v, c.alpha, c.beta) /\ v # VALUE_NONE
    <3>1. c.alpha \in Int /\ c.beta \in Int
      BY WindowFacts DEF FrameOK
    <3> QED BY <1>1, <2>6, <3>1, ValueFacts DEF Answers, Values
  <2> QED BY <1>1, <2>6, <2>7
<1> QED BY <1>2, <1>3

-----------------------------------------------------------------------------
(***************************************************************************)
(* No step but the first changes the game or the switches, so what the     *)
(* invariant says of a frame does not change either.                       *)
(***************************************************************************)
Fixed == UNCHANGED <<game, features>>

LEMMA FixedValue ==
  ASSUME Fixed, NEW n, NEW d, NEW p
  PROVE  MinimaxValue(n, d, p)' = MinimaxValue(n, d, p)
BY DEF Fixed, MinimaxValue, MinimaxAt, QuiescenceValue, QuiescenceAt, WorthOf, Resolving, MaxOf,
       Nodes, Legal, Child, HasCheck, Drawn, Eval, On, NonQuiet, GoodCapture, Plies, Depths

LEMMA FixedWorth ==
  ASSUME Fixed, NEW c, NEW m
  PROVE  /\ Worth(c)' = Worth(c) /\ MoveWorth(c, m)' = MoveWorth(c, m)
         /\ (StandsPat(c)' <=> StandsPat(c)) /\ Candidates(c)' = Candidates(c)
         /\ (IsCall(c)' <=> IsCall(c)) /\ LowEnd(c)' = LowEnd(c) /\ HighEnd(c)' = HighEnd(c)
         /\ (Drawn(m)' <=> Drawn(m)) /\ Child(c, m)' = Child(c, m)
<1>1. Worth(c)' = Worth(c)
  BY FixedValue DEF Worth
<1>2. Drawn(Child(c.node, m))' <=> Drawn(Child(c.node, m))
  BY DEF Fixed, Drawn, Child
<1>3. Child(c.node, m)' = Child(c.node, m)
  BY DEF Fixed, Child
<1>4. MinimaxValue(Child(c.node, m), DepthBelow(c), c.ply + 1)'
        = MinimaxValue(Child(c.node, m), DepthBelow(c), c.ply + 1)
  BY DEF Fixed, Child, MinimaxValue, MinimaxAt, QuiescenceValue, QuiescenceAt, WorthOf, Resolving, MaxOf,
       Nodes, Legal, Child, HasCheck, Drawn, Eval, On, NonQuiet, GoodCapture, Plies, Depths
<1>5. MoveWorth(c, m)' = MoveWorth(c, m)
  BY <1>2, <1>4 DEF MoveWorth
<1>6. (StandsPat(c)' <=> StandsPat(c)) /\ Candidates(c)' = Candidates(c)
      /\ (IsCall(c)' <=> IsCall(c)) /\ LowEnd(c)' = LowEnd(c) /\ HighEnd(c)' = HighEnd(c)
      /\ (Drawn(m)' <=> Drawn(m)) /\ Child(c, m)' = Child(c, m)
  BY DEF Fixed, StandsPat, Candidates, Resolving, IsCall, Nodes, LowEnd, HighEnd, On, Legal,
         HasCheck, NonQuiet, GoodCapture, Drawn, Child
<1> QED BY <1>1, <1>5, <1>6

LEMMA FixedFrame ==
  ASSUME Fixed, NEW f, NEW left
  PROVE  FrameOK(f, left)' <=> FrameOK(f, left)
<1> DEFINE c == f.call
<1>1. /\ Worth(c)' = Worth(c) /\ \A m : MoveWorth(c, m)' = MoveWorth(c, m)
      /\ (StandsPat(c)' <=> StandsPat(c)) /\ Candidates(c)' = Candidates(c)
      /\ (IsCall(c)' <=> IsCall(c)) /\ LowEnd(c)' = LowEnd(c) /\ HighEnd(c)' = HighEnd(c)
  BY FixedWorth
<1>2. EnteredOK(f)' <=> EnteredOK(f)
  BY <1>1 DEF Fixed, EnteredOK, On
<1>3. FreshOK(f)' <=> FreshOK(f)
  BY <1>1 DEF FreshOK
<1>4. BestOK(f, left)' <=> BestOK(f, left)
  <2>1. Done(f, left)' = Done(f, left)
    BY <1>1 DEF Done
  <2>2. Eval(c.node)' = Eval(c.node) /\ NonQuiet(c.node)' = NonQuiet(c.node)
    BY DEF Fixed, Eval, NonQuiet
  <2>3. (\A m \in Done(f, left) : MoveWorth(c, m) <= f.bestNodeValue)'
          <=> (\A m \in Done(f, left) : MoveWorth(c, m) <= f.bestNodeValue)
    BY <1>1, <2>1
  <2> QED BY <1>1, <2>2, <2>3 DEF BestOK
<1>5. MoveOK(f)' <=> MoveOK(f)
  <2>1. Drawn(Child(c.node, f.move))' <=> Drawn(Child(c.node, f.move))
    BY DEF Fixed, Drawn, Child
  <2> QED BY <1>1, <2>1 DEF MoveOK
<1> QED BY <1>1, <1>2, <1>3, <1>4, <1>5 DEF FrameOK

LEMMA FixedReturn ==
  ASSUME Fixed, NEW f, NEW c, NEW v
  PROVE  /\ Thorough' <=> Thorough
         /\ Asked(f, c)' <=> Asked(f, c)
         /\ ValueOK(f, v)' <=> ValueOK(f, v)
         /\ ReturnedOK(c, v)' <=> ReturnedOK(c, v)
<1>1. Thorough' <=> Thorough
  BY DEF Fixed, Thorough, Exact, On
<1>2. Asked(f, c)' <=> Asked(f, c)
  BY FixedWorth DEF Asked
<1>3. ValueOK(f, v)' <=> ValueOK(f, v)
  <2>1. MoveWorth(f.call, f.move)' = MoveWorth(f.call, f.move)
    BY FixedWorth
  <2> QED BY <2>1 DEF ValueOK
<1>4. ReturnedOK(c, v)' <=> ReturnedOK(c, v)
  BY FixedWorth DEF Fixed, ReturnedOK, Nodes
<1> QED BY <1>1, <1>2, <1>3, <1>4

-----------------------------------------------------------------------------
(***************************************************************************)
(* The stack.                                                              *)
(***************************************************************************)
LEMMA OwnElements == ASSUME NEW S, NEW s \in Seq(S) PROVE IsStack(s)
<1> DEFINE D == {s[i] : i \in DOMAIN s}
<1>1. \A i \in 1 .. Len(s) : s[i] \in D
  OBVIOUS
<1>2. Len(s) \in Nat /\ DOMAIN s = 1 .. Len(s) /\ s = [i \in DOMAIN s |-> s[i]]
  OBVIOUS
<1> HIDE DEF D
<1>3. s \in [1 .. Len(s) -> D]
  BY <1>1, <1>2
<1>4. s \in Seq(D)
  BY <1>2, <1>3
<1> QED BY <1>4 DEF D, IsStack

LEMMA PopFacts ==
  ASSUME NEW s, IsStack(s), s # <<>>, NEW u, u = SubSeq(s, 1, Len(s) - 1),
         NEW S, \A i \in 1 .. Len(s) : s[i] \in S
  PROVE  /\ Len(s) \in Nat /\ Len(s) >= 1
         /\ Len(u) = Len(s) - 1 /\ u \in Seq(S)
         /\ \A i \in 1 .. Len(s) - 1 : u[i] = s[i]
<1>1. Len(s) \in Nat /\ Len(s) >= 1
  BY EmptySeq DEF IsStack
<1>2. 1 \in Int /\ Len(s) - 1 \in Int /\ \A i \in 1 .. Len(s) - 1 : s[i] \in S
  BY <1>1
<1>3. /\ u \in Seq(S)
      /\ Len(u) = IF 1 <= Len(s) - 1 THEN Len(s) - 1 - 1 + 1 ELSE 0
      /\ \A i \in 1 .. Len(s) - 1 - 1 + 1 : u[i] = s[1 + i - 1]
  BY <1>2, SubSeqProperties
<1>4. \A n \in Nat : n >= 1 => /\ (IF 1 <= n - 1 THEN n - 1 - 1 + 1 ELSE 0) = n - 1
                              /\ n - 1 - 1 + 1 = n - 1
                              /\ \A i \in 1 .. n - 1 : 1 + i - 1 = i
  OBVIOUS
<1>5. Len(u) = Len(s) - 1
  BY <1>1, <1>3, <1>4
<1>6. \A i \in 1 .. Len(s) - 1 : u[i] = s[i]
  BY <1>1, <1>3, <1>4
<1> QED BY <1>1, <1>3, <1>5, <1>6

Swapped(s, f, r) == r = Append(SubSeq(s, 1, Len(s) - 1), f)
Pushed(s, f, g, r) == r = SubSeq(s, 1, Len(s) - 1) \o <<f, g>>

LEMMA SwapFacts ==
  ASSUME NEW s, IsStack(s), s # <<>>, NEW f, NEW r, Swapped(s, f, r)
  PROVE  /\ Len(s) \in Nat /\ Len(s) >= 1 /\ Len(r) = Len(s) /\ IsStack(r)
         /\ \A i \in 1 .. Len(s) - 1 : r[i] = s[i]
         /\ r[Len(s)] = f
<1> DEFINE S == {s[i] : i \in 1 .. Len(s)} \cup {f}
           u == SubSeq(s, 1, Len(s) - 1)
<1>1. f \in S /\ \A i \in 1 .. Len(s) : s[i] \in S
  OBVIOUS
<1> HIDE DEF S
<1>2. /\ Len(s) \in Nat /\ Len(s) >= 1 /\ Len(u) = Len(s) - 1 /\ u \in Seq(S)
      /\ \A i \in 1 .. Len(s) - 1 : u[i] = s[i]
  BY <1>1, PopFacts
<1> HIDE DEF u
<1>3. /\ r \in Seq(S) /\ Len(r) = Len(u) + 1 /\ r[Len(u) + 1] = f
      /\ \A i \in 1 .. Len(u) : r[i] = u[i]
  BY <1>1, <1>2, AppendProperties DEF u, Swapped
<1>4. IsStack(r)
  BY <1>3, OwnElements
<1> QED BY <1>2, <1>3, <1>4

LEMMA PushFacts ==
  ASSUME NEW s, IsStack(s), s # <<>>, NEW f, NEW g, NEW r, Pushed(s, f, g, r)
  PROVE  /\ Len(s) \in Nat /\ Len(s) >= 1 /\ Len(r) = Len(s) + 1 /\ IsStack(r)
         /\ \A i \in 1 .. Len(s) - 1 : r[i] = s[i]
         /\ r[Len(s)] = f /\ r[Len(s) + 1] = g
<1> DEFINE S == {s[i] : i \in 1 .. Len(s)} \cup {f, g}
           u == SubSeq(s, 1, Len(s) - 1)
           p == <<f, g>>
<1>1. f \in S /\ g \in S /\ \A i \in 1 .. Len(s) : s[i] \in S
  OBVIOUS
<1> HIDE DEF S
<1>2. /\ Len(s) \in Nat /\ Len(s) >= 1 /\ Len(u) = Len(s) - 1 /\ u \in Seq(S)
      /\ \A i \in 1 .. Len(s) - 1 : u[i] = s[i]
  BY <1>1, PopFacts
<1>3. p \in Seq(S) /\ Len(p) = 2 /\ p[1] = f /\ p[2] = g
  BY <1>1
<1>4. r = u \o p
  BY DEF Pushed
<1> HIDE DEF u, p
<1>5. u \in Seq(S)
  BY <1>2
<1>6. /\ u \o p \in Seq(S) /\ Len(u \o p) = Len(u) + Len(p)
      /\ \A i \in 1 .. Len(u) + Len(p) : (u \o p)[i] = IF i <= Len(u) THEN u[i] ELSE p[i - Len(u)]
  BY <1>3, <1>5, ConcatProperties
<1> DEFINE n == Len(s)
           k == Len(u)
           l == Len(p)
           h == Len(r)
<1>7. /\ r \in Seq(S) /\ h = k + l /\ k = n - 1 /\ n \in Nat /\ n >= 1 /\ l = 2
      /\ \A i \in 1 .. k + l : r[i] = IF i <= k THEN u[i] ELSE p[i - k]
      /\ \A i \in 1 .. n - 1 : u[i] = s[i]
  BY <1>2, <1>3, <1>4, <1>6
<1>8. IsStack(r)
  BY <1>7, OwnElements
<1> HIDE DEF n, k, l, h
<1>9. k = n - 1 /\ l = 2 /\ h = n + 1 /\ 1 .. k + l = 1 .. n + 1
  BY <1>7
<1>10. \A i \in 1 .. n - 1 : i \in 1 .. n + 1 /\ i <= k
  BY <1>7
<1>11. n \in 1 .. n + 1 /\ ~(n <= n - 1) /\ n - (n - 1) = 1
       /\ n + 1 \in 1 .. n + 1 /\ ~(n + 1 <= n - 1) /\ n + 1 - (n - 1) = 2
  BY <1>7
<1>12. r[n] = p[1] /\ r[n + 1] = p[2]
  <2>1. \A i \in 1 .. n + 1 : r[i] = IF i <= n - 1 THEN u[i] ELSE p[i - (n - 1)]
    BY <1>7, <1>9
  <2>2. \A i \in 1 .. n + 1 : (i = n => i - (n - 1) = 1 /\ ~(i <= n - 1))
                             /\ (i = n + 1 => i - (n - 1) = 2 /\ ~(i <= n - 1))
    BY <1>7
  <2>3. \A i \in 1 .. n + 1 : (i = n => r[i] = p[1]) /\ (i = n + 1 => r[i] = p[2])
    BY <2>1, <2>2, Zenon
  <2> QED BY <1>11, <2>3
<1>13. \A i \in 1 .. n - 1 : r[i] = s[i]
  BY <1>7, <1>9, <1>10
<1> QED BY <1>2, <1>3, <1>8, <1>9, <1>12, <1>13 DEF n, h

(* The generators of the other plies stay. *)
Elsewhere(p) == \A q \in Plies : q # p => mg'[q].left = mg[q].left

LEMMA GeneratorFacts ==
  ASSUME IsGenerators(mg), NEW p \in Plies, NEW x, NEW y
  PROVE  /\ mg' = [mg EXCEPT ![p].left = x] \/ mg' = [mg EXCEPT ![p].left = x, ![p].pvMove = y]
              => IsGenerators(mg') /\ Elsewhere(p) /\ mg'[p].left = x
         /\ mg' = [mg EXCEPT ![p].killers = x] \/ mg' = mg
              => IsGenerators(mg') /\ Elsewhere(p) /\ mg'[p].left = mg[p].left
<1>1. ASSUME mg' = [mg EXCEPT ![p].left = x]
      PROVE  IsGenerators(mg') /\ Elsewhere(p) /\ mg'[p].left = x
  BY <1>1 DEF IsGenerators, Parts, Elsewhere
<1>2. ASSUME mg' = [mg EXCEPT ![p].left = x, ![p].pvMove = y]
      PROVE  IsGenerators(mg') /\ Elsewhere(p) /\ mg'[p].left = x
  BY <1>2 DEF IsGenerators, Parts, Elsewhere
<1>3. ASSUME mg' = [mg EXCEPT ![p].killers = x]
      PROVE  IsGenerators(mg') /\ Elsewhere(p) /\ mg'[p].left = mg[p].left
  BY <1>3 DEF IsGenerators, Parts, Elsewhere
<1>4. ASSUME mg' = mg PROVE IsGenerators(mg') /\ Elsewhere(p) /\ mg'[p].left = mg[p].left
  BY <1>4 DEF IsGenerators, Parts, Elsewhere
<1> QED BY <1>1, <1>2, <1>3, <1>4

LEMMA LeftIrrelevant ==
  ASSUME NEW f, NEW left, NEW other, f.pc \notin Looping, FrameOK(f, left)
  PROVE  FrameOK(f, other)
BY DEF FrameOK, Looping

(* The innermost frame, and those below it. *)
LEMMA TopFacts ==
  ASSUME SInv, Thorough, stack # <<>>
  PROVE  /\ Len(stack) \in Nat /\ Len(stack) >= 1
         /\ IsFrame(Top) /\ FrameOK(Top, mg[ply].left) /\ ply \in Plies
         /\ \A i \in 1 .. Len(stack) - 1 : Below(stack[i], Top)
<1>1. Len(stack) \in Nat /\ Len(stack) >= 1
  BY EmptySeq DEF SInv, ShapeOK, IsStack
<1>2. IsFrame(Top) /\ FrameOK(Top, mg[ply].left)
  BY <1>1 DEF SInv, FramesOK, Top, ply
<1>3. ply \in Plies
  BY <1>2 DEF FrameOK, IsCall, ply
<1>4. \A i \in 1 .. Len(stack) - 1 : Below(stack[i], Top)
  BY <1>1 DEF SInv, NestedOK, Top
<1> QED BY <1>1, <1>2, <1>3, <1>4

(* The frames below a step at ply q do not notice it. *)
LEMMA FramesKept ==
  ASSUME Fixed, SInv, Thorough, stack # <<>>, Elsewhere(ply),
         \A i \in 1 .. Len(stack) - 1 : stack'[i] = stack[i]
  PROVE  \A i \in 1 .. Len(stack) - 1 : \A f \in {stack'[i]} : \A left \in {mg'[f.call.ply].left} :
           IsFrame(f) /\ FrameOK(f, left)'
<1> SUFFICES ASSUME NEW i \in 1 .. Len(stack) - 1, NEW f, f = stack[i],
                    NEW left, left = mg'[f.call.ply].left
             PROVE  IsFrame(f) /\ FrameOK(f, left)'
  OBVIOUS
<1>1. i \in 1 .. Len(stack) /\ Len(stack) \in Nat
  BY TopFacts
<1>2. IsFrame(f) /\ FrameOK(f, mg[f.call.ply].left)
  BY <1>1 DEF SInv, FramesOK
<1>3. Below(f, Top)
  BY TopFacts
<1>4. FrameOK(f, left)
  <2>1. CASE f.pc = "iidSearched"
    BY <1>2, <2>1, LeftIrrelevant DEF Looping
  <2>2. CASE f.pc # "iidSearched"
    <3>1. f.call.ply < ply /\ f.call.ply \in Plies /\ ply \in Plies
      BY <1>2, <1>3, <2>2, TopFacts DEF Below, FrameOK, IsCall, ply
    <3>2. f.call.ply # ply
      BY <3>1, DepthFacts DEF Plies
    <3> QED BY <1>2, <3>1, <3>2 DEF Elsewhere
  <2> QED BY <2>1, <2>2
<1> QED BY <1>2, <1>4, FixedFrame

LEMMA AnswersNegated ==
  ASSUME NEW v \in Int, NEW t \in Int, NEW a \in Int, NEW b \in Int, Answers(v, -t, -b, -a)
  PROVE  Answers(-v, t, a, b)
BY DEF Answers

(***************************************************************************)
(* What keeps the invariant: a step of the innermost frame, a call from    *)
(* it, and its return.                                                     *)
(***************************************************************************)
Steady == Fixed /\ UNCHANGED stopSearchFlag

LEMMA Goes ==
  ASSUME Steady, SInv, Thorough, stack # <<>>, NEW f, Goto(f),
         IsFrame(f), FrameOK(f, mg'[f.call.ply].left),
         f.call.ply = ply, Worth(f.call) = Worth(Top.call),
         f.call.alpha = Top.call.alpha, f.call.beta = Top.call.beta,
         IsGenerators(mg'), Elsewhere(ply), ResultOK',
         ~stopSearchFlag => \A v \in {-result'.value} : ValueOK(f, v)
  PROVE  SInv'
<1> DEFINE n == Len(stack)
<1>1. /\ n \in Nat /\ n >= 1 /\ Len(stack') = n /\ IsStack(stack')
      /\ \A i \in 1 .. n - 1 : stack'[i] = stack[i]
      /\ stack'[n] = f
  <2>1. IsStack(stack) /\ Swapped(stack, f, stack')
    BY DEF Goto, Under, SInv, ShapeOK, Swapped
  <2> QED BY <2>1, SwapFacts
<1>2. Fixed
  BY DEF Steady
<1>3. \A i \in 1 .. n - 1 : \A g \in {stack'[i]} : \A left \in {mg'[g.call.ply].left} :
        IsFrame(g) /\ FrameOK(g, left)'
  BY <1>1, <1>2, FramesKept
<1>4. \A left \in {mg'[f.call.ply].left} : FrameOK(f, left)'
  BY <1>2, FixedFrame
<1> HIDE DEF n
<1>5. FramesOK'
  <2>1. \A i \in 1 .. n : i = n \/ i \in 1 .. n - 1
    BY <1>1
  <2> QED BY <1>1, <1>3, <1>4, <2>1 DEF FramesOK
<1>6. \A i \in 1 .. n - 1 : Below(stack[i], f)
  BY TopFacts DEF Below, n, ply
<1>7. \A i \in 1 .. n - 1 : \A g \in {stack[i]}, c \in {stack'[i + 1].call} : Asked(g, c)
  <2> SUFFICES ASSUME NEW i \in 1 .. n - 1, NEW g, g = stack[i] PROVE Asked(g, stack'[i + 1].call)
    OBVIOUS
  <2>1. Asked(g, stack[i + 1].call)
    BY DEF SInv, NestedOK, n
  <2>2. CASE i = n - 1
    <3>1. stack[i + 1] = Top /\ stack'[i + 1] = f
      BY <1>1, <2>2 DEF Top, n
    <3> QED BY <2>1, <3>1 DEF Asked
  <2>3. CASE i # n - 1
    <3>1. i + 1 \in 1 .. n - 1
      BY <1>1, <2>3
    <3> QED BY <1>1, <2>1, <3>1
  <2> QED BY <2>2, <2>3
<1>8. NestedOK'
  <2>1. ASSUME NEW j \in 1 .. n, NEW i \in 1 .. j - 1 PROVE Below(stack'[i], stack'[j])
    <3>1. i \in 1 .. n - 1 /\ stack'[i] = stack[i]
      BY <1>1
    <3>2. CASE j = n
      BY <1>1, <1>6, <3>1, <3>2
    <3>3. CASE j # n
      <4>1. j \in 1 .. n - 1
        BY <1>1, <3>3
      <4> QED BY <1>1, <3>1, <4>1 DEF SInv, NestedOK, n
    <3> QED BY <3>2, <3>3
  <2>2. \A i \in 1 .. n - 1 : \A g \in {stack'[i]}, c \in {stack'[i + 1].call} : Asked(g, c)'
    BY <1>1, <1>2, <1>7, FixedReturn
  <2> QED BY <1>1, <2>1, <2>2 DEF NestedOK, Below
<1>9. AnsweredOK'
  <2>1. ~stopSearchFlag => \A v \in {-result'.value} : ValueOK(f, v)'
    BY <1>2, FixedReturn
  <2>2. Top' = f
    BY <1>1 DEF Top
  <2> QED BY <2>1, <2>2 DEF AnsweredOK, Steady
<1>10. ShapeOK'
  BY <1>1 DEF ShapeOK, IsGenerators, IsStack
<1> QED BY <1>2, <1>5, <1>8, <1>9, <1>10 DEF SInv, Fixed

LEMMA Calls ==
  ASSUME Steady, SInv, Thorough, stack # <<>>, NEW f, NEW c, CallFrom(f, c),
         IsFrame(f), FrameOK(f, mg'[ply].left), f.call = Top.call, f.pc \in Waiting,
         IsCall(c), Asked(f, c), ply <= c.ply, f.pc # "iidSearched" => ply < c.ply,
         IsGenerators(mg'), Elsewhere(ply), result' = result
  PROVE  SInv'
<1> DEFINE n == Len(stack)
           g == Frame(c)
<1>1. /\ n \in Nat /\ n >= 1 /\ Len(stack') = n + 1 /\ IsStack(stack')
      /\ \A i \in 1 .. n - 1 : stack'[i] = stack[i]
      /\ stack'[n] = f /\ stack'[n + 1] = g
  <2>1. IsStack(stack) /\ Pushed(stack, f, g, stack')
    BY DEF CallFrom, Under, SInv, ShapeOK, Pushed
  <2> HIDE DEF g
  <2> QED BY <2>1, PushFacts
<1>2. Fixed
  BY DEF Steady
<1>3. \A i \in 1 .. n - 1 : \A h \in {stack'[i]} : \A left \in {mg'[h.call.ply].left} :
        IsFrame(h) /\ FrameOK(h, left)'
  BY <1>1, <1>2, FramesKept
<1>4. \A left \in {mg'[f.call.ply].left} : FrameOK(f, left)'
  BY <1>2, FixedFrame DEF ply
<1>5. IsFrame(g) /\ g.call = c /\ g.pc = "enter" /\ \A left : FrameOK(g, left)
  BY DEF IsFrame, Fields, Frame, FrameOK, Labels, Looping
<1>6. \A left : FrameOK(g, left)'
  <2> HIDE DEF g
  <2> QED BY <1>2, <1>5, FixedFrame
<1>7. f.call.ply = ply
  BY DEF ply
<1>8. ply \in Plies /\ c.ply \in Plies /\ \A i \in 1 .. n - 1 : stack[i].call.ply \in Plies
  <2>1. \A i \in 1 .. n - 1 : i \in 1 .. Len(stack)
    BY <1>1
  <2> QED BY <2>1, TopFacts DEF IsCall, SInv, FramesOK, FrameOK
<1> HIDE DEF n, g
<1>9. FramesOK'
  <2>1. \A i \in 1 .. n + 1 : i = n + 1 \/ i = n \/ i \in 1 .. n - 1
    BY <1>1
  <2> QED BY <1>1, <1>3, <1>4, <1>5, <1>6, <2>1 DEF FramesOK
<1>10. \A i \in 1 .. n - 1 : Below(stack[i], f) /\ Below(stack[i], g)
  <2> SUFFICES ASSUME NEW i \in 1 .. n - 1 PROVE Below(stack[i], f) /\ Below(stack[i], g)
    OBVIOUS
  <2>1. Below(stack[i], Top)
    BY TopFacts DEF n
  <2>2. /\ stack[i].pc \in Waiting /\ stack[i].call.ply <= ply
        /\ stack[i].pc # "iidSearched" => stack[i].call.ply < ply
    BY <2>1 DEF Below, ply
  <2>3. \A p \in Plies, q \in Plies, r \in Plies : (p <= q /\ q <= r => p <= r) /\ (p < q /\ q <= r => p < r)
    BY DepthFacts DEF Plies
  <2>4. stack[i].call.ply <= c.ply /\ (stack[i].pc # "iidSearched" => stack[i].call.ply < c.ply)
    BY <1>8, <2>2, <2>3
  <2> QED BY <1>5, <1>7, <2>2, <2>4 DEF Below
<1>11. Below(f, g)
  BY <1>5, <1>7 DEF Below
<1>12. NestedOK'
  <2>1. ASSUME NEW j \in 1 .. n + 1, NEW i \in 1 .. j - 1 PROVE Below(stack'[i], stack'[j])
    <3>1. i = n \/ i \in 1 .. n - 1
      BY <1>1
    <3>2. CASE j = n + 1
      BY <1>1, <1>10, <1>11, <3>1, <3>2
    <3>3. CASE j = n
      <4>1. i \in 1 .. n - 1
        BY <1>1, <3>3
      <4> QED BY <1>1, <1>10, <3>3, <4>1
    <3>4. CASE j # n + 1 /\ j # n
      <4>1. j \in 1 .. n - 1 /\ i \in 1 .. n - 1 /\ j \in 1 .. n
        BY <1>1, <3>4
      <4> QED BY <1>1, <4>1 DEF SInv, NestedOK, n
    <3> QED BY <3>2, <3>3, <3>4
  <2>2. ASSUME NEW i \in 1 .. n, NEW h, h = stack'[i] PROVE Asked(h, stack'[i + 1].call)
    <3>1. CASE i = n
      BY <1>1, <1>5, <2>2, <3>1
    <3>2. CASE i = n - 1
      <4>1. Asked(stack[i], Top.call)
        <5>1. i \in 1 .. n - 1 /\ stack[i + 1] = Top
          BY <1>1, <3>2 DEF Top, n
        <5> QED BY <5>1 DEF SInv, NestedOK, n
      <4>2. stack'[i + 1].call = Top.call /\ i \in 1 .. n - 1
        BY <1>1, <3>2
      <4> QED BY <1>1, <2>2, <4>1, <4>2
    <3>3. CASE i # n /\ i # n - 1
      <4>1. i \in 1 .. n - 1 /\ i + 1 \in 1 .. n - 1
        BY <1>1, <3>3
      <4>2. Asked(stack[i], stack[i + 1].call)
        BY <4>1 DEF SInv, NestedOK, n
      <4> QED BY <1>1, <2>2, <4>1, <4>2
    <3> QED BY <3>1, <3>2, <3>3
  <2>3. \A i \in 1 .. n : \A h \in {stack'[i]}, d \in {stack'[i + 1].call} : Asked(h, d)'
    BY <1>2, <2>2, FixedReturn
  <2>4. Len(stack') - 1 = n
    BY <1>1
  <2> QED BY <1>1, <2>1, <2>3, <2>4 DEF NestedOK, Below
<1>13. AnsweredOK'
  <2>1. Top' = g
    BY <1>1 DEF Top
  <2> QED BY <1>5, <2>1 DEF AnsweredOK, ValueOK
<1>14. ShapeOK'
  BY <1>1 DEF ShapeOK, IsGenerators, IsStack
<1>15. ResultOK'
  <2>1. \A d \in {result.call}, v \in {result.value} : ReturnedOK(d, v)'
    BY <1>2, FixedReturn DEF SInv, ResultOK
  <2> QED BY <2>1 DEF ResultOK
<1> QED BY <1>2, <1>9, <1>12, <1>13, <1>14, <1>15 DEF SInv, Fixed

LEMMA Returns ==
  ASSUME Steady, SInv, Thorough, stack # <<>>, NEW v, Return(v), UNCHANGED mg,
         ReturnedOK(Top.call, v), v = VALUE_NONE => stopSearchFlag
  PROVE  SInv'
<1> DEFINE n == Len(stack)
           S == {stack[i] : i \in 1 .. n}
<1>1. /\ n \in Nat /\ n >= 1 /\ Len(stack') = n - 1 /\ stack' \in Seq(S)
      /\ \A i \in 1 .. n - 1 : stack'[i] = stack[i]
  <2>1. \A i \in 1 .. n : stack[i] \in S
    OBVIOUS
  <2> HIDE DEF S
  <2> QED BY <2>1, PopFacts DEF Return, Under, SInv, ShapeOK
<1>2. Fixed
  BY DEF Steady
<1>3. IsStack(stack')
  <2> HIDE DEF S
  <2> QED BY <1>1, OwnElements
<1>4. \A i \in 1 .. n - 1 : \A h \in {stack'[i]} : \A left \in {mg'[h.call.ply].left} :
        IsFrame(h) /\ FrameOK(h, left)'
  <2>1. Elsewhere(ply)
    BY DEF Elsewhere
  <2> QED BY <1>1, <1>2, <2>1, FramesKept
<1> HIDE DEF n
<1>5. FramesOK'
  BY <1>1, <1>4 DEF FramesOK
<1>6. NestedOK'
  <2>1. ASSUME NEW j \in 1 .. n - 1, NEW i \in 1 .. j - 1 PROVE Below(stack'[i], stack'[j])
    <3>1. j \in 1 .. n /\ i \in 1 .. n - 1
      BY <1>1
    <3> QED BY <1>1, <3>1 DEF SInv, NestedOK, n
  <2>2. ASSUME NEW i \in 1 .. n - 1 - 1, NEW h, h = stack'[i] PROVE Asked(h, stack'[i + 1].call)
    <3>1. i \in 1 .. n - 1 /\ i + 1 \in 1 .. n - 1
      BY <1>1
    <3>2. Asked(stack[i], stack[i + 1].call)
      BY <3>1 DEF SInv, NestedOK, n
    <3> QED BY <1>1, <2>2, <3>1, <3>2
  <2>3. \A i \in 1 .. n - 1 - 1 : \A h \in {stack'[i]}, d \in {stack'[i + 1].call} : Asked(h, d)'
    BY <1>2, <2>2, FixedReturn
  <2> QED BY <1>1, <2>1, <2>3 DEF NestedOK, Below
<1>7. result' = [value |-> v, call |-> Top.call]
  BY DEF Return
<1>8. ResultOK'
  <2>1. \A c \in {Top.call} : ReturnedOK(c, v)'
    BY <1>2, FixedReturn
  <2> QED BY <1>7, <2>1 DEF ResultOK
<1>9. ShapeOK'
  BY <1>3 DEF ShapeOK, SInv, IsGenerators, IsStack
<1>10. AnsweredOK'
  <2> SUFFICES ASSUME ~stopSearchFlag, stack' # <<>>, NEW f, f = Top' PROVE ValueOK(f, -v)'
    BY <1>7 DEF AnsweredOK, Steady
  <2>1. n - 1 >= 1 /\ n - 1 \in 1 .. n - 1 /\ n \in 1 .. n /\ f = stack[n - 1] /\ stack[n] = Top
    <3>1. Len(stack') # 0
      BY <1>1, EmptySeq
    <3> QED BY <1>1, <3>1 DEF Top, n
  <2>2. IsFrame(f) /\ FrameOK(f, mg[f.call.ply].left)
    <3>1. n - 1 \in 1 .. n
      BY <2>1
    <3> QED BY <2>1, <3>1 DEF SInv, FramesOK, n
  <2>3. Asked(f, Top.call)
    <3>1. n - 1 + 1 = n
      BY <1>1
    <3>2. Asked(stack[n - 1], stack[n - 1 + 1].call)
      BY <2>1 DEF SInv, NestedOK, n
    <3> QED BY <2>1, <3>1, <3>2
  <2>4. CASE f.pc \in {"searched", "probed"}
    <3> DEFINE t == MoveWorth(f.call, f.move)
               a == f.alpha
               b == HighOf(f)
    <3>1. Worth(Top.call) = -t /\ Top.call.alpha = -b /\ Top.call.beta = -a
      BY <2>3, <2>4 DEF Asked
    <3>2. t \in Values /\ f.alpha \in Values /\ f.beta \in Values
      <4>1. f.move \in Candidates(f.call) /\ EnteredOK(f) /\ f.pc # "enter"
        BY <2>2, <2>4 DEF FrameOK, MoveOK, EnteredOK
      <4> QED BY <2>2, <4>1, NodeFacts DEF EnteredOK, SInv
    <3>3. v \in Values /\ Answers(v, Worth(Top.call), Top.call.alpha, Top.call.beta)
      <4>1. Top.call.node \in Nodes
        BY TopFacts DEF FrameOK, IsCall
      <4> QED BY <4>1 DEF ReturnedOK
    <3>4. t \in Int /\ a \in Int /\ b \in Int /\ v \in Int /\ -v \in Values
      <4>1. \A x \in Values : x \in Int /\ -x \in Values /\ x + 1 \in Int
        BY ValueFacts DEF Values
      <4> QED BY <3>2, <3>3, <4>1 DEF HighOf
    <3> HIDE DEF t, a, b
    <3>5. Answers(-v, t, a, b)
      BY <3>1, <3>3, <3>4, AnswersNegated
    <3>6. ValueOK(f, -v)
      BY <3>4, <3>5 DEF ValueOK, t, a, b
    <3> QED BY <1>2, <3>6, FixedReturn
  <2>5. CASE f.pc \notin {"searched", "probed"}
    BY <2>5 DEF ValueOK
  <2> QED BY <2>4, <2>5
<1> QED BY <1>2, <1>5, <1>6, <1>8, <1>9, <1>10 DEF SInv, Fixed

-----------------------------------------------------------------------------
(***************************************************************************)
(* Entering a node.                                                        *)
(***************************************************************************)
LEMMA NothingGuesses ==
  ASSUME Thorough
  PROVE  /\ ~On("RAZORING") /\ ~On("RFP") /\ ~On("NMP") /\ ~On("FP") /\ ~On("QFP") /\ ~On("LMR")
         /\ ~On("LMP") /\ ~On("EXTENSIONS") /\ ~On("QS_TT") /\ On("ALPHABETA")
         /\ \A f, g : ~Usable(Probe(f), g)
<1>1. \A x \in Guessing : ~On(x)
  BY DEF Thorough, Exact, On
<1>2. \A f, g : ~Usable(Probe(f), g)
  BY DEF Thorough, Usable, Probe
<1> QED BY <1>1, <1>2 DEF Guessing, Thorough

LEMMA SteadyFacts ==
  ASSUME UNCHANGED <<setting, stopSearchFlag>>
  PROVE  Steady
BY DEF setting, Steady, Fixed

LEMMA SameResult == ASSUME Fixed, ResultOK, result' = result PROVE ResultOK'
<1>1. \A d \in {result.call}, v \in {result.value} : ReturnedOK(d, v)'
  BY FixedReturn DEF ResultOK
<1> QED BY <1>1 DEF ResultOK

(* A step of the innermost frame that leaves its call alone. *)
LEMMA GoesOn ==
  ASSUME Steady, SInv, Thorough, stack # <<>>, NEW f, Goto(f),
         IsFrame(f), FrameOK(f, mg'[ply].left), f.call = Top.call, f.pc \notin {"searched", "probed"},
         IsGenerators(mg'), Elsewhere(ply), result' = result
  PROVE  SInv'
<1>1. f.call.ply = ply /\ Worth(f.call) = Worth(Top.call)
      /\ f.call.alpha = Top.call.alpha /\ f.call.beta = Top.call.beta
  BY DEF ply
<1>2. \A v : ValueOK(f, v)
  BY DEF ValueOK
<1>3. ResultOK'
  BY SameResult DEF Steady, SInv
<1> QED BY <1>1, <1>2, <1>3, Goes

LEMMA AtFacts ==
  ASSUME SInv, Thorough, NEW pc, At(pc)
  PROVE  /\ stack # <<>> /\ Top.pc = pc /\ IsFrame(Top) /\ FrameOK(Top, mg[ply].left)
         /\ Top.call.ply = ply /\ Top.call.node = node /\ Top.call.depth = depth
         /\ ply \in Plies /\ IsCall(Top.call) /\ IsGenerators(mg)
BY TopFacts DEF At, FrameOK, ply, node, depth, SInv, ShapeOK

LEMMA EnterFacts ==
  ASSUME SInv, Thorough, At("enter")
  PROVE  /\ Top.alpha = Top.call.alpha /\ Top.beta = Top.call.beta
         /\ Top.bestNodeValue = VALUE_NONE /\ Top.movesSearched = 0
         /\ Narrowed(Top).alpha = LowEnd(Top.call) /\ Narrowed(Top).beta = HighEnd(Top.call)
<1> DEFINE f == Top
<1>1. f = Frame(f.call) /\ IsFrame(f)
  BY AtFacts DEF FrameOK
<1> HIDE DEF f
<1>2. f.alpha = f.call.alpha /\ f.beta = f.call.beta /\ f.bestNodeValue = VALUE_NONE /\ f.movesSearched = 0
  BY <1>1 DEF Frame
<1>3. Narrowed(f).alpha = LowEnd(f.call) /\ Narrowed(f).beta = HighEnd(f.call)
  BY <1>1, <1>2 DEF Narrowed, LowEnd, HighEnd, IsFrame, Fields
<1> QED BY <1>2, <1>3 DEF f

LEMMA EnterQuiescenceStep ==
  ASSUME SInv, Thorough, EnterQuiescence
  PROVE  SInv'
<1> DEFINE c == QsearchCall(node, ply, Top.alpha, Top.beta, Top.call.isPv)
<1>1. At("enter") /\ Horizon(Top) /\ Goto(Frame(c)) /\ Steady /\ result' = result /\ mg' = mg
  BY SteadyFacts DEF EnterQuiescence
<1>2. c.fn = "qsearch" /\ c.node = node /\ c.depth = 0 /\ c.ply = ply
      /\ c.alpha = Top.alpha /\ c.beta = Top.beta
  BY DEF QsearchCall, SearchCall
<1> HIDE DEF c
<1>3. IsCall(Top.call) /\ c.alpha = Top.call.alpha /\ c.beta = Top.call.beta /\ stack # <<>>
      /\ c.node = Top.call.node /\ c.ply = Top.call.ply
  BY <1>1, <1>2, AtFacts, EnterFacts
<1>4. 0 \in Depths
  BY DepthFacts DEF Depths
<1>5. IsCall(c)
  BY <1>2, <1>3, <1>4 DEF IsCall
<1>6. Worth(c) = Worth(Top.call)
  <2>1. Top.call.depth = 0 \/ Top.call.ply >= MAX_DEPTH
    BY <1>1 DEF Horizon
  <2> QED BY <1>2, <1>3, <1>5, <2>1, HorizonFacts DEF SInv
<1> DEFINE g == Frame(c)
<1>7. IsFrame(g) /\ g.call = c /\ g.pc = "enter" /\ \A left : FrameOK(g, left)
  BY <1>5 DEF IsFrame, Fields, Frame, FrameOK, Labels, Looping
<1>8. ResultOK'
  BY <1>1, SameResult DEF Steady, SInv
<1>9. IsGenerators(mg') /\ Elsewhere(ply)
  BY <1>1, AtFacts, GeneratorFacts
<1>10. \A v : ValueOK(g, v)
  BY <1>7 DEF ValueOK
<1>11. Goto(g)
  BY <1>1
<1> HIDE DEF g
<1>12. g.call.ply = ply /\ Worth(g.call) = Worth(Top.call)
       /\ g.call.alpha = Top.call.alpha /\ g.call.beta = Top.call.beta
  BY <1>2, <1>3, <1>6, <1>7
<1> QED BY <1>1, <1>3, <1>7, <1>8, <1>9, <1>10, <1>11, <1>12, Goes

LEMMA SameAnswers == ASSUME NEW v \in Int, NEW a \in Int, NEW b \in Int PROVE Answers(v, v, a, b)
BY DEF Answers

(* A return with a value that answers the call, or with none. *)
LEMMA ReturnsValue ==
  ASSUME SInv, Thorough, NEW pc, At(pc), NEW v, Return(v), UNCHANGED <<setting, mg, stopSearchFlag>>,
         v \in Values, Answers(v, Worth(Top.call), Top.call.alpha, Top.call.beta)
  PROVE  SInv'
<1>1. v # VALUE_NONE
  BY ValueFacts DEF Values
<1>2. ReturnedOK(Top.call, v) /\ stack # <<>>
  BY <1>1, AtFacts DEF ReturnedOK, IsCall
<1>3. Steady
  BY SteadyFacts
<1> QED BY <1>1, <1>2, <1>3, Returns

LEMMA ReturnsNone ==
  ASSUME SInv, Thorough, stack # <<>>, Return(VALUE_NONE), stopSearchFlag,
         UNCHANGED <<setting, mg, stopSearchFlag>>
  PROVE  SInv'
<1>1. ReturnedOK(Top.call, VALUE_NONE)
  BY DEF ReturnedOK
<1> QED BY <1>1, SteadyFacts, Returns

LEMMA EvaluateOnlyStep == ASSUME SInv, Thorough, EvaluateOnly PROVE SInv'
<1>1. At("enter") /\ EvaluatesOnly(Top) /\ Return(Eval(node)) /\ UNCHANGED <<setting, mg, stopSearchFlag>>
  BY DEF EvaluateOnly
<1>2. IsCall(Top.call) /\ Top.call.node = node /\ game \in Games
  BY <1>1, AtFacts DEF SInv
<1>3. Worth(Top.call) = Eval(node) /\ Worth(Top.call) \in Reach(Top.call.ply)
  <2>1. Top.call.depth = 0
    BY <1>1, <1>2 DEF EvaluatesOnly, IsCall
  <2> QED BY <1>1, <1>2, <2>1, HorizonFacts DEF EvaluatesOnly
<1>4. Eval(node) \in Values /\ Eval(node) \in Int
  <2>1. Top.call.ply \in Nat /\ Top.call.ply <= MAX_DEPTH
    BY <1>2, DepthFacts DEF IsCall, Plies
  <2> QED BY <1>3, <2>1, ReachFacts
<1>5. Answers(Eval(node), Eval(node), Top.call.alpha, Top.call.beta)
  BY <1>2, <1>4, SameAnswers, WindowFacts
<1> QED BY <1>1, <1>3, <1>4, <1>5, ReturnsValue

LEMMA EnterStoppedStep == ASSUME SInv, Thorough, EnterStopped PROVE SInv'
BY ReturnsNone DEF EnterStopped, At

LEMMA MateDistanceCutStep == ASSUME SInv, Thorough, MateDistanceCut PROVE SInv'
<1>1. At("enter") /\ MateDistanceCuts(Narrowed(Top)) /\ Return(Narrowed(Top).alpha)
      /\ UNCHANGED <<setting, mg, stopSearchFlag>>
  BY DEF MateDistanceCut, Opening
<1>2. IsCall(Top.call) /\ game \in Games
  BY <1>1, AtFacts DEF SInv
<1>3. LowEnd(Top.call) >= HighEnd(Top.call) /\ Return(LowEnd(Top.call))
  BY <1>1, EnterFacts DEF MateDistanceCuts
<1>4. Answers(LowEnd(Top.call), Worth(Top.call), Top.call.alpha, Top.call.beta)
  BY <1>2, <1>3, HorizonFacts, ClosedWindow
<1>5. LowEnd(Top.call) \in Values
  BY <1>2, WindowFacts
<1> QED BY <1>1, <1>3, <1>4, <1>5, ReturnsValue

(* The node after the probe of the table. *)
LEMMA OpeningFacts ==
  ASSUME SInv, Thorough, Opening, ~MateDistanceCuts(Narrowed(Top)), NEW f, f = QsearchNode
  PROVE  /\ At("enter") /\ IsFrame(f) /\ f.call = Top.call /\ IsCall(f.call)
         /\ f.alpha = LowEnd(f.call) /\ f.beta = HighEnd(f.call) /\ f.alpha < f.beta
         /\ f.alpha \in Values /\ f.beta \in Values
         /\ f.bestNodeValue = VALUE_NONE /\ f.movesSearched = 0
         /\ f.call.ply < MAX_DEPTH /\ (f.call.fn = "search" => f.call.depth > 0)
         /\ (f.call.fn = "qsearch" => On("QUIESCENCE"))
         /\ StandsPat(f.call) => f.staticEval = Eval(f.call.node)
<1>1. At("enter") /\ ~Horizon(Top) /\ ~EvaluatesOnly(Top)
  BY DEF Opening
<1> DEFINE t == Top
           n == Narrowed(t)
           e == Probe(t)
           g == Looked(n, e)
<1>2. IsFrame(t) /\ IsCall(t.call) /\ t.bestNodeValue = VALUE_NONE /\ t.movesSearched = 0
      /\ n.alpha = LowEnd(t.call) /\ n.beta = HighEnd(t.call)
      /\ t.alpha = t.call.alpha /\ t.beta = t.call.beta
  BY <1>1, AtFacts, EnterFacts
<1>3. ~MateDistanceCuts(n) /\ f = Evaluated(g)
  BY DEF QsearchNode
<1> HIDE DEF t
<1>4. IsFrame(n) /\ n.call = t.call /\ n.bestNodeValue = VALUE_NONE /\ n.movesSearched = 0
  BY <1>2 DEF Narrowed, IsFrame, Fields
<1> HIDE DEF n, e
<1>5. /\ IsFrame(g) /\ g.call = n.call /\ g.bestNodeValue = n.bestNodeValue
      /\ g.movesSearched = n.movesSearched /\ g.alpha = n.alpha /\ g.beta = n.beta
      /\ g.staticEval = IF On("EVAL_TT") THEN e.eval ELSE VALUE_NONE
  BY <1>4 DEF Looked, IsFrame, Fields
<1> HIDE DEF g
<1>6. /\ IsFrame(f) /\ f.call = g.call /\ f.bestNodeValue = g.bestNodeValue
      /\ f.movesSearched = g.movesSearched /\ f.alpha = g.alpha /\ f.beta = g.beta
      /\ ~HasCheck(g.call.node) /\ g.staticEval = VALUE_NONE => f.staticEval = Eval(g.call.node)
  BY <1>3, <1>5 DEF Evaluated, IsFrame, Fields
<1>7. f.call.fn = "qsearch" => g.staticEval = VALUE_NONE
  <2>1. f.call.fn = "qsearch" => e = NoEntry
    <3>1. ~On("QS_TT")
      BY NothingGuesses
    <3> QED BY <1>4, <1>5, <1>6, <3>1 DEF Probe, e
  <2> QED BY <1>5, <2>1 DEF NoEntry
<1>8. f.alpha \in Values /\ f.beta \in Values /\ f.alpha = LowEnd(f.call) /\ f.beta = HighEnd(f.call)
  BY <1>2, <1>4, <1>5, <1>6, WindowFacts
<1>9. f.alpha < f.beta
  <2>1. CASE On("MDP")
    <3>1. ~(f.alpha >= f.beta)
      BY <1>3, <1>5, <1>6, <2>1 DEF MateDistanceCuts
    <3> QED BY <1>8, <3>1, ValueFacts DEF Values
  <2>2. CASE ~On("MDP")
    BY <1>2, <1>4, <1>5, <1>6, <1>8, <2>2, WindowFacts DEF LowEnd, HighEnd
  <2> QED BY <2>1, <2>2
<1>10. f.call = t.call /\ IsCall(f.call)
  BY <1>2, <1>4, <1>5, <1>6
<1>11. f.call.ply < MAX_DEPTH /\ (f.call.fn = "search" => f.call.depth > 0)
       /\ (f.call.fn = "qsearch" => On("QUIESCENCE"))
  <2> DEFINE c == f.call
  <2>1. c.fn \in {"search", "qsearch"} /\ c.ply \in 0 .. MAX_DEPTH /\ c.depth \in 0 .. MAX_DEPTH
    BY <1>10 DEF IsCall, Plies, Depths
  <2>2. ~(c.fn = "search" /\ (c.depth = 0 \/ c.ply >= MAX_DEPTH))
        /\ ~(c.fn = "qsearch" /\ (~On("QUIESCENCE") \/ c.ply >= MAX_DEPTH))
    BY <1>1, <1>10 DEF Horizon, EvaluatesOnly, t
  <2> HIDE DEF c
  <2>3. c.ply < MAX_DEPTH /\ (c.fn = "search" => c.depth > 0) /\ (c.fn = "qsearch" => On("QUIESCENCE"))
    BY <2>1, <2>2, DepthFacts
  <2> QED BY <2>3 DEF c
<1>12. StandsPat(f.call) => f.staticEval = Eval(f.call.node)
  BY <1>6, <1>7 DEF StandsPat
<1> QED BY <1>1, <1>2, <1>4, <1>5, <1>6, <1>8, <1>9, <1>10, <1>11, <1>12 DEF t

LEMMA ValuesAreOrdered ==
  /\ \A x \in Values : x \in Int /\ -x \in Values /\ x <= x /\ VALUE_NONE < x /\ x # VALUE_NONE
  /\ \A x \in Values \cup {VALUE_NONE} : x \in Int
BY ValueFacts DEF Values

LEMMA EnterSearchStep == ASSUME SInv, Thorough, EnterSearch PROVE SInv'
<1> DEFINE g == QsearchNode
           f == [g EXCEPT !.pc = "prune"]
<1>1. Opening /\ In("search") /\ ~MateDistanceCuts(Narrowed(Top)) /\ Goto(f)
      /\ Steady /\ result' = result /\ mg' = mg
  BY SteadyFacts DEF EnterSearch, QsearchNode
<1>2. /\ At("enter") /\ IsFrame(g) /\ g.call = Top.call /\ IsCall(g.call)
      /\ g.alpha = LowEnd(g.call) /\ g.beta = HighEnd(g.call) /\ g.alpha < g.beta
      /\ g.alpha \in Values /\ g.beta \in Values
      /\ g.bestNodeValue = VALUE_NONE /\ g.movesSearched = 0
      /\ g.call.ply < MAX_DEPTH /\ (g.call.fn = "search" => g.call.depth > 0)
      /\ (g.call.fn = "qsearch" => On("QUIESCENCE"))
  BY <1>1, OpeningFacts
<1>3. g.call.fn = "search" /\ stack # <<>> /\ IsGenerators(mg') /\ Elsewhere(ply)
  BY <1>1, <1>2, AtFacts, GeneratorFacts DEF In
<1> HIDE DEF g
<1>4. /\ IsFrame(f) /\ f.call = g.call /\ f.pc = "prune" /\ f.alpha = g.alpha /\ f.beta = g.beta
      /\ f.bestNodeValue = g.bestNodeValue /\ f.movesSearched = g.movesSearched
  BY <1>2 DEF IsFrame, Fields
<1> HIDE DEF f
<1>5. LowEnd(f.call) <= f.alpha
  BY <1>2, <1>4, ValuesAreOrdered
<1>6. EnteredOK(f) /\ FreshOK(f)
  BY <1>2, <1>3, <1>4, <1>5 DEF EnteredOK, FreshOK
<1>7. FrameOK(f, mg'[ply].left)
  BY <1>2, <1>4, <1>6 DEF FrameOK, Labels, Looping
<1> QED BY <1>1, <1>2, <1>3, <1>4, <1>7, GoesOn

LEMMA StandPatCutStep == ASSUME SInv, Thorough, StandPatCut PROVE SInv'
<1> DEFINE f == QsearchNode
           v == f.staticEval
           c == f.call
<1>1. Opening /\ In("qsearch") /\ ~MateDistanceCuts(Narrowed(Top)) /\ StandPat(f) /\ Return(v)
      /\ UNCHANGED <<setting, mg, stopSearchFlag>>
  BY DEF StandPatCut, OpeningQsearch
<1>2. /\ At("enter") /\ c = Top.call /\ IsCall(c)
      /\ f.beta = HighEnd(c) /\ f.alpha = LowEnd(c) /\ f.alpha < f.beta
      /\ f.alpha \in Values /\ f.beta \in Values
      /\ c.ply < MAX_DEPTH /\ (c.fn = "search" => c.depth > 0) /\ (c.fn = "qsearch" => On("QUIESCENCE"))
      /\ StandsPat(c) => f.staticEval = Eval(c.node)
  BY <1>1, OpeningFacts
<1>3. StandsPat(c) /\ v >= f.beta
  BY <1>1, <1>2 DEF StandsPat, StandPat, In
<1>4. v <= Worth(c) /\ Worth(c) \in Reach(c.ply)
  BY <1>2, <1>3, CallFacts DEF SInv
<1>5. v \in Values
  <2>1. c.ply \in Nat /\ c.ply <= MAX_DEPTH /\ c.node \in Nodes
    BY <1>2, DepthFacts DEF IsCall, Plies
  <2> QED BY <1>2, <1>3, <2>1, GameFacts, ReachFacts DEF SInv
<1>6. Worth(c) \in Int
  BY <1>2, <1>4, ReachFacts, DepthFacts DEF IsCall, Plies
<1>7. Answers(v, Worth(c), LowEnd(c), HighEnd(c)) /\ LowEnd(c) < HighEnd(c) /\ v \in Int
  <2> DEFINE a == f.alpha
             b == f.beta
             t == Worth(c)
  <2>1. a \in Int /\ b \in Int /\ v \in Int /\ t \in Int /\ a < b /\ v >= b /\ v <= t
    BY <1>2, <1>3, <1>4, <1>5, <1>6, ValuesAreOrdered
  <2> HIDE DEF a, b, v, t
  <2>2. Answers(v, t, a, b)
    BY <2>1 DEF Answers
  <2> QED BY <1>2, <2>1, <2>2 DEF a, b, t
<1>8. Answers(v, Worth(c), c.alpha, c.beta)
  <2> HIDE DEF v, c
  <2> QED BY <1>2, <1>4, <1>7, WidenedWindow
<1> HIDE DEF v, f
<1> QED BY <1>1, <1>2, <1>5, <1>8, ReturnsValue

(* The move loop starts with nothing done. *)
LEMMA LoopStarts ==
  ASSUME SInv, Thorough, NEW pc, At(pc), NEW h, StartLoop(h), UNCHANGED <<setting, result, stopSearchFlag>>,
         IsFrame(h), h.call = Top.call, EnteredOK(h), h.movesSearched = 0,
         h.bestNodeValue \in Values \cup {VALUE_NONE},
         ~StandsPat(h.call) => h.bestNodeValue = VALUE_NONE,
         StandsPat(h.call) => h.bestNodeValue = Eval(h.call.node),
         h.alpha = LowEnd(h.call) \/ h.alpha <= h.bestNodeValue
  PROVE  SInv'
<1> DEFINE c == h.call
           x == IF c.fn = "search" \/ HasCheck(c.node) THEN PseudoLegal(c.node) ELSE NonQuiet(c.node)
           y == IF On("TT_PV_MOVE_SORT") THEN h.ttMove ELSE MOVE_NONE
           f == [h EXCEPT !.pc = "moves"]
<1>1. stack # <<>> /\ c.ply = ply /\ ply \in Plies /\ IsGenerators(mg) /\ IsCall(c) /\ Steady /\ game \in Games
  BY AtFacts, SteadyFacts DEF SInv
<1>2. Goto(f) /\ mg' = [mg EXCEPT ![ply].left = x, ![ply].pvMove = y]
  BY <1>1 DEF StartLoop
<1>3. IsGenerators(mg') /\ Elsewhere(ply) /\ mg'[ply].left = x
  <2> HIDE DEF x, y
  <2> QED BY <1>1, <1>2, GeneratorFacts
<1>4. Candidates(c) \subseteq x
  <2>1. Candidates(c) \subseteq Legal(c.node)
    BY DEF Candidates, Resolving
  <2>2. c.fn = "search" \/ HasCheck(c.node) => x = PseudoLegal(c.node)
    OBVIOUS
  <2>3. ~(c.fn = "search" \/ HasCheck(c.node)) => Candidates(c) \subseteq x
    BY DEF Candidates, Resolving
  <2> QED BY <2>1, <2>2, <2>3 DEF PseudoLegal
<1>5. StandsPat(c) => x \subseteq NonQuiet(c.node)
  BY DEF StandsPat
<1> HIDE DEF x, c
<1>6. /\ IsFrame(f) /\ f.call = c /\ f.pc = "moves" /\ f.alpha = h.alpha /\ f.beta = h.beta
      /\ f.bestNodeValue = h.bestNodeValue /\ f.movesSearched = 0
  BY DEF IsFrame, Fields, c
<1> HIDE DEF f
<1>7. EnteredOK(f)
  BY <1>6 DEF EnteredOK, c
<1>8. f.bestNodeValue > LowEnd(c) => f.bestNodeValue <= Worth(c)
  <2>1. StandsPat(c) => Eval(c.node) <= Worth(c)
    BY <1>1, <1>6, <1>7, CallFacts DEF EnteredOK
  <2>2. LowEnd(c) \in Values /\ VALUE_NONE < LowEnd(c)
    BY <1>1, WindowFacts, ValuesAreOrdered
  <2>3. ~(VALUE_NONE > LowEnd(c))
    BY <2>2, ValueFacts DEF Values
  <2> QED BY <1>6, <2>1, <2>3 DEF c
<1>9. Done(f, x) = {}
  BY <1>4, <1>6 DEF Done, Pending
<1>10. StandsPat(c) => f.bestNodeValue >= Eval(c.node)
  <2>1. c.ply \in Nat /\ c.ply <= MAX_DEPTH /\ c.node \in Nodes
    BY <1>1, DepthFacts DEF IsCall, Plies
  <2>2. Eval(c.node) \in Int
    BY <1>1, <2>1, ReachFacts, GameFacts
  <2> QED BY <1>6, <2>2 DEF c
<1>11. BestOK(f, x)
  BY <1>5, <1>6, <1>8, <1>9, <1>10 DEF BestOK, c
<1>12. FrameOK(f, x)
  BY <1>1, <1>6, <1>7, <1>11 DEF FrameOK, Labels, Looping
<1>13. f.call = Top.call /\ result' = result
  BY <1>6 DEF c
<1> QED BY <1>1, <1>2, <1>3, <1>6, <1>12, <1>13, GoesOn

LEMMA EnterQsearchStep == ASSUME SInv, Thorough, EnterQsearch PROVE SInv'
<1> DEFINE f == QsearchNode
           g == [f EXCEPT !.bestNodeValue = f.staticEval,
                          !.alpha = IF On("STANDPAT") THEN Larger(@, f.staticEval) ELSE @]
           h == IF HasCheck(node) THEN f ELSE g
           c == f.call
           v == f.staticEval
<1>1. Opening /\ In("qsearch") /\ ~MateDistanceCuts(Narrowed(Top)) /\ ~StandPat(f) /\ StartLoop(h)
      /\ UNCHANGED <<setting, result, stopSearchFlag>>
  BY DEF EnterQsearch, OpeningQsearch
<1>2. /\ At("enter") /\ IsFrame(f) /\ c = Top.call /\ IsCall(c)
      /\ f.beta = HighEnd(c) /\ f.alpha = LowEnd(c) /\ f.alpha < f.beta
      /\ f.alpha \in Values /\ f.beta \in Values
      /\ f.bestNodeValue = VALUE_NONE /\ f.movesSearched = 0
      /\ c.ply < MAX_DEPTH /\ (c.fn = "search" => c.depth > 0) /\ (c.fn = "qsearch" => On("QUIESCENCE"))
      /\ StandsPat(c) => v = Eval(c.node)
  BY <1>1, OpeningFacts
<1>3. c.fn = "qsearch" /\ (StandsPat(c) <=> ~HasCheck(node)) /\ c.node = node
  BY <1>1, <1>2, AtFacts DEF In, StandsPat
<1>4. StandsPat(c) => v \in Values
  <2>1. c.ply \in Nat /\ c.ply <= MAX_DEPTH /\ c.node \in Nodes
    BY <1>2, DepthFacts DEF IsCall, Plies
  <2> QED BY <1>2, <2>1, GameFacts, ReachFacts DEF SInv
<1>5. StandsPat(c) /\ On("STANDPAT") => ~(v >= f.beta)
  BY <1>1, <1>3 DEF StandPat
<1> HIDE DEF f
<1>6. CASE HasCheck(node)
  <2>1. h = f
    BY <1>6
  <2> HIDE DEF h, c, v
  <2>2. EnteredOK(f)
    <3>1. LowEnd(c) <= f.alpha
      BY <1>2, ValuesAreOrdered
    <3> QED BY <1>2, <3>1 DEF EnteredOK, c
  <2>3. StartLoop(f) /\ ~StandsPat(c) /\ f.call = c
    BY <1>1, <1>3, <1>6, <2>1 DEF c
  <2> QED BY <1>1, <1>2, <2>2, <2>3, LoopStarts
<1>7. CASE ~HasCheck(node)
  <2>1. h = g
    BY <1>7
  <2>2. /\ IsFrame(g) /\ g.call = c /\ g.beta = f.beta /\ g.movesSearched = 0 /\ g.bestNodeValue = v
        /\ g.alpha = IF On("STANDPAT") THEN Larger(f.alpha, v) ELSE f.alpha
    BY <1>2 DEF IsFrame, Fields
  <2>3. StandsPat(c) /\ v = Eval(c.node) /\ v \in Values
    BY <1>2, <1>3, <1>4, <1>7
  <2> DEFINE a == f.alpha
             b == f.beta
             d == g.alpha
  <2>4. a \in Values /\ b \in Values /\ a < b /\ (On("STANDPAT") => ~(v >= b))
        /\ d = (IF On("STANDPAT") THEN Larger(a, v) ELSE a) /\ a = LowEnd(c)
    BY <1>2, <1>5, <2>2, <2>3
  <2> HIDE DEF h, g, c, v, a, b, d
  <2>5. d \in Values /\ a <= d /\ d < b /\ (d = a \/ d <= v)
    BY <2>3, <2>4, ValueFacts DEF Larger, Values
  <2>6. EnteredOK(g)
    BY <1>2, <2>2, <2>4, <2>5 DEF EnteredOK, a, b, d
  <2>7. g.alpha = LowEnd(g.call) \/ g.alpha <= g.bestNodeValue
    BY <2>2, <2>4, <2>5 DEF d
  <2>8. StartLoop(g) /\ g.call = Top.call
    BY <1>1, <1>2, <2>1, <2>2
  <2> QED BY <1>1, <1>2, <2>2, <2>3, <2>6, <2>7, <2>8, LoopStarts
<1> QED BY <1>6, <1>7

-----------------------------------------------------------------------------
(***************************************************************************)
(* Before the move loop.                                                   *)
(***************************************************************************)
LEMMA NoNullMoveStep == ASSUME SInv, Thorough, NoNullMove PROVE SInv'
<1> DEFINE t == Top
           f == [t EXCEPT !.pc = "iid"]
<1>1. At("prune") /\ Goto(f) /\ Steady /\ result' = result /\ mg' = mg
  BY SteadyFacts DEF NoNullMove
<1>2. /\ stack # <<>> /\ t.pc = "prune" /\ IsFrame(t) /\ FrameOK(t, mg[ply].left)
      /\ IsGenerators(mg') /\ Elsewhere(ply)
  BY <1>1, AtFacts, GeneratorFacts
<1> HIDE DEF t
<1>3. /\ IsFrame(f) /\ f.call = t.call /\ f.pc = "iid" /\ f.alpha = t.alpha /\ f.beta = t.beta
      /\ f.bestNodeValue = t.bestNodeValue /\ f.movesSearched = t.movesSearched
  BY <1>2 DEF IsFrame, Fields
<1> HIDE DEF f
<1>4. FrameOK(f, mg'[ply].left)
  BY <1>2, <1>3 DEF FrameOK, EnteredOK, FreshOK, Labels, Looping
<1> QED BY <1>1, <1>2, <1>3, <1>4, GoesOn DEF t

LEMMA IidStep == ASSUME SInv, Thorough, Iid PROVE SInv'
<1> DEFINE t == Top
           f == [t EXCEPT !.pc = "iidSearched"]
           c == SearchCall(node, ReducedDepth(depth, IID_REDUCTION), ply,
                           Top.alpha, Top.beta, Top.call.isPv, Top.call.doNull)
<1>1. At("iid") /\ CallFrom(f, c) /\ Steady /\ result' = result /\ mg' = mg
  BY SteadyFacts DEF Iid
<1>2. /\ stack # <<>> /\ t.pc = "iid" /\ IsFrame(t) /\ FrameOK(t, mg[ply].left)
      /\ IsGenerators(mg') /\ Elsewhere(ply) /\ IsCall(t.call)
      /\ t.call.ply = ply /\ t.call.node = node /\ t.call.depth = depth /\ ply \in Plies
  BY <1>1, AtFacts, GeneratorFacts
<1>3. /\ c.fn = "search" /\ c.node = node /\ c.depth = ReducedDepth(depth, IID_REDUCTION)
      /\ c.ply = ply /\ c.alpha = t.alpha /\ c.beta = t.beta
  BY DEF SearchCall
<1> HIDE DEF t, c
<1>4. /\ IsFrame(f) /\ f.call = t.call /\ f.pc = "iidSearched" /\ f.alpha = t.alpha /\ f.beta = t.beta
      /\ f.bestNodeValue = t.bestNodeValue /\ f.movesSearched = t.movesSearched
  BY <1>2 DEF IsFrame, Fields
<1> HIDE DEF f
<1>5. EnteredOK(t)
  BY <1>2 DEF FrameOK
<1>6. FrameOK(f, mg'[ply].left)
  BY <1>2, <1>4 DEF FrameOK, EnteredOK, FreshOK, Labels, Looping, Waiting
<1>7. ReducedDepth(depth, IID_REDUCTION) \in Depths
  <2>1. depth \in 0 .. MAX_DEPTH /\ IID_REDUCTION \in Nat
    BY <1>2, SearchAssumption DEF IsCall, Depths
  <2> QED BY <2>1, DepthFacts DEF ReducedDepth, Larger, Depths
<1>8. IsCall(c)
  BY <1>2, <1>3, <1>5, <1>7 DEF IsCall, EnteredOK
<1>9. Asked(f, c) /\ f.pc \in Waiting
  BY <1>4 DEF Asked, Waiting
<1>10. ply <= c.ply
  BY <1>2, <1>3, DepthFacts DEF Plies
<1> QED BY <1>1, <1>2, <1>4, <1>6, <1>8, <1>9, <1>10, Calls DEF t

LEMMA ReductionStoppedStep == ASSUME SInv, Thorough, ReductionStopped PROVE SInv'
BY ReturnsNone DEF ReductionStopped, At

LEMMA FreshFacts ==
  ASSUME SInv, Thorough, NEW pc \in {"iid", "iidSearched"}, At(pc)
  PROVE  /\ IsFrame(Top) /\ EnteredOK(Top) /\ Top.movesSearched = 0 /\ Top.bestNodeValue = VALUE_NONE
         /\ ~StandsPat(Top.call) /\ Top.alpha = LowEnd(Top.call)
BY AtFacts DEF FrameOK, FreshOK, StandsPat

LEMMA StartMovesStep == ASSUME SInv, Thorough, StartMoves PROVE SInv'
<1>1. At("iid") /\ StartLoop(Top) /\ UNCHANGED <<setting, result, stopSearchFlag>>
  BY DEF StartMoves
<1> QED BY <1>1, FreshFacts, LoopStarts

LEMMA StartMovesAfterIidStep == ASSUME SInv, Thorough, StartMovesAfterIid PROVE SInv'
<1> DEFINE t == Top
           h == [t EXCEPT !.ttMove = IF pv[ply] = <<>> THEN @ ELSE Head(pv[ply])]
<1>1. At("iidSearched") /\ StartLoop(h) /\ UNCHANGED <<setting, result, stopSearchFlag>>
  BY DEF StartMovesAfterIid
<1>2. /\ IsFrame(t) /\ EnteredOK(t) /\ t.movesSearched = 0 /\ t.bestNodeValue = VALUE_NONE
      /\ ~StandsPat(t.call) /\ t.alpha = LowEnd(t.call)
  BY <1>1, FreshFacts
<1> HIDE DEF t
<1>3. /\ IsFrame(h) /\ h.call = t.call /\ h.alpha = t.alpha /\ h.beta = t.beta
      /\ h.bestNodeValue = t.bestNodeValue /\ h.movesSearched = t.movesSearched
  BY <1>2 DEF IsFrame, Fields
<1> HIDE DEF h
<1>4. EnteredOK(h)
  BY <1>2, <1>3 DEF EnteredOK
<1> QED BY <1>1, <1>2, <1>3, <1>4, LoopStarts DEF t

-----------------------------------------------------------------------------
(***************************************************************************)
(* The move loop.                                                          *)
(***************************************************************************)
LEMMA LoopFacts ==
  ASSUME SInv, Thorough, NEW pc \in {"moves", "searched", "probed"}, At(pc), NEW t, t = Top
  PROVE  /\ stack # <<>> /\ t.pc = pc /\ IsFrame(t) /\ IsCall(t.call)
         /\ FrameOK(t, mg[ply].left) /\ EnteredOK(t) /\ BestOK(t, mg[ply].left)
         /\ pc # "moves" => MoveOK(t)
         /\ t.call.ply = ply /\ t.call.node = node /\ t.call.depth = depth /\ ply \in Plies
         /\ IsGenerators(mg) /\ game \in Games
BY AtFacts DEF FrameOK, Looping, SInv

(* The move that the loop takes: what is skipped is no candidate. *)
LEMMA MoveFacts ==
  ASSUME SInv, Thorough, At("moves"), NEW m \in NextMoves
  PROVE  /\ m \in mg[ply].left
         /\ Optimistic(m) = Top.bestNodeValue
         /\ Skipped(m) => m \notin Candidates(Top.call)
         /\ ~Skipped(m) => m \in Candidates(Top.call)
         /\ LmrDepth(m) = depth - 1 /\ NewDepth(m) = depth - 1
<1>1. m \in mg[ply].left
  BY DEF NextMoves
<1>2. ~Futile(m) /\ ~TooLate(m) /\ ~QFutile(m)
  BY NothingGuesses DEF Futile, TooLate, QFutile
<1>3. Optimistic(m) = Top.bestNodeValue
  BY <1>2 DEF Optimistic
<1>4. LmrDepth(m) = depth - 1
  BY NothingGuesses DEF LmrDepth
<1>5. NewDepth(m) = depth - 1
  <2>1. Extension(m) = 0
    BY NothingGuesses DEF Extension
  <2>2. depth \in Int
    BY AtFacts, DepthFacts DEF IsCall, Depths
  <2> QED BY <2>1, <2>2 DEF NewDepth
<1>6. Skipped(m) <=> BadCapture(m) \/ m \notin Legal(node)
  BY <1>2 DEF Skipped
<1> DEFINE c == Top.call
<1>7. c.node = node /\ c.fn \in {"search", "qsearch"}
  BY AtFacts DEF IsCall
<1>8. Candidates(c) \subseteq Legal(node)
  BY <1>7 DEF Candidates, Resolving
<1>9. BadCapture(m) => m \notin Candidates(c)
  BY <1>7 DEF BadCapture, In, Candidates, Resolving
<1>10. ASSUME ~BadCapture(m), m \in Legal(node) PROVE m \in Candidates(c)
  <2>1. CASE c.fn = "search" \/ HasCheck(node)
    BY <1>7, <1>10, <2>1 DEF Candidates, Resolving
  <2>2. CASE ~(c.fn = "search" \/ HasCheck(node))
    <3>1. mg[ply].left \subseteq NonQuiet(node)
      <4>1. BestOK(Top, mg[ply].left) /\ StandsPat(c)
        BY <1>7, <2>2, LoopFacts DEF StandsPat
      <4> QED BY <1>7, <4>1 DEF BestOK
    <3> QED BY <1>1, <1>7, <1>10, <2>2, <3>1 DEF BadCapture, In, Candidates, Resolving
  <2> QED BY <2>1, <2>2
<1> QED BY <1>1, <1>3, <1>4, <1>5, <1>6, <1>8, <1>9, <1>10

(* The best value stays, and no more moves are done. *)
LEMMA BestKept ==
  ASSUME NEW t, NEW left, BestOK(t, left), NEW f, NEW rest,
         f.call = t.call, f.alpha = t.alpha, f.beta = t.beta, f.bestNodeValue = t.bestNodeValue,
         f.movesSearched = t.movesSearched, rest \subseteq left, Done(f, rest) \subseteq Done(t, left)
  PROVE  BestOK(f, rest)
<1>1. StandsPat(f.call) => rest \subseteq NonQuiet(f.call.node)
  BY DEF BestOK
<1>2. f.bestNodeValue < f.beta => \A m \in Done(f, rest) : MoveWorth(f.call, m) <= f.bestNodeValue
  BY DEF BestOK
<1> HIDE DEF Done
<1> QED BY <1>1, <1>2 DEF BestOK

LEMMA TakeFacts ==
  ASSUME IsGenerators(mg), ply \in Plies, NEW m, Take(m)
  PROVE  IsGenerators(mg') /\ Elsewhere(ply) /\ mg'[ply].left = mg[ply].left \ {m}
<1> DEFINE x == mg[ply].left \ {m}
<1>1. mg' = [mg EXCEPT ![ply].left = x]
  BY DEF Take
<1> HIDE DEF x
<1>2. IsGenerators(mg') /\ Elsewhere(ply) /\ mg'[ply].left = x
  BY <1>1, GeneratorFacts
<1> QED BY <1>2 DEF x

LEMMA SkipMoveStep == ASSUME SInv, Thorough, SkipMove PROVE SInv'
<1> DEFINE t == Top
<1>1. PICK m \in NextMoves : Skipped(m) /\ Take(m) /\ Goto([t EXCEPT !.bestNodeValue = Optimistic(m)])
  BY DEF SkipMove
<1>2. At("moves") /\ Steady /\ result' = result
  BY SteadyFacts DEF SkipMove
<1> DEFINE left == mg[ply].left
           rest == left \ {m}
           f == [t EXCEPT !.bestNodeValue = t.bestNodeValue]
<1>3. /\ stack # <<>> /\ t.pc = "moves" /\ IsFrame(t) /\ IsCall(t.call)
      /\ EnteredOK(t) /\ BestOK(t, left) /\ ply \in Plies /\ IsGenerators(mg)
  BY <1>2, LoopFacts
<1>4. m \notin Candidates(t.call) /\ Goto(f)
  BY <1>1, <1>2, MoveFacts
<1>5. IsGenerators(mg') /\ Elsewhere(ply) /\ mg'[ply].left = rest
  BY <1>1, <1>3, TakeFacts
<1> HIDE DEF t, left
<1>6. /\ IsFrame(f) /\ f.call = t.call /\ f.pc = t.pc /\ f.alpha = t.alpha /\ f.beta = t.beta
      /\ f.bestNodeValue = t.bestNodeValue /\ f.movesSearched = t.movesSearched
  BY <1>3 DEF IsFrame, Fields
<1> HIDE DEF f
<1>7. Done(f, rest) \subseteq Done(t, left)
  BY <1>3, <1>4, <1>6 DEF Done, Pending
<1>8. BestOK(f, rest)
  BY <1>3, <1>6, <1>7, BestKept
<1>9. FrameOK(f, rest)
  BY <1>3, <1>6, <1>8 DEF FrameOK, EnteredOK, Labels, Looping
<1> QED BY <1>2, <1>3, <1>4, <1>5, <1>6, <1>9, GoesOn DEF t

LEMMA NoMoreMovesStep == ASSUME SInv, Thorough, NoMoreMoves PROVE SInv'
<1> DEFINE t == Top
           f == [t EXCEPT !.pc = "end"]
           left == mg[ply].left
<1>1. At("moves") /\ left = {} /\ Goto(f) /\ Steady /\ result' = result /\ mg' = mg
  BY SteadyFacts DEF NoMoreMoves
<1>2. /\ stack # <<>> /\ t.pc = "moves" /\ IsFrame(t) /\ IsCall(t.call)
      /\ EnteredOK(t) /\ BestOK(t, left) /\ IsGenerators(mg') /\ Elsewhere(ply) /\ mg'[ply].left = left
  BY <1>1, LoopFacts, GeneratorFacts
<1> HIDE DEF t, left
<1>3. /\ IsFrame(f) /\ f.call = t.call /\ f.pc = "end" /\ f.alpha = t.alpha /\ f.beta = t.beta
      /\ f.bestNodeValue = t.bestNodeValue /\ f.movesSearched = t.movesSearched
  BY <1>2 DEF IsFrame, Fields
<1> HIDE DEF f
<1>4. Done(f, left) \subseteq Done(t, left)
  BY <1>2, <1>3 DEF Done, Pending
<1>5. BestOK(f, left)
  BY <1>2, <1>3, <1>4, BestKept
<1>6. FrameOK(f, mg'[ply].left)
  BY <1>1, <1>2, <1>3, <1>5 DEF FrameOK, EnteredOK, Labels, Looping
<1> QED BY <1>1, <1>2, <1>3, <1>6, GoesOn DEF t

LEMMA MoveStoppedStep == ASSUME SInv, Thorough, MoveStopped PROVE SInv'
BY ReturnsNone DEF MoveStopped, At, Interrupted

LEMMA LeaveStep == ASSUME SInv, Thorough, Leave PROVE SInv'
<1> DEFINE v == Ended(Top).bestNodeValue
<1>1. At("end") /\ Return(v) /\ Steady /\ mg' = mg
  BY SteadyFacts DEF Leave
<1>2. stack # <<>> /\ Top.pc = "end" /\ IsFrame(Top) /\ FrameOK(Top, mg[ply].left) /\ IsCall(Top.call)
      /\ game \in Games
  BY <1>1, AtFacts DEF SInv
<1>3. /\ v \in Values \cup {VALUE_NONE}
      /\ v # VALUE_NONE => Answers(v, Worth(Top.call), Top.call.alpha, Top.call.beta)
      /\ v = VALUE_NONE => stopSearchFlag
  BY <1>2, LeaveAnswers
<1>4. ReturnedOK(Top.call, v)
  BY <1>2, <1>3 DEF ReturnedOK, IsCall
<1> HIDE DEF v
<1> QED BY <1>1, <1>2, <1>3, <1>4, Returns

(* A move to search: the frame that waits for it. *)
IsEntered(f, m, pc) == f = [Entered(m) EXCEPT !.pc = pc]

LEMMA EnteredFacts ==
  ASSUME SInv, Thorough, At("moves"), NEW m \in NextMoves, ~Skipped(m), Take(m),
         NEW pc \in {"searched", "probed"},
         pc = "probed" => In("search") /\ ~Drawn(Child(node, m)),
         NEW f, IsEntered(f, m, pc)
  PROVE  /\ IsFrame(f) /\ f.call = Top.call /\ f.pc = pc /\ f.alpha = Top.alpha /\ f.beta = Top.beta
         /\ f.move = m /\ m \in Candidates(Top.call) /\ FrameOK(f, mg'[ply].left)
         /\ IsGenerators(mg') /\ Elsewhere(ply) /\ stack # <<>> /\ EnteredOK(f)
         /\ NewDepth(m) = depth - 1 /\ LmrDepth(m) = depth - 1
<1> DEFINE t == Top
           left == mg[ply].left
           rest == left \ {m}
           g == Entered(m)
<1>1. /\ stack # <<>> /\ t.pc = "moves" /\ IsFrame(t) /\ IsCall(t.call) /\ t.call.depth = depth
      /\ EnteredOK(t) /\ BestOK(t, left) /\ ply \in Plies /\ IsGenerators(mg) /\ t.call.node = node
  BY LoopFacts
<1>2. /\ m \in left /\ m \in Candidates(t.call)
      /\ LmrDepth(m) = depth - 1 /\ NewDepth(m) = depth - 1
  BY MoveFacts
<1>3. IsGenerators(mg') /\ Elsewhere(ply) /\ mg'[ply].left = rest
  BY <1>1, TakeFacts
<1>4. /\ g = [t EXCEPT !.move = m, !.newDepth = depth - 1, !.lmrDepth = depth - 1]
      /\ f = [g EXCEPT !.pc = pc]
  BY <1>2 DEF Entered, IsEntered
<1> HIDE DEF t, left, g
<1>5. /\ IsFrame(g) /\ g.call = t.call /\ g.alpha = t.alpha /\ g.beta = t.beta
      /\ g.bestNodeValue = t.bestNodeValue /\ g.movesSearched = t.movesSearched
      /\ g.move = m /\ g.newDepth = depth - 1 /\ g.lmrDepth = depth - 1
  BY <1>1, <1>4 DEF IsFrame, Fields
<1>6. /\ IsFrame(f) /\ f.call = t.call /\ f.alpha = t.alpha /\ f.beta = t.beta /\ f.pc = pc
      /\ f.bestNodeValue = t.bestNodeValue /\ f.movesSearched = t.movesSearched
      /\ f.move = m /\ f.newDepth = depth - 1 /\ f.lmrDepth = depth - 1
  <2> HIDE <1>4
  <2>1. f = [g EXCEPT !.pc = pc]
    BY <1>4
  <2> QED BY <1>5, <2>1 DEF IsFrame, Fields
<1>7. Done(f, rest) \subseteq Done(t, left)
  BY <1>1, <1>6 DEF Done, Pending
<1>8. BestOK(f, rest)
  BY <1>1, <1>6, <1>7, BestKept
<1>9. MoveOK(f)
  <2>1. In("search") => t.call.fn = "search"
    BY DEF In, t
  <2> QED BY <1>1, <1>2, <1>6, <2>1 DEF MoveOK, DepthBelow
<1>10. EnteredOK(f)
  BY <1>1, <1>6 DEF EnteredOK
<1>11. FrameOK(f, rest)
  BY <1>1, <1>6, <1>8, <1>9, <1>10 DEF FrameOK, Labels, Looping
<1> QED BY <1>1, <1>2, <1>3, <1>6, <1>10, <1>11 DEF t

LEMMA MoveToDrawStep == ASSUME SInv, Thorough, MoveToDraw PROVE SInv'
<1>1. PICK m \in NextMoves : /\ ~Skipped(m) /\ Drawn(Child(node, m)) /\ Take(m)
                             /\ Goto([Entered(m) EXCEPT !.pc = "searched"])
  BY DEF MoveToDraw
<1>2. At("moves") /\ Steady /\ result' = [NoResult EXCEPT !.value = VALUE_DRAW]
  BY SteadyFacts DEF MoveToDraw
<1> DEFINE f == [Entered(m) EXCEPT !.pc = "searched"]
<1>0. IsEntered(f, m, "searched")
  BY DEF IsEntered
<1> HIDE DEF f
<1>3. /\ IsFrame(f) /\ f.call = Top.call /\ f.pc = "searched" /\ f.alpha = Top.alpha /\ f.beta = Top.beta
      /\ f.move = m /\ FrameOK(f, mg'[ply].left)
      /\ IsGenerators(mg') /\ Elsewhere(ply) /\ stack # <<>> /\ EnteredOK(f)
  BY <1>0, <1>1, <1>2, EnteredFacts
<1>4. Goto(f) /\ Top.call.node = node /\ Top.call.ply = ply
  BY <1>0, <1>1, <1>2, AtFacts DEF IsEntered
<1>5. result'.value = 0 /\ result'.call = NoResult.call /\ NoResult.call.node = 0
  BY <1>2, ValueFacts DEF NoResult, SearchCall
<1>6. ResultOK'
  <2>1. 0 \notin Nodes /\ Nodes' = Nodes
    BY <1>2, GameFacts DEF SInv, Steady, Fixed, Nodes
  <2>2. 0 \in Values
    BY ValueFacts DEF Values
  <2>3. Values' = Values
    OBVIOUS
  <2> QED BY <1>5, <2>1, <2>2, <2>3 DEF ResultOK, ReturnedOK
<1>7. \A v \in {-result'.value} : ValueOK(f, v)
  <2>1. MoveWorth(f.call, f.move) = 0
    BY <1>1, <1>3, <1>4, ValueFacts DEF MoveWorth
  <2>2. f.alpha \in Int /\ HighOf(f) \in Int /\ 0 \in Values
    BY <1>3, ValueFacts, ValuesAreOrdered DEF EnteredOK, HighOf, Values
  <2>3. Answers(0, 0, f.alpha, HighOf(f))
    BY <2>2, SameAnswers
  <2> QED BY <1>5, <2>1, <2>2, <2>3 DEF ValueOK
<1> QED BY <1>2, <1>3, <1>4, <1>6, <1>7, Goes

(* The call for a move, and what its answer says of the move. *)
LEMMA ChildFacts ==
  ASSUME game \in Games, NEW f, IsCall(f.call), EnteredOK(f), f.move \in Candidates(f.call),
         f.pc \in {"searched", "probed"}, ~Drawn(Child(f.call.node, f.move)), NEW c,
         c.fn = f.call.fn, c.node = Child(f.call.node, f.move), c.depth = DepthBelow(f.call),
         c.ply = f.call.ply + 1, c.alpha = -HighOf(f), c.beta = -f.alpha
  PROVE  IsCall(c) /\ Asked(f, c) /\ f.call.ply < c.ply
<1>1. /\ f.call.node \in Nodes /\ f.call.ply \in 0 .. MAX_DEPTH /\ f.call.ply < MAX_DEPTH
      /\ f.call.depth \in 0 .. MAX_DEPTH /\ (f.call.fn = "search" => f.call.depth > 0)
      /\ f.call.fn \in {"search", "qsearch"}
  BY DEF IsCall, EnteredOK, Plies, Depths
<1>2. c.node \in Nodes
  <2>1. f.move \in Legal(f.call.node)
    BY DEF Candidates, Resolving
  <2> QED BY <1>1, <2>1, GameFacts
<1>3. c.ply \in Plies /\ f.call.ply < c.ply
  BY <1>1, DepthFacts DEF Plies
<1>4. c.depth \in Depths /\ (c.fn = "qsearch" => c.depth = 0)
  BY <1>1, DepthFacts DEF DepthBelow, Depths
<1>5. c.alpha \in Values /\ c.beta \in Values /\ c.alpha < c.beta
  <2> DEFINE a == f.alpha
             b == f.beta
             h == HighOf(f)
  <2>1. a \in Values /\ b \in Values /\ a < b /\ h \in {b, a + 1}
    BY DEF EnteredOK, HighOf
  <2> HIDE DEF a, b, h
  <2>2. -h \in Values /\ -a \in Values /\ -h < -a
    BY <2>1, ValueFacts DEF Values
  <2> QED BY <2>2 DEF a, b, h
<1>6. IsCall(c)
  BY <1>1, <1>2, <1>3, <1>4, <1>5 DEF IsCall
<1>7. Worth(c) = -MoveWorth(f.call, f.move)
  <2>1. MoveWorth(f.call, f.move) = -Worth(c)
    BY <1>1 DEF MoveWorth, Worth
  <2>2. Worth(c) \in Int
    BY <1>6, HorizonFacts, ReachFacts, DepthFacts DEF IsCall, Plies
  <2> QED BY <2>1, <2>2
<1> QED BY <1>3, <1>6, <1>7 DEF Asked

LEMMA WaitingCalls ==
  ASSUME SInv, Thorough, NEW pc, At(pc), NEW f, NEW c, CallFrom(f, c), f.pc \in {"searched", "probed"},
         UNCHANGED <<setting, result, stopSearchFlag>>,
         IsFrame(f), FrameOK(f, mg'[ply].left), f.call = Top.call, ~Drawn(Child(f.call.node, f.move)),
         IsGenerators(mg'), Elsewhere(ply),
         c.fn = f.call.fn, c.node = Child(f.call.node, f.move), c.depth = DepthBelow(f.call),
         c.ply = f.call.ply + 1, c.alpha = -HighOf(f), c.beta = -f.alpha
  PROVE  SInv'
<1>1. IsCall(f.call) /\ EnteredOK(f) /\ f.move \in Candidates(f.call)
  BY DEF FrameOK, MoveOK
<1>2. IsCall(c) /\ Asked(f, c) /\ f.call.ply < c.ply
  BY <1>1, ChildFacts DEF SInv
<1>3. stack # <<>> /\ f.call.ply = ply /\ ply \in Plies /\ c.ply \in Plies
  BY <1>2, AtFacts DEF IsCall
<1>4. ply < c.ply /\ ply <= c.ply
  BY <1>2, <1>3, DepthFacts DEF Plies
<1>5. f.pc \in Waiting
  BY DEF Waiting
<1> QED BY <1>2, <1>3, <1>4, <1>5, SteadyFacts, Calls

LEMMA MoveSearchedStep == ASSUME SInv, Thorough, MoveSearched PROVE SInv'
<1>1. PICK m \in NextMoves :
        /\ ~Skipped(m) /\ ~Drawn(Child(node, m)) /\ Take(m)
        /\ CallFrom([Entered(m) EXCEPT !.pc = "searched"], FullWindow(Child(node, m), NewDepth(m)))
  BY DEF MoveSearched
<1>2. At("moves") /\ In("search") /\ UNCHANGED <<setting, result, stopSearchFlag>>
  BY DEF MoveSearched
<1> DEFINE f == [Entered(m) EXCEPT !.pc = "searched"]
           c == FullWindow(Child(node, m), depth - 1)
<1>0. IsEntered(f, m, "searched")
  BY DEF IsEntered
<1> HIDE DEF f
<1>3. /\ IsFrame(f) /\ f.call = Top.call /\ f.pc = "searched" /\ f.alpha = Top.alpha /\ f.beta = Top.beta
      /\ f.move = m /\ FrameOK(f, mg'[ply].left)
      /\ IsGenerators(mg') /\ Elsewhere(ply) /\ NewDepth(m) = depth - 1
  BY <1>0, <1>1, <1>2, EnteredFacts
<1>4. CallFrom(f, c) /\ Top.call.node = node /\ Top.call.ply = ply /\ Top.call.depth = depth
  BY <1>0, <1>1, <1>2, <1>3, AtFacts DEF IsEntered
<1>5. c.fn = "search" /\ c.node = Child(node, m) /\ c.depth = depth - 1 /\ c.ply = ply + 1
      /\ c.alpha = -Top.beta /\ c.beta = -Top.alpha
  BY DEF FullWindow, SearchCall
<1> HIDE DEF c
<1>6. c.depth = DepthBelow(f.call) /\ c.fn = f.call.fn /\ HighOf(f) = f.beta
  BY <1>2, <1>3, <1>4, <1>5 DEF DepthBelow, In, HighOf
<1> QED BY <1>1, <1>2, <1>3, <1>4, <1>5, <1>6, WaitingCalls

LEMMA MoveQsearchedStep == ASSUME SInv, Thorough, MoveQsearched PROVE SInv'
<1>1. PICK m \in NextMoves :
        /\ ~Skipped(m) /\ ~Drawn(Child(node, m)) /\ Take(m)
        /\ CallFrom([Entered(m) EXCEPT !.pc = "searched"],
                    QsearchCall(Child(node, m), ply + 1, -Top.beta, -Top.alpha, Top.call.isPv))
  BY DEF MoveQsearched
<1>2. At("moves") /\ In("qsearch") /\ UNCHANGED <<setting, result, stopSearchFlag>>
  BY DEF MoveQsearched
<1> DEFINE f == [Entered(m) EXCEPT !.pc = "searched"]
           c == QsearchCall(Child(node, m), ply + 1, -Top.beta, -Top.alpha, Top.call.isPv)
<1>0. IsEntered(f, m, "searched")
  BY DEF IsEntered
<1> HIDE DEF f
<1>3. /\ IsFrame(f) /\ f.call = Top.call /\ f.pc = "searched" /\ f.alpha = Top.alpha /\ f.beta = Top.beta
      /\ f.move = m /\ FrameOK(f, mg'[ply].left) /\ IsGenerators(mg') /\ Elsewhere(ply)
  BY <1>0, <1>1, <1>2, EnteredFacts
<1>4. CallFrom(f, c) /\ Top.call.node = node /\ Top.call.ply = ply
  BY <1>0, <1>1, <1>2, AtFacts DEF IsEntered
<1>5. c.fn = "qsearch" /\ c.node = Child(node, m) /\ c.depth = 0 /\ c.ply = ply + 1
      /\ c.alpha = -Top.beta /\ c.beta = -Top.alpha
  BY DEF QsearchCall, SearchCall
<1> HIDE DEF c
<1>6. c.depth = DepthBelow(f.call) /\ c.fn = f.call.fn /\ HighOf(f) = f.beta
  BY <1>2, <1>3, <1>5 DEF DepthBelow, In, HighOf
<1> QED BY <1>1, <1>2, <1>3, <1>4, <1>5, <1>6, WaitingCalls

LEMMA MoveProbedStep == ASSUME SInv, Thorough, MoveProbed PROVE SInv'
<1>1. PICK m \in NextMoves :
        /\ ~Skipped(m) /\ ~Drawn(Child(node, m)) /\ Take(m)
        /\ CallFrom([Entered(m) EXCEPT !.pc = "probed"], NullWindow(Child(node, m), LmrDepth(m)))
  BY DEF MoveProbed
<1>2. At("moves") /\ In("search") /\ UNCHANGED <<setting, result, stopSearchFlag>>
  BY DEF MoveProbed
<1> DEFINE f == [Entered(m) EXCEPT !.pc = "probed"]
           c == NullWindow(Child(node, m), depth - 1)
<1>0. IsEntered(f, m, "probed")
  BY DEF IsEntered
<1> HIDE DEF f
<1>3. /\ IsFrame(f) /\ f.call = Top.call /\ f.pc = "probed" /\ f.alpha = Top.alpha /\ f.beta = Top.beta
      /\ f.move = m /\ FrameOK(f, mg'[ply].left) /\ EnteredOK(f)
      /\ IsGenerators(mg') /\ Elsewhere(ply) /\ LmrDepth(m) = depth - 1
  BY <1>0, <1>1, <1>2, EnteredFacts
<1>4. CallFrom(f, c) /\ Top.call.node = node /\ Top.call.ply = ply /\ Top.call.depth = depth
  BY <1>0, <1>1, <1>2, <1>3, AtFacts DEF IsEntered
<1>5. c.fn = "search" /\ c.node = Child(node, m) /\ c.depth = depth - 1 /\ c.ply = ply + 1
      /\ c.alpha = -Top.alpha - 1 /\ c.beta = -Top.alpha
  BY DEF NullWindow, SearchCall
<1> HIDE DEF c
<1>6. c.depth = DepthBelow(f.call) /\ c.fn = f.call.fn
  BY <1>2, <1>3, <1>4, <1>5 DEF DepthBelow, In
<1>7. c.alpha = -HighOf(f)
  <2>1. f.alpha \in Int
    BY <1>3, ValuesAreOrdered DEF EnteredOK
  <2>2. -f.alpha - 1 = -(f.alpha + 1)
    BY <2>1
  <2> QED BY <1>3, <1>5, <2>2 DEF HighOf
<1> QED BY <1>1, <1>2, <1>3, <1>4, <1>5, <1>6, <1>7, WaitingCalls

(* The move under way does not change. *)
LEMMA ProbedFacts ==
  ASSUME SInv, Thorough, At("probed"), mg' = mg, NEW f, f = [Top EXCEPT !.pc = "searched"]
  PROVE  /\ IsFrame(f) /\ f.call = Top.call /\ f.pc = "searched" /\ f.alpha = Top.alpha /\ f.beta = Top.beta
         /\ f.move = Top.move /\ f.newDepth = Top.newDepth /\ FrameOK(f, mg'[ply].left)
         /\ IsGenerators(mg') /\ Elsewhere(ply) /\ stack # <<>> /\ EnteredOK(f)
         /\ ~Drawn(Child(f.call.node, f.move))
         /\ Top.call.node = node /\ Top.call.ply = ply
         /\ Top.lmrDepth = Top.newDepth /\ f.call.fn = "search"
<1> DEFINE t == Top
           left == mg[ply].left
<1>1. /\ stack # <<>> /\ t.pc = "probed" /\ IsFrame(t) /\ IsCall(t.call) /\ MoveOK(t) /\ t.call.node = node
      /\ EnteredOK(t) /\ BestOK(t, left) /\ ply \in Plies /\ IsGenerators(mg) /\ t.call.ply = ply
  BY LoopFacts
<1>2. IsGenerators(mg') /\ Elsewhere(ply) /\ mg'[ply].left = left
  BY <1>1, GeneratorFacts
<1> HIDE DEF t, left
<1>3. /\ IsFrame(f) /\ f.call = t.call /\ f.alpha = t.alpha /\ f.beta = t.beta /\ f.pc = "searched"
      /\ f.bestNodeValue = t.bestNodeValue /\ f.movesSearched = t.movesSearched
      /\ f.move = t.move /\ f.newDepth = t.newDepth
  BY <1>1 DEF IsFrame, Fields, t
<1>4. Done(f, left) \subseteq Done(t, left)
  BY <1>1, <1>3 DEF Done, Pending
<1>5. BestOK(f, left)
  BY <1>1, <1>3, <1>4, BestKept
<1>6. MoveOK(f) /\ EnteredOK(f)
  BY <1>1, <1>3 DEF MoveOK, EnteredOK
<1>7. FrameOK(f, left)
  BY <1>1, <1>3, <1>5, <1>6 DEF FrameOK, Labels, Looping
<1>8. ~Drawn(Child(f.call.node, f.move)) /\ t.lmrDepth = t.newDepth /\ f.call.fn = "search"
  BY <1>1, <1>3 DEF MoveOK
<1> QED BY <1>1, <1>2, <1>3, <1>6, <1>7, <1>8 DEF t

LEMMA MoveResearchedStep == ASSUME SInv, Thorough, MoveResearched PROVE SInv'
<1> DEFINE f == [Top EXCEPT !.pc = "searched"]
           c == FullWindow(Child(node, Top.move), Top.newDepth)
<1>1. At("probed") /\ CallFrom(f, c) /\ UNCHANGED <<setting, result, stopSearchFlag>> /\ mg' = mg
  BY DEF MoveResearched
<1>2. /\ IsFrame(f) /\ f.call = Top.call /\ f.pc = "searched" /\ f.alpha = Top.alpha /\ f.beta = Top.beta
      /\ f.move = Top.move /\ f.newDepth = Top.newDepth /\ FrameOK(f, mg'[ply].left)
      /\ IsGenerators(mg') /\ Elsewhere(ply) /\ ~Drawn(Child(f.call.node, f.move))
      /\ Top.call.node = node /\ Top.call.ply = ply /\ f.call.fn = "search"
  BY <1>1, ProbedFacts
<1>3. c.fn = "search" /\ c.node = Child(node, Top.move) /\ c.depth = Top.newDepth /\ c.ply = ply + 1
      /\ c.alpha = -Top.beta /\ c.beta = -Top.alpha
  BY DEF FullWindow, SearchCall
<1> HIDE DEF f, c
<1>4. c.depth = DepthBelow(f.call) /\ c.fn = f.call.fn /\ HighOf(f) = f.beta
  BY <1>2, <1>3 DEF HighOf, FrameOK, MoveOK
<1> QED BY <1>1, <1>2, <1>3, <1>4, WaitingCalls

(* What the loop knows when the search of a move has come back. *)
LEMMA AnsweredFacts ==
  ASSUME SInv, Thorough, NEW pc \in {"searched", "probed"}, At(pc), ~stopSearchFlag, NEW t, t = Top
  PROVE  /\ t.move \in Candidates(t.call) /\ value \in Values
         /\ MoveWorth(t.call, t.move) \in Values /\ Worth(t.call) \in Values
         /\ MoveWorth(t.call, t.move) <= Worth(t.call)
         /\ Answers(value, MoveWorth(t.call, t.move), t.alpha, HighOf(t))
         /\ t.alpha \in Values /\ t.beta \in Values /\ t.alpha < t.beta
         /\ LowEnd(t.call) \in Values /\ LowEnd(t.call) <= t.alpha
         /\ t.bestNodeValue \in Values \cup {VALUE_NONE} /\ t.movesSearched \in Nat
<1>1. /\ stack # <<>> /\ t.pc = pc /\ FrameOK(t, mg[ply].left) /\ EnteredOK(t) /\ BestOK(t, mg[ply].left)
      /\ MoveOK(t) /\ game \in Games /\ IsCall(t.call)
  BY LoopFacts
<1>2. ValueOK(t, value)
  BY <1>1 DEF SInv, AnsweredOK, value
<1>3. value \in Values /\ Answers(value, MoveWorth(t.call, t.move), t.alpha, HighOf(t))
  BY <1>1, <1>2 DEF ValueOK
<1>4. t.move \in Candidates(t.call) /\ t.pc # "enter"
  BY <1>1 DEF MoveOK
<1>5. /\ Worth(t.call) \in Values /\ MoveWorth(t.call, t.move) \in Values
      /\ MoveWorth(t.call, t.move) <= Worth(t.call)
  BY <1>1, <1>4, NodeFacts
<1>6. LowEnd(t.call) \in Values
  BY <1>1, WindowFacts
<1> QED BY <1>1, <1>3, <1>4, <1>5, <1>6 DEF EnteredOK, BestOK

LEMMA ProbeSufficesStep == ASSUME SInv, Thorough, ProbeSuffices PROVE SInv'
<1> DEFINE t == Top
           f == [t EXCEPT !.pc = "searched"]
<1>1. At("probed") /\ (stopSearchFlag \/ ~Unsure) /\ Goto(f) /\ Steady /\ result' = result /\ mg' = mg
  BY SteadyFacts DEF ProbeSuffices
<1>2. /\ IsFrame(f) /\ f.call = t.call /\ f.pc = "searched" /\ f.alpha = t.alpha /\ f.beta = t.beta
      /\ f.move = t.move /\ FrameOK(f, mg'[ply].left)
      /\ IsGenerators(mg') /\ Elsewhere(ply) /\ stack # <<>> /\ t.call.ply = ply
      /\ t.lmrDepth = t.newDepth
  BY <1>1, ProbedFacts
<1>3. ResultOK'
  BY <1>1, SameResult DEF Steady, SInv
<1>4. t.pc = "probed"
  BY <1>1 DEF At
<1>5. ASSUME ~stopSearchFlag PROVE ValueOK(f, value)
  <2> DEFINE a == t.alpha
             b == t.beta
             w == MoveWorth(t.call, t.move)
             v == value
             d == t.newDepth
  <2>1. v \in Values /\ w \in Values /\ a \in Values /\ b \in Values /\ a < b /\ Answers(v, w, a, a + 1)
    BY <1>1, <1>4, <1>5, AnsweredFacts DEF HighOf
  <2>2. ~(v > a /\ v < b)
    BY <1>1, <1>5 DEF Unsure
  <2> HIDE DEF t, f, v
  <2>3. HighOf(f) = b /\ f.alpha = a /\ MoveWorth(f.call, f.move) = w
    BY <1>2 DEF HighOf
  <2> HIDE DEF a, b, w
  <2>4. Answers(v, w, a, b)
    BY <2>1, <2>2, ValueFacts DEF Answers, Values
  <2> QED BY <2>1, <2>3, <2>4 DEF ValueOK, v
<1> HIDE DEF f
<1>6. ~stopSearchFlag => \A v \in {-result'.value} : ValueOK(f, v)
  BY <1>1, <1>5 DEF value
<1>7. f.call.ply = ply /\ Worth(f.call) = Worth(Top.call)
      /\ f.call.alpha = Top.call.alpha /\ f.call.beta = Top.call.beta
  BY <1>2
<1> QED BY <1>1, <1>2, <1>3, <1>6, <1>7, Goes

(* The move is done, and its value is not above the best one. *)
LEMMA MoveDone ==
  ASSUME SInv, Thorough, At("searched"), ~stopSearchFlag, Steady, result' = result,
         IsGenerators(mg'), Elsewhere(ply), mg'[ply].left = mg[ply].left,
         NEW t, t = Top, NEW f, Goto(f), IsFrame(f), f.call = t.call, f.pc \in {"moves", "end"},
         f.beta = t.beta, f.movesSearched = t.movesSearched + 1,
         f.bestNodeValue \in Values, t.bestNodeValue <= f.bestNodeValue, value <= f.bestNodeValue,
         f.pc = "end" => f.bestNodeValue >= f.beta,
         f.alpha \in Values, LowEnd(t.call) <= f.alpha, f.alpha < f.beta,
         f.alpha = LowEnd(t.call) \/ f.alpha <= f.bestNodeValue,
         f.bestNodeValue > LowEnd(t.call) => f.bestNodeValue <= Worth(t.call)
  PROVE  SInv'
<1> DEFINE left == mg[ply].left
           v == value
           b == f.bestNodeValue
           o == t.bestNodeValue
           w == MoveWorth(t.call, t.move)
<1>1. /\ stack # <<>> /\ t.pc = "searched" /\ EnteredOK(t) /\ BestOK(t, left) /\ IsCall(t.call)
      /\ IsFrame(t) /\ ply \in Plies /\ game \in Games /\ FrameOK(t, left)
  BY LoopFacts
<1>2. /\ t.move \in Candidates(t.call) /\ v \in Values /\ w \in Values
      /\ Answers(v, w, t.alpha, t.beta) /\ t.alpha \in Values /\ t.beta \in Values /\ t.alpha < t.beta
      /\ o \in Values \cup {VALUE_NONE} /\ t.movesSearched \in Nat
  BY <1>1, AnsweredFacts DEF HighOf
<1>3. ASSUME b < f.beta, NEW m \in Done(f, left) PROVE MoveWorth(f.call, m) <= b
  <2>1. CASE m = t.move
    <3> DEFINE a == t.alpha
               h == t.beta
    <3>1. v \in Values /\ w \in Values /\ Answers(v, w, a, h) /\ a \in Values /\ h \in Values /\ a < h
          /\ b \in Values /\ v <= b /\ b < h
      BY <1>2, <1>3
    <3> HIDE DEF v, w, a, h, b
    <3>2. w <= b
      BY <3>1, ValueFacts DEF Answers, Values
    <3> QED BY <2>1, <3>2 DEF w
  <2>2. CASE m # t.move
    <3>1. m \in Done(t, left)
      BY <1>1, <2>2 DEF Done, Pending
    <3>2. o < t.beta
      <4> DEFINE h == t.beta
      <4>1. o \in Values \cup {VALUE_NONE} /\ b \in Values /\ h \in Values /\ o <= b /\ b < h
        BY <1>2, <1>3
      <4> HIDE DEF o, b, h
      <4>2. o < h
        BY <4>1, ValueFacts DEF Values
      <4> QED BY <4>2 DEF h
    <3>3. MoveWorth(t.call, m) <= o
      BY <1>1, <3>1, <3>2 DEF BestOK
    <3>4. MoveWorth(t.call, m) \in Values
      <4>1. m \in Candidates(t.call) /\ t.pc # "enter"
        BY <1>1, <3>1 DEF Done
      <4> QED BY <1>1, <4>1, NodeFacts
    <3> DEFINE x == MoveWorth(t.call, m)
    <3>5. x \in Values /\ x <= o /\ o <= b /\ o \in Values \cup {VALUE_NONE} /\ b \in Values
      BY <1>2, <3>3, <3>4
    <3> HIDE DEF o, b, x
    <3>6. x <= b
      BY <3>5, ValueFacts DEF Values
    <3> QED BY <3>6 DEF x
  <2> QED BY <2>1, <2>2
<1>4. b # VALUE_NONE /\ b \in Int
  <2> HIDE DEF b
  <2> QED BY ValuesAreOrdered DEF b
<1>5. f.movesSearched \in Nat /\ f.movesSearched > 0
  BY <1>2
<1>6. StandsPat(f.call) => b >= Eval(f.call.node)
  <2> SUFFICES ASSUME StandsPat(f.call) PROVE b >= Eval(f.call.node)
    OBVIOUS
  <2> DEFINE e == Eval(f.call.node)
  <2>1. o >= e /\ e \in Values
    BY <1>1, NodeFacts DEF BestOK
  <2>2. o \in Values \cup {VALUE_NONE} /\ b \in Values /\ o <= b
    BY <1>2
  <2> HIDE DEF o, b, e
  <2>3. b >= e
    BY <2>1, <2>2, ValueFacts DEF Values
  <2> QED BY <2>3 DEF e
<1>7. BestOK(f, left)
  <2>1. StandsPat(f.call) => left \subseteq NonQuiet(f.call.node)
    BY <1>1 DEF BestOK
  <2>2. Candidates(f.call) # {}
    BY <1>2
  <2>3. b < f.beta => \A m \in Done(f, left) : MoveWorth(f.call, m) <= b
    BY <1>3
  <2>4. ~(f.movesSearched = 0)
    BY <1>5
  <2> HIDE DEF left
  <2> QED BY <1>4, <1>5, <1>6, <2>1, <2>2, <2>3, <2>4 DEF BestOK
<1>8. EnteredOK(f)
  BY <1>1 DEF EnteredOK
<1>9. FrameOK(f, left)
  BY <1>1, <1>7, <1>8 DEF FrameOK, Labels, Looping
<1> QED BY <1>1, <1>9, GoesOn

LEMMA MoveNoBetterStep == ASSUME SInv, Thorough, MoveNoBetter PROVE SInv'
<1> DEFINE t == Top
           f == Undone
<1>1. /\ At("searched") /\ ~stopSearchFlag /\ value <= t.bestNodeValue /\ Goto(f)
      /\ Steady /\ result' = result /\ mg' = mg
  BY SteadyFacts DEF MoveNoBetter, Interrupted
<1>2. /\ value \in Values /\ t.alpha \in Values /\ t.beta \in Values /\ t.alpha < t.beta
      /\ LowEnd(t.call) <= t.alpha /\ t.bestNodeValue \in Values \cup {VALUE_NONE}
  BY <1>1, AnsweredFacts
<1>3. IsFrame(t) /\ BestOK(t, mg[ply].left) /\ IsGenerators(mg') /\ Elsewhere(ply)
      /\ mg'[ply].left = mg[ply].left
  BY <1>1, LoopFacts, GeneratorFacts
<1>4. f = [t EXCEPT !.pc = "moves", !.movesSearched = @ + 1]
  BY DEF Undone
<1>5. t = Top
  OBVIOUS
<1> HIDE DEF t, f
<1>6. /\ IsFrame(f) /\ f.call = t.call /\ f.pc = "moves" /\ f.alpha = t.alpha /\ f.beta = t.beta
      /\ f.bestNodeValue = t.bestNodeValue /\ f.movesSearched = t.movesSearched + 1
  BY <1>3, <1>4 DEF IsFrame, Fields
<1>7. t.bestNodeValue \in Values /\ t.bestNodeValue <= t.bestNodeValue
  <2> DEFINE o == t.bestNodeValue
             v == value
  <2>1. v \in Values /\ o \in Values \cup {VALUE_NONE} /\ v <= o
    BY <1>1, <1>2
  <2> HIDE DEF o, v
  <2>2. o \in Values /\ o <= o
    BY <2>1, ValueFacts DEF Values
  <2> QED BY <2>2 DEF o
<1>8. /\ t.alpha = LowEnd(t.call) \/ t.alpha <= t.bestNodeValue
      /\ t.bestNodeValue > LowEnd(t.call) => t.bestNodeValue <= Worth(t.call)
  BY <1>3 DEF BestOK
<1>9. f.pc # "end"
  BY <1>6
<1> QED BY <1>1, <1>2, <1>3, <1>5, <1>6, <1>7, <1>8, <1>9, MoveDone

(* The move is the best one so far. *)
LEMMA BetterFacts ==
  ASSUME SInv, Thorough, At("searched"), ~stopSearchFlag, value > Top.bestNodeValue, NEW t, t = Top,
         NEW g, g = Better
  PROVE  /\ IsFrame(g) /\ g.call = t.call /\ g.pc = "moves" /\ g.alpha = t.alpha /\ g.beta = t.beta
         /\ g.bestNodeValue = value /\ g.movesSearched = t.movesSearched + 1
         /\ value \in Values /\ value <= value /\ t.bestNodeValue <= value
         /\ t.alpha \in Values /\ t.beta \in Values /\ t.alpha < t.beta
         /\ LowEnd(t.call) \in Values /\ LowEnd(t.call) <= t.alpha
         /\ (value > t.alpha => value <= Worth(t.call))
         /\ (value <= t.alpha => t.alpha = LowEnd(t.call))
<1>1. IsFrame(t) /\ BestOK(t, mg[ply].left) /\ t.pc = "searched"
  BY LoopFacts
<1> DEFINE v == value
           o == t.bestNodeValue
           a == t.alpha
           b == t.beta
           w == MoveWorth(t.call, t.move)
           u == Worth(t.call)
           l == LowEnd(t.call)
<1>2. /\ v \in Values /\ w \in Values /\ u \in Values /\ w <= u /\ Answers(v, w, a, b)
      /\ a \in Values /\ b \in Values /\ a < b /\ l \in Values /\ l <= a
      /\ o \in Values \cup {VALUE_NONE} /\ v > o
  BY <1>1, AnsweredFacts DEF HighOf
<1>3. a = l \/ a <= o
  BY <1>1 DEF BestOK
<1> HIDE DEF v, o, a, b, w, u, l
<1>4. v <= v /\ o <= v /\ (v > a => v <= u) /\ (v <= a => a = l)
  BY <1>2, <1>3, ValueFacts DEF Answers, Values
<1>5. /\ IsFrame(g) /\ g.call = t.call /\ g.pc = "moves" /\ g.alpha = t.alpha /\ g.beta = t.beta
      /\ g.bestNodeValue = value /\ g.movesSearched = t.movesSearched + 1
  <2>1. g = [[t EXCEPT !.pc = "moves", !.movesSearched = @ + 1]
               EXCEPT !.bestNodeValue = value, !.bestNodeMove = t.move]
    BY DEF Better, Undone
  <2> QED BY <1>1, <2>1 DEF IsFrame, Fields
<1> QED BY <1>2, <1>4, <1>5 DEF v, o, a, b, u, l

LEMMA MoveBestStep == ASSUME SInv, Thorough, MoveBest PROVE SInv'
<1> DEFINE t == Top
           f == Better
<1>1. /\ At("searched") /\ ~stopSearchFlag /\ value > t.bestNodeValue /\ value <= t.alpha
      /\ Goto(f) /\ Steady /\ result' = result /\ mg' = mg
  BY SteadyFacts DEF MoveBest, Interrupted
<1>2. t = Top /\ f = Better
  OBVIOUS
<1>3. IsGenerators(mg') /\ Elsewhere(ply) /\ mg'[ply].left = mg[ply].left
  BY <1>1, LoopFacts, GeneratorFacts
<1> HIDE DEF f
<1>4. /\ IsFrame(f) /\ f.call = t.call /\ f.pc = "moves" /\ f.alpha = t.alpha /\ f.beta = t.beta
      /\ f.bestNodeValue = value /\ f.movesSearched = t.movesSearched + 1
      /\ value \in Values /\ value <= value /\ t.bestNodeValue <= value
      /\ t.alpha \in Values /\ t.alpha < t.beta
      /\ LowEnd(t.call) \in Values /\ LowEnd(t.call) <= t.alpha /\ t.alpha = LowEnd(t.call)
  BY <1>1, <1>2, BetterFacts
<1>5. ~(value > LowEnd(t.call))
  <2> DEFINE v == value
             l == LowEnd(t.call)
  <2>1. v \in Values /\ l \in Values /\ v <= l
    BY <1>1, <1>4
  <2> HIDE DEF v, l
  <2>2. ~(v > l)
    BY <2>1, ValueFacts DEF Values
  <2> QED BY <2>2 DEF v, l
<1> HIDE DEF t
<1>6. f.pc # "end"
  BY <1>4
<1> QED BY <1>1, <1>2, <1>3, <1>4, <1>5, <1>6, MoveDone

LEMMA MoveRaisesAlphaStep == ASSUME SInv, Thorough, MoveRaisesAlpha PROVE SInv'
<1> DEFINE t == Top
           g == Better
           f == [g EXCEPT !.alpha = value, !.ttType = "EXACT"]
<1>1. /\ At("searched") /\ ~stopSearchFlag /\ value > t.bestNodeValue /\ value > t.alpha /\ ~Cuts
      /\ Goto(f) /\ Steady /\ result' = result /\ mg' = mg
  BY SteadyFacts DEF MoveRaisesAlpha, Interrupted
<1>2. t = Top /\ g = Better
  OBVIOUS
<1>3. IsGenerators(mg') /\ Elsewhere(ply) /\ mg'[ply].left = mg[ply].left
  BY <1>1, LoopFacts, GeneratorFacts
<1>4. ~(value >= t.beta)
  BY <1>1, NothingGuesses DEF Cuts
<1> HIDE DEF g
<1>5. /\ IsFrame(g) /\ g.call = t.call /\ g.pc = "moves" /\ g.beta = t.beta
      /\ g.bestNodeValue = value /\ g.movesSearched = t.movesSearched + 1
      /\ value \in Values /\ value <= value /\ t.bestNodeValue <= value
      /\ t.alpha \in Values /\ t.beta \in Values
      /\ LowEnd(t.call) \in Values /\ LowEnd(t.call) <= t.alpha /\ value <= Worth(t.call)
  BY <1>1, <1>2, BetterFacts
<1>6. LowEnd(t.call) <= value /\ value < t.beta
  <2> DEFINE v == value
             l == LowEnd(t.call)
             a == t.alpha
             b == t.beta
  <2>1. v \in Values /\ l \in Values /\ a \in Values /\ b \in Values /\ v > a /\ l <= a /\ ~(v >= b)
    BY <1>1, <1>4, <1>5
  <2> HIDE DEF v, l, a, b
  <2>2. l <= v /\ v < b
    BY <2>1, ValueFacts DEF Values
  <2> QED BY <2>2 DEF v, l, b
<1> HIDE DEF t
<1>7. /\ IsFrame(f) /\ f.call = t.call /\ f.pc = "moves" /\ f.alpha = value /\ f.beta = t.beta
      /\ f.bestNodeValue = value /\ f.movesSearched = t.movesSearched + 1
  BY <1>5 DEF IsFrame, Fields
<1> HIDE DEF f
<1>8. f.pc # "end"
  BY <1>7
<1> QED BY <1>1, <1>2, <1>3, <1>5, <1>6, <1>7, <1>8, MoveDone

LEMMA BetaCutStep == ASSUME SInv, Thorough, BetaCut PROVE SInv'
<1> DEFINE t == Top
           g == Better
           f == [g EXCEPT !.pc = "end", !.ttType = "BETA"]
<1>1. /\ At("searched") /\ ~stopSearchFlag /\ value > t.bestNodeValue /\ value > t.alpha /\ Cuts
      /\ Goto(f) /\ Steady /\ result' = result /\ mg' = storeKiller(t.move)
  BY SteadyFacts DEF BetaCut, Interrupted
<1>2. t = Top /\ g = Better /\ value >= t.beta
  BY <1>1 DEF Cuts
<1>3. IsGenerators(mg') /\ Elsewhere(ply) /\ mg'[ply].left = mg[ply].left
  <2>1. IsGenerators(mg) /\ ply \in Plies
    BY <1>1, LoopFacts
  <2>2. mg' = mg \/ \E x : mg' = [mg EXCEPT ![ply].killers = x]
    BY <1>1 DEF storeKiller
  <2> QED BY <2>1, <2>2, GeneratorFacts
<1> HIDE DEF g
<1>4. /\ IsFrame(g) /\ g.call = t.call /\ g.alpha = t.alpha /\ g.beta = t.beta
      /\ g.bestNodeValue = value /\ g.movesSearched = t.movesSearched + 1
      /\ value \in Values /\ value <= value /\ t.bestNodeValue <= value
      /\ t.alpha \in Values /\ t.beta \in Values /\ t.alpha < t.beta
      /\ LowEnd(t.call) <= t.alpha /\ value <= Worth(t.call)
  BY <1>1, <1>2, BetterFacts
<1>5. t.alpha <= value
  <2> DEFINE v == value
             a == t.alpha
  <2>1. v \in Values /\ a \in Values /\ v > a
    BY <1>1, <1>4
  <2> HIDE DEF v, a
  <2>2. a <= v
    BY <2>1, ValueFacts DEF Values
  <2> QED BY <2>2 DEF v, a
<1> HIDE DEF t
<1>6. /\ IsFrame(f) /\ f.call = t.call /\ f.pc = "end" /\ f.alpha = t.alpha /\ f.beta = t.beta
      /\ f.bestNodeValue = value /\ f.movesSearched = t.movesSearched + 1
  BY <1>4 DEF IsFrame, Fields
<1> HIDE DEF f
<1> QED BY <1>1, <1>2, <1>3, <1>4, <1>5, <1>6, MoveDone

-----------------------------------------------------------------------------
(***************************************************************************)
(* The caller, the other threads, and all steps together.                  *)
(***************************************************************************)
LEMMA EmptyStack ==
  ASSUME stack = <<>>, IsGenerators(mg)
  PROVE  ShapeOK /\ FramesOK /\ NestedOK /\ AnsweredOK
<1>1. Len(stack) = 0
  OBVIOUS
<1>2. IsStack(stack)
  BY EmptySeq DEF IsStack
<1> QED BY <1>1, <1>2 DEF ShapeOK, FramesOK, NestedOK, AnsweredOK

LEMMA FreshGenerators == IsGenerators([p \in Plies |-> NewGenerator])
BY DEF IsGenerators, NewGenerator, Parts

LEMMA InitHolds == ASSUME Init PROVE SInv
<1>1. ShapeOK /\ FramesOK /\ NestedOK /\ AnsweredOK
  BY EmptyStack, FreshGenerators DEF Init
<1>2. result.value = VALUE_NONE
  BY DEF Init, NoResult
<1>3. ResultOK
  BY <1>2 DEF ResultOK, ReturnedOK
<1> QED BY <1>1, <1>3 DEF SInv, Init

LEMMA NextSearchStep == ASSUME SInv, Thorough, NextSearch PROVE SInv'
<1>1. /\ stack' = <<>> /\ mg' = [p \in Plies |-> NewGenerator] /\ result' = NoResult /\ game' = game
  BY DEF NextSearch
<1>2. IsGenerators(mg)'
  BY <1>1, FreshGenerators DEF IsGenerators
<1>3. (ShapeOK /\ FramesOK /\ NestedOK /\ AnsweredOK)'
  <2>1. Len(stack') = 0
    BY <1>1
  <2>2. IsStack(stack)'
    BY <1>1, EmptySeq DEF IsStack
  <2> QED BY <2>1, <2>2, <1>2 DEF ShapeOK, FramesOK, NestedOK, AnsweredOK
<1>4. result'.value = VALUE_NONE
  BY <1>1 DEF NoResult
<1>5. ResultOK'
  BY <1>4 DEF ResultOK, ReturnedOK
<1> QED BY <1>1, <1>3, <1>5 DEF SInv

LEMMA RootCallStep == ASSUME SInv, Thorough, RootCall PROVE SInv'
<1>1. PICK r \in game.roots : stack' = <<Frame(SearchCall(r.node, r.depth, 1, r.alpha, r.beta, r.isPv, TRUE))>>
  BY DEF RootCall
<1>2. Fixed /\ UNCHANGED <<result, mg, stopSearchFlag>>
  BY DEF RootCall, Fixed
<1> DEFINE c == SearchCall(r.node, r.depth, 1, r.alpha, r.beta, r.isPv, TRUE)
           g == Frame(c)
<1>3. IsCall(c)
  <2>1. IsRoot(r, game)
    BY GameFacts DEF SInv
  <2>2. 1 \in Plies
    BY DepthFacts DEF Plies
  <2>3. /\ c.fn = "search" /\ c.node = r.node /\ c.depth = r.depth /\ c.ply = 1
        /\ c.alpha = r.alpha /\ c.beta = r.beta
    BY DEF SearchCall
  <2> HIDE DEF c
  <2> QED BY <2>1, <2>2, <2>3, ValueFacts DEF IsCall, IsRoot, Nodes, Depths, Values
<1> HIDE DEF c
<1>4. IsFrame(g) /\ g.call = c /\ g.pc = "enter" /\ \A left : FrameOK(g, left)
  BY <1>3 DEF IsFrame, Fields, Frame, FrameOK, Labels, Looping
<1>5. stack' = <<g>>
  BY <1>1 DEF c
<1> HIDE DEF g
<1>6. Len(stack') = 1 /\ stack'[1] = g /\ stack' \in Seq({g})
  BY <1>5
<1>7. FramesOK'
  <2>1. \A left : FrameOK(g, left)'
    BY <1>2, <1>4, FixedFrame
  <2>2. \A i \in 1 .. 1 : i = 1
    OBVIOUS
  <2> QED BY <1>4, <1>6, <2>1, <2>2 DEF FramesOK
<1>8. NestedOK'
  <2>1. \A j \in 1 .. 1 : 1 .. j - 1 = {}
    OBVIOUS
  <2> QED BY <1>6, <2>1 DEF NestedOK
<1>9. ShapeOK'
  <2>1. IsStack(stack')
    BY <1>6, OwnElements
  <2> QED BY <1>2, <2>1 DEF ShapeOK, SInv, IsGenerators, IsStack
<1>10. AnsweredOK'
  <2>1. Top' = g
    BY <1>6 DEF Top
  <2> QED BY <1>4, <2>1 DEF AnsweredOK, ValueOK
<1>11. ResultOK'
  BY <1>2, SameResult DEF SInv
<1> QED BY <1>2, <1>7, <1>8, <1>9, <1>10, <1>11 DEF SInv, Fixed

(* Nothing happens on the stack. *)
LEMMA NothingHappens ==
  ASSUME SInv, Thorough, Fixed, UNCHANGED <<stack, result, mg>>,
         stopSearchFlag' \/ stopSearchFlag' = stopSearchFlag
  PROVE  SInv'
<1>1. ShapeOK'
  BY DEF SInv, ShapeOK, IsGenerators, IsStack
<1>2. FramesOK'
  <2>1. \A i \in 1 .. Len(stack) : \A f \in {stack[i]} : \A left \in {mg[f.call.ply].left} :
          IsFrame(f) /\ FrameOK(f, left)'
    BY FixedFrame DEF SInv, FramesOK
  <2> QED BY <2>1 DEF FramesOK
<1>3. NestedOK'
  <2>1. \A i \in 1 .. Len(stack) - 1 : \A f \in {stack[i]}, c \in {stack[i + 1].call} : Asked(f, c)'
    BY FixedReturn DEF SInv, NestedOK
  <2>2. \A j \in 1 .. Len(stack) : \A i \in 1 .. j - 1 : Below(stack[i], stack[j])
    BY DEF SInv, NestedOK
  <2> QED BY <2>1, <2>2 DEF NestedOK, Below
<1>4. AnsweredOK'
  <2>1. ~stopSearchFlag' /\ stack # <<>> => \A f \in {Top}, v \in {-result.value} : ValueOK(f, v)'
    BY FixedReturn DEF SInv, AnsweredOK
  <2>2. Top' = Top
    BY DEF Top
  <2> QED BY <2>1, <2>2 DEF AnsweredOK
<1>5. ResultOK'
  BY SameResult DEF SInv
<1> QED BY <1>1, <1>2, <1>3, <1>4, <1>5 DEF SInv, Fixed

LEMMA EnterHolds == ASSUME SInv, Thorough, Enter PROVE SInv'
<1>1. ~TtCut
  BY NothingGuesses, EnterFacts DEF TtCut, Probe, Opening, Narrowed
<1> QED BY <1>1, EnterQuiescenceStep, EvaluateOnlyStep, EnterStoppedStep, MateDistanceCutStep,
           EnterSearchStep, StandPatCutStep, EnterQsearchStep DEF Enter

LEMMA BeforeMovesHolds == ASSUME SInv, Thorough, BeforeMoves PROVE SInv'
<1>1. ~Razor /\ ~ReverseFutilityCut /\ ~NullMove
  BY NothingGuesses DEF Razor, ReverseFutilityCut, NullMove, Razors, ReverseFutile, TriesNullMove
<1>2. ~At("nullMoved")
  BY AtFacts DEF FrameOK, Labels, Looping, Waiting
<1>3. ~NullMoveCut /\ ~NullMoveFailed
  BY <1>2 DEF NullMoveCut, NullMoveFailed
<1> QED BY <1>1, <1>3, NoNullMoveStep, IidStep, ReductionStoppedStep, StartMovesStep,
           StartMovesAfterIidStep DEF BeforeMoves

LEMMA MoveLoopHolds == ASSUME SInv, Thorough, MoveLoop PROVE SInv'
BY SkipMoveStep, MoveToDrawStep, MoveSearchedStep, MoveProbedStep, MoveQsearchedStep,
   MoveResearchedStep, ProbeSufficesStep, MoveStoppedStep, MoveNoBetterStep, MoveBestStep,
   MoveRaisesAlphaStep, BetaCutStep, NoMoreMovesStep, LeaveStep DEF MoveLoop

LEMMA SettingFixed == ASSUME [Next]_vars PROVE Fixed
BY DEF Next, SearchStep, Enter, BeforeMoves, MoveLoop, RootCall, RaiseStop, NextSearch, Idle, vars,
       setting, Fixed, EnterQuiescence, EvaluateOnly, EnterStopped, MateDistanceCut, TtCut,
       EnterSearch, StandPatCut, EnterQsearch, Razor, ReverseFutilityCut, NullMove, NoNullMove,
       NullMoveCut, NullMoveFailed, Iid, ReductionStopped, StartMoves, StartMovesAfterIid,
       SkipMove, MoveToDraw, MoveSearched, MoveProbed, MoveQsearched, MoveResearched,
       ProbeSuffices, MoveStopped, MoveNoBetter, MoveBest, MoveRaisesAlpha, BetaCut, NoMoreMoves, Leave

LEMMA NextHolds == ASSUME SInv, [Next]_vars PROVE SInv'
<1>1. Fixed
  BY SettingFixed
<1>2. CASE ~Thorough
  <2>1. ~Thorough'
    BY <1>1, <1>2, FixedReturn
  <2> QED BY <1>1, <2>1 DEF SInv, Fixed
<1>3. CASE Thorough
  <2>1. CASE SearchStep
    BY <1>3, <2>1, EnterHolds, BeforeMovesHolds, MoveLoopHolds DEF SearchStep
  <2>2. CASE RootCall
    BY <1>3, <2>2, RootCallStep
  <2>3. CASE RaiseStop
    BY <1>1, <1>3, <2>3, NothingHappens DEF RaiseStop
  <2>4. CASE NextSearch
    BY <1>3, <2>4, NextSearchStep
  <2>5. CASE UNCHANGED vars
    BY <1>1, <1>3, <2>5, NothingHappens DEF vars
  <2> QED BY <2>1, <2>2, <2>3, <2>4, <2>5 DEF Next, Idle
<1> QED BY <1>2, <1>3

(***************************************************************************)
(* search() and qsearch() compute minimax.  For every game and every       *)
(* number of searches, calls and stops, with the settings that search      *)
(* every line to its depth (see Thorough), what a node returns is its      *)
(* minimax value to the depth of the call, or a bound of it on the right   *)
(* side of the window, or VALUE_NONE if the search was stopped: cuts,      *)
(* null windows and second searches, mate distance pruning, standing pat,  *)
(* killers, internal iterative deepening at the same ply and the moves of  *)
(* the table change what is looked at and never what is returned.          *)
(***************************************************************************)
THEOREM AlphaBetaIsMinimax == Spec => [](Thorough => ReturnsMinimax)
<1>1. Init => SInv
  BY InitHolds
<1>2. SInv /\ [Next]_vars => SInv'
  BY NextHolds
<1>3. SInv => (Thorough => ReturnsMinimax)
  <2> SUFFICES ASSUME SInv, Thorough, Returned PROVE ReturnsMinimax
    BY DEF ReturnsMinimax
  <2> DEFINE c == result.call
  <2>1. c.depth \in Depths /\ Answers(result.value, Worth(c), c.alpha, c.beta)
    BY DEF SInv, ResultOK, ReturnedOK, Returned
  <2>2. c.depth \in DepthsFrom(c.depth)
    <3> DEFINE d == c.depth
    <3>1. d \in 0 .. MAX_DEPTH
      BY <2>1 DEF Depths
    <3> HIDE DEF d
    <3>2. d \in DepthsFrom(d)
      BY <3>1, DepthFacts DEF DepthsFrom
    <3> QED BY <3>2 DEF d
  <2> QED BY <2>1, <2>2 DEF ReturnsMinimax, Worth
<1> QED BY <1>1, <1>2, <1>3, PTL DEF Spec

-----------------------------------------------------------------------------
(***************************************************************************)
(* A node at some ply has no better mate than one at that ply.             *)
(***************************************************************************)
InReach(v, p) == -VALUE_CHECKMATE + p <= v /\ v <= VALUE_CHECKMATE - p

(***************************************************************************)
(* What the table gives back at the ply at which a value was stored is the *)
(* value, of whatever kind (storeTt and the probes of search and qsearch). *)
(***************************************************************************)
THEOREM RoundTrip ==
  ASSUME NEW p \in 0 .. MAX_DEPTH, NEW v \in Int, InReach(v, p)
  PROVE  valueFromTt(valueToTt(v, p), p) = v
<1>1. p \in Nat /\ MAX_DEPTH \in Nat
  BY DepthAssumption
<1>2. CASE isCheckMateValue(v)
  <2>1. CASE v > 0
    <3>1. valueToTt(v, p) = v + p
      BY <1>2, <2>1 DEF valueToTt
    <3>2. isCheckMateValue(v + p)
      BY <1>1, <1>2, <2>1, DepthAssumption
      DEF InReach, isCheckMateValue, abs, VALUE_CHECKMATE_THRESHOLD, VALUE_CHECKMATE, VALUE_MAX
    <3>3. valueFromTt(v + p, p) = v + p - p
      BY <1>1, <2>1, <3>2 DEF valueFromTt
    <3> QED BY <1>1, <3>1, <3>3
  <2>2. CASE ~(v > 0)
    <3>1. valueToTt(v, p) = v - p
      BY <1>2, <2>2 DEF valueToTt
    <3>2. isCheckMateValue(v - p)
      BY <1>1, <1>2, <2>2, DepthAssumption
      DEF InReach, isCheckMateValue, abs, VALUE_CHECKMATE_THRESHOLD, VALUE_CHECKMATE, VALUE_MAX
    <3>3. valueFromTt(v - p, p) = v - p + p
      BY <1>1, <2>2, <3>2 DEF valueFromTt
    <3> QED BY <1>1, <3>1, <3>3
  <2> QED BY <2>1, <2>2
<1>3. CASE ~isCheckMateValue(v)
  BY <1>3 DEF valueToTt, valueFromTt
<1> QED BY <1>2, <1>3

(***************************************************************************)
(* A mate that is found at one ply and met again at another one is as far  *)
(* from the position as before.                                            *)
(***************************************************************************)
THEOREM MateDistanceKept ==
  ASSUME NEW p \in 0 .. MAX_DEPTH, NEW q \in 0 .. MAX_DEPTH,
         NEW v \in Int, InReach(v, p), v > VALUE_CHECKMATE_THRESHOLD
  PROVE  VALUE_CHECKMATE - q - valueFromTt(valueToTt(v, p), q) = VALUE_CHECKMATE - p - v
<1>1. p \in Nat /\ q \in Nat /\ MAX_DEPTH \in Nat
  BY DepthAssumption
<1>2. v > 0 /\ isCheckMateValue(v)
  BY <1>1, DepthAssumption
  DEF InReach, isCheckMateValue, abs, VALUE_CHECKMATE_THRESHOLD, VALUE_CHECKMATE, VALUE_MAX
<1>3. valueToTt(v, p) = v + p
  BY <1>2 DEF valueToTt
<1>4. isCheckMateValue(v + p) /\ v + p > 0
  BY <1>1, <1>2, DepthAssumption
  DEF InReach, isCheckMateValue, abs, VALUE_CHECKMATE_THRESHOLD, VALUE_CHECKMATE, VALUE_MAX
<1>5. valueFromTt(v + p, q) = v + p - q
  BY <1>4 DEF valueFromTt
<1> QED BY <1>1, <1>3, <1>5 DEF VALUE_CHECKMATE, VALUE_MAX

-----------------------------------------------------------------------------
(***************************************************************************)
(* What a stop leaves behind: for every game and whatever prunes, reduces  *)
(* or extends, the value of an interrupted node reaches no node that goes  *)
(* on, no window and no value of the table.                                *)
(*                                                                         *)
(* The values of a node lie in its reach, which narrows with the plies;    *)
(* that is why a mate keeps its meaning through the table.                 *)
(*                                                                         *)
(* And, in the second part, principal variations.                          *)
(***************************************************************************)

(* The table starts empty and the window is cut and narrowed. *)
Guarded == searches = 0 /\ On("ALPHABETA") /\ On("MDP")

-----------------------------------------------------------------------------
(***************************************************************************)
(* The invariant.                                                          *)
(***************************************************************************)
SafeCall(c) ==
  /\ c.fn \in {"search", "qsearch"} /\ c.node \in Nodes /\ c.depth \in Nat /\ c.ply \in Plies
  /\ c.alpha \in Values /\ c.beta \in Values /\ c.alpha < c.beta
  /\ -VALUE_CHECKMATE + c.ply - 1 <= c.alpha /\ c.beta <= VALUE_CHECKMATE - c.ply + 1

(* A static evaluation of a position that is not in check. *)
StaticOK(n, e) == HasCheck(n) \/ e \in {Eval(n), VALUE_DRAW}

InsideOK(f) ==
  /\ f.call.ply < MAX_DEPTH
  /\ f.call.fn = "search" => f.call.depth > 0
  /\ f.alpha \in Reach(f.call.ply) /\ f.beta \in Reach(f.call.ply) /\ f.alpha < f.beta
  /\ StaticOK(f.call.node, f.staticEval)
  /\ f.bestNodeValue \in Reach(f.call.ply) \cup {VALUE_NONE}
  /\ f.movesSearched \in Nat
  /\ f.movesSearched > 0 => f.bestNodeValue # VALUE_NONE
  /\ f.call.fn = "qsearch" /\ ~HasCheck(f.call.node) => f.bestNodeValue # VALUE_NONE

LabelOK(f) ==
  /\ f.pc \in {"prune", "nullMoved", "iid", "iidSearched", "probed"} => f.call.fn = "search"
  /\ f.pc = "probed" => f.newDepth \in Nat /\ f.move \in Legal(f.call.node)

SafeFrame(f) ==
  /\ IsFrame(f) /\ SafeCall(f.call) /\ LabelOK(f)
  /\ f.pc = "enter" => f = Frame(f.call)
  /\ f.pc # "enter" => InsideOK(f)

SafeStack ==
  /\ IsStack(stack)
  /\ \A i \in 1 .. Len(stack) : \A f \in {stack[i]} : SafeFrame(f)
  /\ \A i \in 1 .. Len(stack) - 1 : stack[i].call.ply <= stack[i + 1].call.ply

(* What came back, for the frame that takes it. *)
SafeAnswer ==
  ~stopSearchFlag /\ stack # <<>> /\ Top.pc \in {"searched", "probed", "nullMoved"}
    => -result.value \in Reach(ply)

SafeResult ==
  /\ result.value \in Values \cup {VALUE_NONE}
  /\ ~stopSearchFlag /\ result.call.node \in Nodes => result.value # VALUE_NONE

(* An entry without a value is an evaluation until a stop. *)
SafeEntry(n, e) ==
  /\ DOMAIN e = DOMAIN NoEntry
  /\ e.value \in Values \cup {VALUE_NONE}
  /\ e.eval = VALUE_NONE \/ StaticOK(n, e.eval)
  /\ ~stopSearchFlag /\ e.value = VALUE_NONE => e.type = "NONE"

SafeTable == DOMAIN tt = Nodes /\ \A n \in Nodes : SafeEntry(n, tt[n])

CInv ==
  /\ game \in Games /\ searches \in Nat
  /\ Guarded => SafeStack /\ SafeAnswer /\ SafeResult /\ SafeTable

-----------------------------------------------------------------------------
(***************************************************************************)
(* Values, and what a step leaves alone.                                   *)
(***************************************************************************)
Quiet == UNCHANGED <<game, features, searches, stopSearchFlag>>

LEMMA QuietFacts == ASSUME UNCHANGED <<setting, stopSearchFlag>> PROVE Quiet
BY DEF setting, Quiet

LEMMA ReachDef ==
  ASSUME NEW p \in Plies
  PROVE  /\ p \in Nat /\ 0 <= p /\ p <= MAX_DEPTH /\ (p < MAX_DEPTH => p + 1 \in Plies)
         /\ VALUE_DRAW \in Reach(p) /\ -VALUE_CHECKMATE + p \in Reach(p)
         /\ Reach(p) \subseteq Values /\ VALUE_NONE \notin Values
         /\ \A v \in Reach(p) : v \in Int /\ -VALUE_CHECKMATE + p <= v /\ v <= VALUE_CHECKMATE - p
         /\ \A v \in Int : -VALUE_CHECKMATE + p <= v /\ v <= VALUE_CHECKMATE - p => v \in Reach(p)
         /\ \A v \in -VALUE_CHECKMATE_THRESHOLD .. VALUE_CHECKMATE_THRESHOLD : v \in Reach(p)
<1>1. p \in Nat /\ p <= MAX_DEPTH
  BY DEF Plies
<1> QED BY <1>1, DepthFacts, ValueFacts DEF Reach, Values, Plies

LEMMA NegatedReach ==
  ASSUME NEW p \in Plies, NEW q \in Plies, p <= q, NEW v \in Reach(q)
  PROVE  -v \in Reach(p) /\ v \in Reach(p)
<1>1. p \in Int /\ q \in Int
  BY DepthFacts DEF Plies
<1> QED BY <1>1, ValueFacts DEF Reach

LEMMA CallKept ==
  ASSUME Fixed
  PROVE  /\ Guarded' <=> On("ALPHABETA") /\ On("MDP") /\ searches' = 0
         /\ Nodes' = Nodes
         /\ \A f : SafeFrame(f)' <=> SafeFrame(f)
         /\ \A n, e : StaticOK(n, e)' <=> StaticOK(n, e)
         /\ \A c : SafeCall(c)' <=> SafeCall(c)
<1>1. Nodes' = Nodes
  BY DEF Fixed, Nodes
<1>2. \A n, e : StaticOK(n, e)' <=> StaticOK(n, e)
  BY DEF Fixed, StaticOK, HasCheck, Eval
<1>3. \A n : HasCheck(n)' <=> HasCheck(n)
  BY DEF Fixed, HasCheck
<1>4. \A c : SafeCall(c)' <=> SafeCall(c)
  BY <1>1 DEF SafeCall
<1>5. \A f : InsideOK(f)' <=> InsideOK(f)
  BY <1>2, <1>3 DEF InsideOK
<1>6. \A f : LabelOK(f)' <=> LabelOK(f)
  BY DEF Fixed, LabelOK, Legal
<1>7. \A f : SafeFrame(f)' <=> SafeFrame(f)
  BY <1>4, <1>5, <1>6 DEF SafeFrame
<1> QED BY <1>1, <1>2, <1>4, <1>7 DEF Guarded, On, Fixed

-----------------------------------------------------------------------------
(***************************************************************************)
(* The stack.                                                              *)
(***************************************************************************)
LEMMA TopSafe ==
  ASSUME SafeStack, stack # <<>>
  PROVE  /\ Len(stack) \in Nat /\ Len(stack) >= 1 /\ Len(stack) \in 1 .. Len(stack)
         /\ SafeFrame(Top) /\ ply \in Plies
         /\ \A i \in 1 .. Len(stack) - 1 : i \in 1 .. Len(stack)
<1>1. Len(stack) \in Nat /\ Len(stack) >= 1
  BY EmptySeq DEF SafeStack, IsStack
<1>2. SafeFrame(Top)
  BY <1>1 DEF SafeStack, Top
<1> QED BY <1>1, <1>2 DEF SafeFrame, SafeCall, ply

LEMMA StackGoes ==
  ASSUME SafeStack, stack # <<>>, Fixed, NEW f, Goto(f), SafeFrame(f), f.call.ply = ply
  PROVE  SafeStack' /\ stack' # <<>> /\ Top' = f
<1> DEFINE n == Len(stack)
<1>1. /\ n \in Nat /\ n >= 1 /\ Len(stack') = n /\ IsStack(stack')
      /\ \A i \in 1 .. n - 1 : stack'[i] = stack[i]
      /\ stack'[n] = f
  <2>1. IsStack(stack) /\ Swapped(stack, f, stack')
    BY DEF Goto, Under, SafeStack, Swapped
  <2> QED BY <2>1, SwapFacts
<1>2. \A i \in 1 .. n : SafeFrame(stack'[i])
  <2>1. \A i \in 1 .. n : i = n \/ i \in 1 .. n - 1
    BY <1>1
  <2> QED BY <1>1, <2>1, TopSafe DEF SafeStack
<1>3. \A i \in 1 .. n - 1 : stack'[i].call.ply <= stack'[i + 1].call.ply
  <2> SUFFICES ASSUME NEW i \in 1 .. n - 1 PROVE stack'[i].call.ply <= stack'[i + 1].call.ply
    OBVIOUS
  <2>1. stack[i].call.ply <= stack[i + 1].call.ply /\ stack'[i] = stack[i]
    BY <1>1 DEF SafeStack
  <2>2. CASE i = n - 1
    <3>1. i + 1 = n
      BY <1>1, <2>2
    <3> QED BY <1>1, <2>1, <3>1 DEF ply, Top
  <2>3. CASE i # n - 1
    <3>1. i + 1 \in 1 .. n - 1
      BY <1>1, <2>3
    <3> QED BY <1>1, <2>1, <3>1
  <2> QED BY <2>2, <2>3
<1>4. Top' = f /\ stack' # <<>>
  <2>1. Len(stack') # 0
    BY <1>1
  <2> QED BY <1>1, <2>1 DEF Top
<1> HIDE DEF n
<1>5. \A i \in 1 .. n : \A h \in {stack'[i]} : SafeFrame(h)'
  BY <1>2, CallKept
<1> QED BY <1>1, <1>3, <1>4, <1>5 DEF SafeStack, IsStack

LEMMA StackCalls ==
  ASSUME SafeStack, stack # <<>>, Fixed, NEW f, NEW c, CallFrom(f, c),
         SafeFrame(f), f.call = Top.call, SafeCall(c), ply <= c.ply
  PROVE  SafeStack' /\ stack' # <<>> /\ Top'.pc = "enter"
<1> DEFINE n == Len(stack)
           g == Frame(c)
<1>1. /\ n \in Nat /\ n >= 1 /\ Len(stack') = n + 1 /\ IsStack(stack')
      /\ \A i \in 1 .. n - 1 : stack'[i] = stack[i]
      /\ stack'[n] = f /\ stack'[n + 1] = g
  <2>1. IsStack(stack) /\ Pushed(stack, f, g, stack')
    BY DEF CallFrom, Under, SafeStack, Pushed
  <2> HIDE DEF g
  <2> QED BY <2>1, PushFacts
<1>2. SafeFrame(g) /\ g.call = c /\ g.pc = "enter"
  BY DEF SafeFrame, LabelOK, Frame, IsFrame, Fields
<1> HIDE DEF g
<1>3. \A i \in 1 .. n + 1 : SafeFrame(stack'[i])
  <2>1. \A i \in 1 .. n + 1 : i = n + 1 \/ i = n \/ i \in 1 .. n - 1
    BY <1>1
  <2> QED BY <1>1, <1>2, <2>1, TopSafe DEF SafeStack
<1>4. \A i \in 1 .. n : stack'[i].call.ply <= stack'[i + 1].call.ply
  <2> SUFFICES ASSUME NEW i \in 1 .. n PROVE stack'[i].call.ply <= stack'[i + 1].call.ply
    OBVIOUS
  <2>1. CASE i = n
    BY <1>1, <1>2, <2>1 DEF ply
  <2>2. CASE i = n - 1
    <3>1. i + 1 = n /\ i \in 1 .. n - 1
      BY <1>1, <2>2
    <3>2. stack[i].call.ply <= stack[i + 1].call.ply
      BY <3>1 DEF SafeStack
    <3> QED BY <1>1, <3>1, <3>2 DEF Top
  <2>3. CASE i # n /\ i # n - 1
    <3>1. i + 1 \in 1 .. n - 1 /\ i \in 1 .. n - 1
      BY <1>1, <2>3
    <3>2. stack[i].call.ply <= stack[i + 1].call.ply
      BY <3>1 DEF SafeStack
    <3> QED BY <1>1, <3>1, <3>2
  <2> QED BY <2>1, <2>2, <2>3
<1>5. Top' = g /\ stack' # <<>>
  <2>1. Len(stack') # 0
    BY <1>1
  <2> QED BY <1>1, <2>1 DEF Top
<1> HIDE DEF n
<1>6. \A i \in 1 .. n + 1 : \A h \in {stack'[i]} : SafeFrame(h)'
  BY <1>3, CallKept
<1>7. Len(stack') - 1 = n
  BY <1>1
<1> QED BY <1>1, <1>2, <1>4, <1>5, <1>6, <1>7 DEF SafeStack, IsStack

LEMMA StackReturns ==
  ASSUME SafeStack, stack # <<>>, Fixed, NEW v, Return(v)
  PROVE  /\ SafeStack'
         /\ stack' # <<>> => ply' \in Plies /\ ply' <= ply
<1> DEFINE n == Len(stack)
           S == {stack[i] : i \in 1 .. n}
<1>1. /\ n \in Nat /\ n >= 1 /\ Len(stack') = n - 1 /\ stack' \in Seq(S)
      /\ \A i \in 1 .. n - 1 : stack'[i] = stack[i]
  <2>1. \A i \in 1 .. n : stack[i] \in S
    OBVIOUS
  <2> HIDE DEF S
  <2> QED BY <2>1, PopFacts DEF Return, Under, SafeStack
<1>2. IsStack(stack')
  <2> HIDE DEF S
  <2> QED BY <1>1, OwnElements
<1>3. \A i \in 1 .. n - 1 : SafeFrame(stack'[i])
  BY <1>1, TopSafe DEF SafeStack
<1>4. \A i \in 1 .. n - 1 - 1 : stack'[i].call.ply <= stack'[i + 1].call.ply
  <2>1. \A i \in 1 .. n - 1 - 1 : i \in 1 .. n - 1 /\ i + 1 \in 1 .. n - 1
    BY <1>1
  <2> QED BY <1>1, <2>1 DEF SafeStack
<1> HIDE DEF n, S
<1>5. \A i \in 1 .. n - 1 : \A h \in {stack'[i]} : SafeFrame(h)'
  BY <1>3, CallKept
<1>6. SafeStack'
  BY <1>1, <1>2, <1>4, <1>5 DEF SafeStack, IsStack
<1>7. ASSUME stack' # <<>> PROVE ply' \in Plies /\ ply' <= ply
  <2>1. n - 1 >= 1 /\ n - 1 \in 1 .. n - 1 /\ n - 1 + 1 = n
    <3>1. Len(stack') # 0
      BY <1>1, <1>7, EmptySeq
    <3> QED BY <1>1, <3>1
  <2>2. Top' = stack[n - 1] /\ stack[n] = Top
    BY <1>1, <2>1 DEF Top, n
  <2>3. stack[n - 1].call.ply <= stack[n - 1 + 1].call.ply
    BY <2>1 DEF SafeStack, n
  <2>4. SafeFrame(stack[n - 1])
    BY <1>1, <1>3, <2>1
  <2> QED BY <2>1, <2>2, <2>3, <2>4 DEF ply, SafeFrame, SafeCall
<1> QED BY <1>6, <1>7

-----------------------------------------------------------------------------
(***************************************************************************)
(* The table.                                                              *)
(***************************************************************************)
LEMMA ToTable ==
  ASSUME NEW p \in Plies, NEW v \in Reach(p) \cup {VALUE_NONE}
  PROVE  /\ valueToTt(v, p) \in Values \cup {VALUE_NONE}
         /\ valueToTt(v, p) = VALUE_NONE => v = VALUE_NONE
<1>1. p \in Nat /\ p <= MAX_DEPTH
  BY ReachDef
<1>2. CASE v = VALUE_NONE
  BY <1>2, ValueFacts DEF valueToTt, isCheckMateValue, abs
<1>3. CASE v \in Reach(p)
  <2>1. v \in Int /\ -VALUE_CHECKMATE + p <= v /\ v <= VALUE_CHECKMATE - p
    BY <1>3, ReachDef
  <2>2. valueToTt(v, p) \in Values
    BY <1>1, <2>1, DepthFacts, ValueFacts DEF valueToTt, isCheckMateValue, abs, Values
  <2> QED BY <2>2, ReachDef
<1> QED BY <1>2, <1>3

LEMMA FromTable ==
  ASSUME NEW p \in Plies, NEW v \in Values
  PROVE  valueFromTt(v, p) \in Reach(p)
<1> DEFINE C == VALUE_CHECKMATE
           T == VALUE_CHECKMATE_THRESHOLD
<1>1. p \in Nat /\ p <= MAX_DEPTH
  BY ReachDef
<1>2. v \in Int /\ -C <= v /\ v <= C
  BY ValueFacts DEF Values
<1>3. C \in Int /\ T \in Int /\ T + p < C /\ 0 < T - p
  BY <1>1, DepthFacts DEF VALUE_CHECKMATE, VALUE_MAX, VALUE_CHECKMATE_THRESHOLD
<1>4. (isCheckMateValue(v) => (v > 0 => T < v) /\ (v <= 0 => v < -T))
      /\ (~isCheckMateValue(v) => -T <= v /\ v <= T)
  BY <1>2, <1>3 DEF isCheckMateValue, abs
<1> DEFINE r == valueFromTt(v, p)
<1>5. CASE isCheckMateValue(v) /\ v > 0
  <2>1. r = v - p
    BY <1>5 DEF valueFromTt
  <2> HIDE DEF C, T, r
  <2>2. -C + p <= r /\ r <= C - p /\ r \in Int
    BY <1>1, <1>2, <1>3, <1>4, <1>5, <2>1
  <2> QED BY <2>2, ReachDef DEF C, r
<1>6. CASE isCheckMateValue(v) /\ ~(v > 0)
  <2>1. r = v + p
    BY <1>6 DEF valueFromTt
  <2> HIDE DEF C, T, r
  <2>2. -C + p <= r /\ r <= C - p /\ r \in Int
    BY <1>1, <1>2, <1>3, <1>4, <1>6, <2>1
  <2> QED BY <2>2, ReachDef DEF C, r
<1>7. CASE ~isCheckMateValue(v)
  <2>1. r = v
    BY <1>7 DEF valueFromTt
  <2> HIDE DEF C, T, r
  <2>2. -C + p <= r /\ r <= C - p /\ r \in Int
    BY <1>1, <1>2, <1>3, <1>4, <1>7, <2>1
  <2> QED BY <2>2, ReachDef DEF C, r
<1> QED BY <1>5, <1>6, <1>7

LEMMA EntryKept ==
  ASSUME Fixed, stopSearchFlag' = stopSearchFlag \/ stopSearchFlag'
  PROVE  \A n, e : SafeEntry(n, e) => SafeEntry(n, e)'
<1>1. \A n, e : StaticOK(n, e)' <=> StaticOK(n, e)
  BY CallKept
<1> QED BY <1>1 DEF SafeEntry

LEMMA TableKept ==
  ASSUME Fixed, stopSearchFlag' = stopSearchFlag \/ stopSearchFlag', SafeTable, tt' = tt
  PROVE  SafeTable'
<1>1. \A n \in Nodes : \A e \in {tt[n]} : SafeEntry(n, e)'
  BY EntryKept DEF SafeTable
<1> QED BY <1>1, CallKept DEF SafeTable

LEMMA TablePut ==
  ASSUME Fixed, stopSearchFlag' = stopSearchFlag, SafeTable, NEW n \in Nodes,
         NEW d, NEW m, NEW v \in Values \cup {VALUE_NONE}, NEW type, NEW e,
         e = VALUE_NONE \/ StaticOK(n, e), v = VALUE_NONE => type = "NONE" \/ stopSearchFlag,
         tt' = Put(n, d, m, v, type, e)
  PROVE  SafeTable'
<1> DEFINE old == tt[n]
           new == [move |-> m, depth |-> d, value |-> v, type |-> type, eval |-> e]
           kept == [old EXCEPT !.move = IF m = MOVE_NONE THEN @ ELSE m,
                               !.eval = IF e = VALUE_NONE THEN @ ELSE e]
           put == IF old = NoEntry THEN new
                  ELSE IF v = VALUE_NONE THEN kept
                  ELSE [kept EXCEPT !.depth = d, !.value = v, !.type = type]
<1>1. tt' = [tt EXCEPT ![n] = put]
  BY DEF Put
<1>2. SafeEntry(n, old)
  BY DEF SafeTable
<1>3. SafeEntry(n, new)
  BY DEF SafeEntry, NoEntry
<1>4. SafeEntry(n, kept)
  <2>1. DOMAIN kept = DOMAIN NoEntry /\ kept.value = old.value /\ kept.type = old.type
        /\ kept.eval = (IF e = VALUE_NONE THEN old.eval ELSE e)
    BY <1>2 DEF SafeEntry, NoEntry
  <2> HIDE DEF kept, old
  <2> QED BY <1>2, <2>1 DEF SafeEntry
<1>5. ASSUME v # VALUE_NONE PROVE SafeEntry(n, [kept EXCEPT !.depth = d, !.value = v, !.type = type])
  <2> HIDE DEF kept
  <2>1. DOMAIN kept = {"move", "depth", "value", "type", "eval"}
    BY <1>4 DEF SafeEntry, NoEntry
  <2> DEFINE k == [kept EXCEPT !.depth = d, !.value = v, !.type = type]
  <2>2. DOMAIN k = DOMAIN kept /\ k.value = v /\ k.type = type /\ k.eval = kept.eval
    BY <2>1
  <2> HIDE DEF k
  <2>3. SafeEntry(n, k)
    BY <1>4, <1>5, <2>2 DEF SafeEntry
  <2> QED BY <2>3 DEF k
<1>6. SafeEntry(n, put)
  <2> HIDE DEF old, new, kept
  <2> QED BY <1>3, <1>4, <1>5
<1> HIDE DEF put
<1>7. \A k \in Nodes : \A x \in {tt'[k]} : SafeEntry(k, x)'
  <2>1. \A k \in Nodes : SafeEntry(k, tt'[k])
    BY <1>1, <1>6 DEF SafeTable
  <2> QED BY <2>1, EntryKept
<1>8. DOMAIN tt' = Nodes'
  BY <1>1, CallKept DEF SafeTable
<1> QED BY <1>7, <1>8, CallKept DEF SafeTable

(* storeTt() stores a value of the node on top. *)
LEMMA TableStored ==
  ASSUME Quiet, SafeStack, stack # <<>>, SafeTable,
         NEW d, NEW m, NEW v \in Reach(ply) \cup {VALUE_NONE}, NEW type, NEW e,
         e = VALUE_NONE \/ StaticOK(node, e), v = VALUE_NONE => type = "NONE" \/ stopSearchFlag,
         storeTt(d, m, v, type, e)
  PROVE  SafeTable'
<1> DEFINE x == valueToTt(v, ply)
<1>1. ply \in Plies /\ node \in Nodes
  BY TopSafe DEF SafeFrame, SafeCall, node
<1>2. x \in Values \cup {VALUE_NONE} /\ (x = VALUE_NONE => v = VALUE_NONE)
  BY <1>1, ToTable
<1>3. tt' = Put(node, d, m, x, type, e)
  BY DEF storeTt
<1> HIDE DEF x
<1>4. Fixed /\ stopSearchFlag' = stopSearchFlag
  BY DEF Quiet, Fixed
<1>5. x = VALUE_NONE => type = "NONE" \/ stopSearchFlag
  BY <1>2
<1> QED BY <1>1, <1>2, <1>3, <1>4, <1>5, TablePut

-----------------------------------------------------------------------------
(***************************************************************************)
(* Steps of the innermost frame, calls and returns.                        *)
(***************************************************************************)
LEMMA Guarding ==
  ASSUME Quiet
  PROVE  /\ Guarded' <=> Guarded
         /\ Fixed /\ (SafeTable /\ tt' = tt => SafeTable')
         /\ SafeResult /\ result' = result => SafeResult'
<1>1. Fixed /\ searches' = searches /\ stopSearchFlag' = stopSearchFlag
  BY DEF Quiet, Fixed
<1> QED BY <1>1, CallKept, TableKept DEF Guarded, SafeResult

LEMMA OpenFacts ==
  ASSUME CInv, Guarded, NEW pc, At(pc)
  PROVE  /\ SafeStack /\ SafeAnswer /\ SafeResult /\ SafeTable /\ game \in Games
         /\ stack # <<>> /\ Top.pc = pc /\ IsFrame(Top) /\ SafeCall(Top.call) /\ ply \in Plies
         /\ Top.call.ply = ply /\ Top.call.node = node /\ Top.call.depth = depth /\ node \in Nodes
         /\ pc # "enter" => InsideOK(Top)
         /\ pc = "enter" => Top = Frame(Top.call)
         /\ LabelOK(Top)
<1>1. SafeStack /\ SafeAnswer /\ SafeResult /\ SafeTable /\ stack # <<>> /\ Top.pc = pc /\ game \in Games
  BY DEF CInv, At
<1>2. SafeFrame(Top) /\ ply \in Plies
  BY <1>1, TopSafe
<1> QED BY <1>1, <1>2 DEF SafeFrame, SafeCall, ply, node, depth

LEMMA SafeGo ==
  ASSUME CInv, Guarded, stack # <<>>, Quiet, NEW f, Goto(f), SafeFrame(f), f.call.ply = ply,
         ~stopSearchFlag /\ f.pc \in {"searched", "probed", "nullMoved"} => -result'.value \in Reach(ply),
         SafeResult', SafeTable'
  PROVE  CInv'
<1>1. Fixed /\ SafeStack /\ (Guarded' <=> Guarded) /\ game' = game /\ searches' = searches /\ stopSearchFlag' = stopSearchFlag
  BY Guarding DEF CInv, Quiet
<1>2. SafeStack' /\ stack' # <<>> /\ Top' = f
  BY <1>1, StackGoes
<1>3. ply' = ply
  BY <1>2 DEF ply
<1>4. SafeAnswer'
  BY <1>1, <1>2, <1>3 DEF SafeAnswer, Reach
<1> QED BY <1>1, <1>2, <1>4 DEF CInv

LEMMA SafeCallFrom ==
  ASSUME CInv, Guarded, stack # <<>>, Quiet, NEW f, NEW c, CallFrom(f, c),
         SafeFrame(f), f.call = Top.call, SafeCall(c), ply <= c.ply, result' = result, tt' = tt
  PROVE  CInv'
<1>1. Fixed /\ SafeStack /\ (Guarded' <=> Guarded) /\ game' = game /\ searches' = searches /\ SafeResult /\ SafeTable
  BY Guarding DEF CInv, Quiet
<1>2. SafeStack' /\ stack' # <<>> /\ Top'.pc = "enter"
  BY <1>1, StackCalls
<1>3. SafeAnswer'
  BY <1>2 DEF SafeAnswer
<1>4. SafeResult' /\ SafeTable'
  BY <1>1, Guarding
<1> QED BY <1>1, <1>2, <1>3, <1>4 DEF CInv

LEMMA SafeReturn ==
  ASSUME CInv, Guarded, stack # <<>>, Quiet, NEW v \in Reach(ply) \cup {VALUE_NONE}, Return(v),
         v = VALUE_NONE => stopSearchFlag, SafeTable'
  PROVE  CInv'
<1>1. Fixed /\ SafeStack /\ (Guarded' <=> Guarded) /\ game' = game /\ searches' = searches /\ stopSearchFlag' = stopSearchFlag
  BY Guarding DEF CInv, Quiet
<1>2. SafeStack' /\ (stack' # <<>> => ply' \in Plies /\ ply' <= ply)
  BY <1>1, StackReturns
<1>3. result'.value = v /\ ply \in Plies
  BY <1>1, TopSafe DEF Return
<1>4. SafeResult'
  BY <1>1, <1>3, ReachDef DEF SafeResult
<1>5. SafeAnswer'
  <2> SUFFICES ASSUME ~stopSearchFlag, stack' # <<>> PROVE -v \in Reach(ply')
    BY <1>1, <1>3 DEF SafeAnswer, Reach
  <2>1. v \in Reach(ply)
    OBVIOUS
  <2> DEFINE p == ply'
  <2>2. p \in Plies /\ p <= ply
    BY <1>2
  <2> HIDE DEF p
  <2>3. -v \in Reach(p)
    BY <1>3, <2>1, <2>2, NegatedReach
  <2> QED BY <2>3 DEF p
<1> QED BY <1>1, <1>2, <1>4, <1>5 DEF CInv

-----------------------------------------------------------------------------
(***************************************************************************)
(* Entering a node.                                                        *)
(***************************************************************************)
LEMMA FreshSafe == ASSUME NEW c, SafeCall(c) PROVE SafeFrame(Frame(c))
BY DEF SafeFrame, LabelOK, Frame, IsFrame, Fields

LEMMA EvalFacts ==
  ASSUME game \in Games, NEW n \in Nodes, NEW p \in Plies
  PROVE  Eval(n) \in Reach(p) /\ Eval(n) \in Values /\ Eval(n) \in Int
<1>1. Eval(n) \in -VALUE_CHECKMATE_THRESHOLD .. VALUE_CHECKMATE_THRESHOLD
  BY GameFacts
<1> QED BY <1>1, ReachDef

(* Any frame in the place of the top one. *)
LEMMA SafeGoes ==
  ASSUME CInv, Guarded, stack # <<>>, Quiet, NEW f, Goto(f), SafeFrame(f), f.call.ply = ply,
         f.pc \notin {"searched", "probed", "nullMoved"}, result' = result, SafeTable'
  PROVE  CInv'
BY SafeGo, Guarding DEF CInv

LEMMA SafeEnterQuiescence == ASSUME CInv, Guarded, EnterQuiescence PROVE CInv'
<1> DEFINE c == QsearchCall(node, ply, Top.alpha, Top.beta, Top.call.isPv)
<1>1. At("enter") /\ Goto(Frame(c)) /\ Quiet /\ result' = result /\ tt' = tt
  BY QuietFacts DEF EnterQuiescence
<1>2. Top = Frame(Top.call) /\ SafeCall(Top.call) /\ SafeTable /\ stack # <<>>
  BY <1>1, OpenFacts
<1>3. Top.alpha = Top.call.alpha /\ Top.beta = Top.call.beta
  <2> DEFINE t == Top
  <2>1. t = Frame(t.call)
    BY <1>2
  <2> HIDE DEF t
  <2>2. t.alpha = t.call.alpha /\ t.beta = t.call.beta
    BY <2>1 DEF Frame
  <2> QED BY <2>2 DEF t
<1>4. SafeCall(c) /\ c.ply = ply
  BY <1>2, <1>3 DEF QsearchCall, SearchCall, SafeCall, node, ply
<1> HIDE DEF c
<1>5. SafeFrame(Frame(c)) /\ Frame(c).call = c /\ Frame(c).pc = "enter"
  BY <1>4, FreshSafe DEF Frame
<1>6. SafeTable'
  BY <1>1, <1>2, Guarding
<1> QED BY <1>1, <1>2, <1>4, <1>5, <1>6, SafeGoes

LEMMA SafeEvaluateOnly == ASSUME CInv, Guarded, EvaluateOnly PROVE CInv'
<1>1. At("enter") /\ Return(Eval(node)) /\ Quiet /\ tt' = tt
  BY QuietFacts DEF EvaluateOnly
<1>2. stack # <<>> /\ SafeTable /\ node \in Nodes /\ ply \in Plies /\ game \in Games
  BY <1>1, OpenFacts
<1>3. Eval(node) \in Reach(ply) /\ Eval(node) # VALUE_NONE
  BY <1>2, EvalFacts, ReachDef
<1>4. SafeTable'
  BY <1>1, <1>2, Guarding
<1> QED BY <1>1, <1>2, <1>3, <1>4, SafeReturn

(* An interrupted node returns. *)
LEMMA SafeStop ==
  ASSUME CInv, Guarded, NEW pc, At(pc), Return(VALUE_NONE), stopSearchFlag,
         UNCHANGED <<setting, tt, pv, mg, stopSearchFlag>>
  PROVE  CInv'
<1>1. Quiet /\ tt' = tt
  BY QuietFacts
<1>2. stack # <<>> /\ SafeTable
  BY OpenFacts
<1>3. SafeTable'
  BY <1>1, <1>2, Guarding
<1> QED BY <1>1, <1>2, <1>3, SafeReturn

LEMMA NarrowFacts ==
  ASSUME CInv, Guarded, At("enter"), NEW f, f = Narrowed(Top)
  PROVE  /\ IsFrame(f) /\ f.call = Top.call /\ f.bestNodeValue = VALUE_NONE
         /\ f.movesSearched = 0 /\ f.staticEval = VALUE_NONE /\ f.pc = "enter"
         /\ f.alpha \in Reach(ply)
         /\ ~MateDistanceCuts(f) => f.beta \in Reach(ply) /\ f.alpha < f.beta
<1> DEFINE t == Top
           c == Top.call
           a == Larger(c.alpha, -VALUE_CHECKMATE + c.ply)
           b == Smaller(c.beta, VALUE_CHECKMATE - c.ply)
<1>1. t = Frame(c) /\ SafeCall(c) /\ ply \in Plies /\ c.ply = ply /\ On("MDP")
  BY OpenFacts DEF Guarded
<1>2. f = [t EXCEPT !.alpha = Larger(@, -VALUE_CHECKMATE + t.call.ply),
                    !.beta = Smaller(@, VALUE_CHECKMATE - t.call.ply)]
  BY <1>1 DEF Narrowed
<1> HIDE DEF t
<1>3. /\ IsFrame(f) /\ f.call = c /\ f.bestNodeValue = VALUE_NONE /\ f.movesSearched = 0
      /\ f.staticEval = VALUE_NONE /\ f.pc = "enter" /\ f.alpha = a /\ f.beta = b
  BY <1>1, <1>2 DEF Frame, IsFrame, Fields
<1>4. /\ c.alpha \in Int /\ c.beta \in Int /\ c.alpha < c.beta
      /\ -VALUE_CHECKMATE + ply - 1 <= c.alpha /\ c.beta <= VALUE_CHECKMATE - ply + 1
  BY <1>1, ValueFacts DEF SafeCall, Values
<1>5. ply \in Int /\ 0 <= ply /\ ply <= MAX_DEPTH
  BY <1>1, ReachDef
<1> DEFINE x == c.alpha
           y == c.beta
           p == ply
<1>6. a = Larger(x, -VALUE_CHECKMATE + p) /\ b = Smaller(y, VALUE_CHECKMATE - p)
  BY <1>1
<1> HIDE DEF a, b, x, y, p
<1>7. x \in Int /\ y \in Int /\ p \in Int /\ x < y /\ -VALUE_CHECKMATE + p - 1 <= x
      /\ y <= VALUE_CHECKMATE - p + 1 /\ 0 <= p /\ p <= MAX_DEPTH
  BY <1>4, <1>5 DEF x, y, p
<1>8. a \in Reach(p) /\ (a < b => b \in Reach(p)) /\ a \in Int /\ b \in Int
  BY <1>6, <1>7, ValueFacts, DepthFacts DEF Larger, Smaller, Reach
<1>9. ~MateDistanceCuts(f) => a < b
  BY <1>1, <1>3, <1>8 DEF MateDistanceCuts
<1> QED BY <1>3, <1>8, <1>9 DEF p

LEMMA SafeMateDistanceCut == ASSUME CInv, Guarded, MateDistanceCut PROVE CInv'
<1> DEFINE v == Narrowed(Top).alpha
<1>1. At("enter") /\ Return(v) /\ Quiet /\ tt' = tt
  BY QuietFacts DEF MateDistanceCut, Opening
<1>2. stack # <<>> /\ SafeTable /\ ply \in Plies
  BY <1>1, OpenFacts
<1>3. v \in Reach(ply)
  BY <1>1, NarrowFacts
<1> HIDE DEF v
<1>4. v # VALUE_NONE
  BY <1>2, <1>3, ReachDef
<1>5. SafeTable'
  BY <1>1, <1>2, Guarding
<1> QED BY <1>1, <1>2, <1>3, <1>4, <1>5, SafeReturn

LEMMA ProbeFacts ==
  ASSUME CInv, Guarded, At("enter"), NEW f, f.call = Top.call
  PROVE  SafeEntry(node, Probe(f))
<1>1. SafeEntry(node, tt[node])
  BY OpenFacts DEF SafeTable
<1>2. SafeEntry(node, NoEntry)
  BY DEF SafeEntry, NoEntry
<1> QED BY <1>1, <1>2 DEF Probe, node

LEMMA SafeTtCut == ASSUME CInv, Guarded, TtCut PROVE CInv'
<1> DEFINE f == Narrowed(Top)
           e == Probe(f)
           v == valueFromTt(e.value, ply)
<1>1. At("enter") /\ ~stopSearchFlag /\ Usable(e, f) /\ Return(v) /\ Quiet /\ tt' = tt
  BY QuietFacts DEF TtCut, Opening
<1>2. stack # <<>> /\ SafeTable /\ ply \in Plies
  BY <1>1, OpenFacts
<1>3. f.call = Top.call
  BY <1>1, NarrowFacts
<1> HIDE DEF f
<1>4. SafeEntry(node, e)
  BY <1>1, <1>3, ProbeFacts
<1>5. e.type # "NONE"
  BY <1>1 DEF Usable
<1> HIDE DEF e
<1>6. e.value \in Values
  BY <1>1, <1>4, <1>5 DEF SafeEntry
<1>7. v \in Reach(ply)
  BY <1>2, <1>6, FromTable
<1> HIDE DEF v
<1>8. v # VALUE_NONE
  BY <1>2, <1>7, ReachDef
<1>9. SafeTable'
  BY <1>1, <1>2, Guarding
<1> QED BY <1>1, <1>2, <1>7, <1>8, <1>9, SafeReturn

(* What was looked up and evaluated at the entry. *)
LEMMA LookFacts ==
  ASSUME CInv, Guarded, Opening, ~MateDistanceCuts(Narrowed(Top)),
         NEW f, f = Looked(Narrowed(Top), Probe(Top)), NEW g, g = Evaluated(f)
  PROVE  /\ InsideOK([g EXCEPT !.bestNodeValue = IF In("qsearch") /\ ~HasCheck(node) THEN g.staticEval ELSE @])
         /\ IsFrame(g) /\ g.call = Top.call /\ g.bestNodeValue = VALUE_NONE
         /\ SafeCall(g.call) /\ StaticOK(node, g.staticEval)
         /\ ~HasCheck(node) => g.staticEval \in Reach(ply)
<1> DEFINE n == Narrowed(Top)
           e == Probe(Top)
           c == Top.call
<1>1. At("enter") /\ ~MateDistanceCuts(n)
  BY DEF Opening
<1>2. /\ SafeCall(c) /\ ply \in Plies /\ c.ply = ply /\ c.node = node /\ node \in Nodes /\ game \in Games
      /\ IsFrame(n) /\ n.call = c /\ n.bestNodeValue = VALUE_NONE /\ n.movesSearched = 0
      /\ n.alpha \in Reach(ply) /\ n.beta \in Reach(ply) /\ n.alpha < n.beta
      /\ SafeEntry(node, e)
  BY <1>1, OpenFacts, NarrowFacts, ProbeFacts
<1>3. ply < MAX_DEPTH /\ (c.fn = "search" => c.depth > 0)
  <2>1. ply \in Nat /\ c.depth \in Nat /\ c.fn \in {"search", "qsearch"}
    BY <1>2, ReachDef DEF SafeCall
  <2>2. ~Horizon(Top) /\ ~EvaluatesOnly(Top)
    BY DEF Opening
  <2>3. ~(ply >= MAX_DEPTH) /\ (c.fn = "search" => c.depth # 0)
    BY <1>2, <2>1, <2>2 DEF Horizon, EvaluatesOnly
  <2> QED BY <2>1, <2>3, DepthFacts
<1>4. f = [n EXCEPT !.ttMove = e.move, !.staticEval = IF On("EVAL_TT") THEN e.eval ELSE VALUE_NONE]
  BY DEF Looked
<1> HIDE DEF n, e
<1>5. /\ IsFrame(f) /\ f.call = c /\ f.bestNodeValue = VALUE_NONE /\ f.movesSearched = 0
      /\ f.alpha = n.alpha /\ f.beta = n.beta /\ f.staticEval \in {e.eval, VALUE_NONE}
  BY <1>2, <1>4 DEF IsFrame, Fields
<1>6. g = IF ~HasCheck(node) /\ f.staticEval = VALUE_NONE THEN [f EXCEPT !.staticEval = Eval(node)] ELSE f
  BY <1>2, <1>5 DEF Evaluated
<1>7. /\ IsFrame(g) /\ g.call = c /\ g.bestNodeValue = VALUE_NONE /\ g.movesSearched = 0
      /\ g.alpha = n.alpha /\ g.beta = n.beta
  BY <1>5, <1>6 DEF IsFrame, Fields
<1>8. g.staticEval = IF ~HasCheck(node) /\ f.staticEval = VALUE_NONE THEN Eval(node) ELSE f.staticEval
  BY <1>5, <1>6 DEF IsFrame, Fields
<1>9. StaticOK(node, g.staticEval)
  BY <1>2, <1>5, <1>8 DEF StaticOK, SafeEntry
<1>10. ~HasCheck(node) => g.staticEval \in Reach(ply) /\ g.staticEval # VALUE_NONE
  <2>1. Eval(node) \in Reach(ply) /\ VALUE_DRAW \in Reach(ply) /\ VALUE_NONE \notin Reach(ply)
    BY <1>2, EvalFacts, ReachDef
  <2> QED BY <1>9, <2>1 DEF StaticOK
<1> DEFINE h == [g EXCEPT !.bestNodeValue = IF In("qsearch") /\ ~HasCheck(node) THEN g.staticEval ELSE @]
<1>11. /\ h.call = c /\ h.alpha = n.alpha /\ h.beta = n.beta /\ h.movesSearched = 0
       /\ h.staticEval = g.staticEval
       /\ h.bestNodeValue = IF In("qsearch") /\ ~HasCheck(node) THEN g.staticEval ELSE VALUE_NONE
  BY <1>7 DEF IsFrame, Fields
<1> HIDE DEF h
<1>12. InsideOK(h)
  BY <1>2, <1>3, <1>9, <1>10, <1>11 DEF InsideOK, In
<1> QED BY <1>2, <1>7, <1>9, <1>10, <1>12 DEF h

(* A frame with the same locals. *)
Agrees(f, h) ==
  /\ IsFrame(h) /\ h.pc # "enter" /\ h.call = f.call /\ h.alpha = f.alpha /\ h.beta = f.beta
  /\ h.staticEval = f.staticEval /\ h.bestNodeValue = f.bestNodeValue
  /\ h.movesSearched = f.movesSearched

LEMMA AgreeingSafe ==
  ASSUME NEW f, NEW h, InsideOK(f), SafeCall(f.call), Agrees(f, h), LabelOK(h)
  PROVE  SafeFrame(h) /\ InsideOK(h)
BY DEF Agrees, InsideOK, SafeFrame

LEMMA SafeEnterSearch == ASSUME CInv, Guarded, EnterSearch PROVE CInv'
<1> DEFINE f == Looked(Narrowed(Top), Probe(Top))
           g == Evaluated(f)
           h == [g EXCEPT !.pc = "prune"]
<1>1. /\ Opening /\ In("search") /\ ~MateDistanceCuts(Narrowed(Top)) /\ Goto(h) /\ Quiet /\ result' = result
      /\ \/ tt' = Put(node, 0, MOVE_NONE, VALUE_NONE, "NONE", g.staticEval)
         \/ tt' = tt
  <2> HIDE DEF f, g, h
  <2> QED BY QuietFacts DEF EnterSearch, f, g, h
<1>2. At("enter")
  BY <1>1 DEF Opening
<1>3. stack # <<>> /\ SafeTable /\ node \in Nodes /\ Top.call.ply = ply
  BY <1>2, OpenFacts
<1>4. /\ InsideOK([g EXCEPT !.bestNodeValue = IF In("qsearch") /\ ~HasCheck(node) THEN g.staticEval ELSE @])
      /\ IsFrame(g) /\ g.call = Top.call /\ g.bestNodeValue = VALUE_NONE
      /\ SafeCall(g.call) /\ StaticOK(node, g.staticEval)
  <2> HIDE DEF f, g
  <2> QED BY <1>1, LookFacts DEF f, g
<1> HIDE DEF f, g
<1>5. ~In("qsearch")
  BY <1>1 DEF In
<1> DEFINE k == [g EXCEPT !.bestNodeValue = IF In("qsearch") /\ ~HasCheck(node) THEN g.staticEval ELSE @]
<1>6. k.call = g.call /\ Agrees(k, h)
  BY <1>4, <1>5 DEF Agrees, IsFrame, Fields
<1>7. h.call = Top.call /\ h.pc = "prune" /\ LabelOK(h)
  BY <1>1, <1>4 DEF IsFrame, Fields, LabelOK, In
<1> HIDE DEF k, h
<1>8. SafeFrame(h)
  BY <1>4, <1>6, <1>7, AgreeingSafe DEF k
<1>9. SafeTable'
  <2>1. Fixed /\ stopSearchFlag' = stopSearchFlag
    BY <1>1 DEF Quiet, Fixed
  <2> QED BY <1>1, <1>3, <1>4, <2>1, TableKept, TablePut
<1> QED BY <1>1, <1>3, <1>7, <1>8, <1>9, SafeGoes

LEMMA SafeStandPatCut == ASSUME CInv, Guarded, StandPatCut PROVE CInv'
<1> DEFINE v == QsearchNode.staticEval
<1>1. /\ Opening /\ In("qsearch") /\ ~MateDistanceCuts(Narrowed(Top)) /\ StandPat(QsearchNode)
      /\ Return(v) /\ Quiet
      /\ storeTt(0, MOVE_NONE, VALUE_NONE, "NONE", v) \/ tt' = tt
  BY QuietFacts DEF StandPatCut, OpeningQsearch
<1>2. At("enter")
  BY <1>1 DEF Opening
<1>3. SafeStack /\ stack # <<>> /\ SafeTable /\ node \in Nodes /\ Top.call.node = node /\ ply \in Plies
  BY <1>2, OpenFacts
<1>4. QsearchNode.call = Top.call /\ StaticOK(node, v) /\ (~HasCheck(node) => v \in Reach(ply))
  <2>1. \A f : f = Looked(Narrowed(Top), Probe(Top)) => \A g : g = Evaluated(f) =>
          g.call = Top.call /\ StaticOK(node, g.staticEval) /\ (~HasCheck(node) => g.staticEval \in Reach(ply))
    BY <1>1, LookFacts
  <2> QED BY <2>1 DEF QsearchNode
<1>5. v \in Reach(ply)
  BY <1>1, <1>3, <1>4 DEF StandPat
<1> HIDE DEF v
<1>6. SafeTable'
  BY <1>1, <1>3, <1>4, Guarding, TableStored
<1>7. v # VALUE_NONE
  BY <1>3, <1>5, ReachDef
<1> QED BY <1>1, <1>3, <1>5, <1>6, <1>7, SafeReturn

LEMMA SafeStartLoop ==
  ASSUME CInv, Guarded, stack # <<>>, NEW f, IsFrame(f), InsideOK(f), SafeCall(f.call), f.call.ply = ply,
         StartLoop(f), UNCHANGED <<setting, result, tt, stopSearchFlag>>
  PROVE  CInv'
<1> DEFINE h == [f EXCEPT !.pc = "moves"]
<1>1. Goto(h) /\ Quiet /\ result' = result /\ tt' = tt /\ SafeTable
  BY QuietFacts DEF StartLoop, CInv
<1>2. Agrees(f, h) /\ h.call = f.call /\ h.pc = "moves" /\ LabelOK(h)
  BY DEF Agrees, IsFrame, Fields, LabelOK
<1> HIDE DEF h
<1>3. SafeFrame(h)
  BY <1>2, AgreeingSafe
<1>4. SafeTable'
  BY <1>1, Guarding
<1> QED BY <1>1, <1>2, <1>3, <1>4, SafeGoes

LEMMA SafeEnterQsearch == ASSUME CInv, Guarded, EnterQsearch PROVE CInv'
<1> DEFINE g == QsearchNode
           h == IF HasCheck(node) THEN g
                ELSE [g EXCEPT !.bestNodeValue = g.staticEval,
                               !.alpha = IF On("STANDPAT") THEN Larger(@, g.staticEval) ELSE @]
<1>1. /\ Opening /\ In("qsearch") /\ ~MateDistanceCuts(Narrowed(Top)) /\ ~StandPat(g)
      /\ StartLoop(h) /\ UNCHANGED <<setting, result, tt, stopSearchFlag>>
  BY DEF EnterQsearch, OpeningQsearch
<1>2. At("enter")
  BY <1>1 DEF Opening
<1>3. stack # <<>> /\ node \in Nodes /\ Top.call.node = node /\ Top.call.ply = ply /\ ply \in Plies
  BY <1>2, OpenFacts
<1> DEFINE k == [g EXCEPT !.bestNodeValue = IF In("qsearch") /\ ~HasCheck(node) THEN g.staticEval ELSE @]
<1>4. InsideOK(k) /\ IsFrame(g) /\ g.call = Top.call /\ g.bestNodeValue = VALUE_NONE /\ SafeCall(g.call)
      /\ (~HasCheck(node) => g.staticEval \in Reach(ply))
  <2>1. \A f : f = Looked(Narrowed(Top), Probe(Top)) => \A x : x = Evaluated(f) =>
          /\ InsideOK([x EXCEPT !.bestNodeValue = IF In("qsearch") /\ ~HasCheck(node) THEN x.staticEval ELSE @])
          /\ IsFrame(x) /\ x.call = Top.call /\ x.bestNodeValue = VALUE_NONE /\ SafeCall(x.call)
          /\ (~HasCheck(node) => x.staticEval \in Reach(ply))
    BY <1>1, LookFacts
  <2> QED BY <2>1 DEF QsearchNode
<1>5. StandPat(g) <=> On("STANDPAT") /\ ~HasCheck(node) /\ g.staticEval >= g.beta
  BY <1>3, <1>4 DEF StandPat
<1> HIDE DEF g
<1>6. /\ k.call = g.call /\ k.alpha = g.alpha /\ k.beta = g.beta /\ k.staticEval = g.staticEval
      /\ k.movesSearched = g.movesSearched
      /\ k.bestNodeValue = IF ~HasCheck(node) THEN g.staticEval ELSE g.bestNodeValue
  BY <1>1, <1>4 DEF IsFrame, Fields
<1> HIDE DEF k
<1>7. InsideOK(h) /\ IsFrame(h) /\ h.call = g.call
  <2>1. CASE HasCheck(node)
    <3>1. h = g
      BY <2>1
    <3> QED BY <1>4, <1>6, <2>1, <3>1 DEF InsideOK
  <2>2. CASE ~HasCheck(node)
    <3>1. /\ h = [g EXCEPT !.bestNodeValue = g.staticEval,
                           !.alpha = IF On("STANDPAT") THEN Larger(@, g.staticEval) ELSE @]
      BY <2>2
    <3>2. /\ IsFrame(h) /\ h.call = g.call /\ h.beta = g.beta /\ h.staticEval = g.staticEval
          /\ h.movesSearched = g.movesSearched /\ h.bestNodeValue = g.staticEval
          /\ h.alpha = IF On("STANDPAT") THEN Larger(g.alpha, g.staticEval) ELSE g.alpha
      BY <1>4, <3>1 DEF IsFrame, Fields
    <3> HIDE DEF h
    <3> DEFINE a == g.alpha
               b == g.beta
               s == g.staticEval
    <3>3. a \in Reach(ply) /\ b \in Reach(ply) /\ a < b /\ s \in Reach(ply)
      BY <1>3, <1>4, <1>6, <2>2 DEF InsideOK
    <3>4. a \in Int /\ b \in Int /\ s \in Int
      BY <1>3, <3>3, ReachDef
    <3>5. On("STANDPAT") => ~(s >= b)
      BY <1>1, <1>5, <2>2
    <3> HIDE DEF a, b, s
    <3>6. h.alpha \in Reach(ply) /\ h.alpha < b
      BY <3>2, <3>3, <3>4, <3>5 DEF Larger, a, s
    <3> QED BY <1>3, <1>4, <1>6, <2>2, <3>2, <3>6 DEF InsideOK, b
  <2> QED BY <2>1, <2>2
<1> HIDE DEF h
<1> QED BY <1>1, <1>3, <1>4, <1>7, SafeStartLoop

-----------------------------------------------------------------------------
(***************************************************************************)
(* search() before the move loop.                                          *)
(***************************************************************************)
(* The windows that a frame hands on: its own, turned round, null windows. *)
InWindow(x, y, p) ==
  /\ x \in Values /\ y \in Values /\ x < y
  /\ -VALUE_CHECKMATE + p - 1 <= x /\ y <= VALUE_CHECKMATE - p + 1

LEMMA Windows ==
  ASSUME NEW p \in Plies, p < MAX_DEPTH, NEW a \in Reach(p), NEW b \in Reach(p), a < b
  PROVE  /\ InWindow(a, b, p) /\ InWindow(-b, -a, p + 1)
         /\ InWindow(-a - 1, -a, p + 1) /\ InWindow(-b, -b + 1, p + 1)
         /\ p + 1 \in Plies /\ p <= p + 1
<1>1. p \in Nat /\ a \in Int /\ b \in Int /\ p + 1 \in Plies
  BY ReachDef
<1> QED BY <1>1, ValueFacts DEF Reach, Values, InWindow

LEMMA InnerFacts ==
  ASSUME CInv, Guarded, NEW pc, pc # "enter", At(pc)
  PROVE  /\ SafeStack /\ SafeAnswer /\ SafeResult /\ SafeTable /\ game \in Games /\ stack # <<>>
         /\ IsFrame(Top) /\ SafeCall(Top.call) /\ InsideOK(Top) /\ LabelOK(Top) /\ Top.pc = pc
         /\ Top.call.ply = ply /\ Top.call.node = node /\ Top.call.depth = depth
         /\ ply \in Plies /\ node \in Nodes /\ ply < MAX_DEPTH
         /\ Top.alpha \in Reach(ply) /\ Top.beta \in Reach(ply) /\ Top.alpha < Top.beta
         /\ ~HasCheck(node) => Top.staticEval \in Reach(ply)
<1>1. /\ SafeStack /\ SafeAnswer /\ SafeResult /\ SafeTable /\ game \in Games /\ stack # <<>>
      /\ IsFrame(Top) /\ SafeCall(Top.call) /\ InsideOK(Top) /\ LabelOK(Top) /\ Top.pc = pc
      /\ Top.call.ply = ply /\ Top.call.node = node /\ Top.call.depth = depth
      /\ ply \in Plies /\ node \in Nodes
  BY OpenFacts
<1>2. StaticOK(node, Top.staticEval)
  BY <1>1 DEF InsideOK
<1>3. ~HasCheck(node) => Top.staticEval \in Reach(ply)
  BY <1>1, <1>2, EvalFacts, ReachDef DEF StaticOK
<1> QED BY <1>1, <1>3 DEF InsideOK

(* A step that only moves the label. *)
LEMMA SafeMoveOn ==
  ASSUME CInv, Guarded, NEW pc, pc # "enter", At(pc), UNCHANGED <<setting, stopSearchFlag>>,
         NEW f, Goto(f), Agrees(Top, f), LabelOK(f), f.pc \notin {"searched", "probed", "nullMoved"},
         result' = result, tt' = tt
  PROVE  CInv'
<1>1. Quiet
  BY QuietFacts
<1>2. stack # <<>> /\ InsideOK(Top) /\ SafeCall(Top.call) /\ SafeTable /\ Top.call.ply = ply
  BY InnerFacts
<1>3. SafeFrame(f) /\ f.call.ply = ply
  BY <1>2, AgreeingSafe DEF Agrees
<1>4. SafeTable'
  BY <1>1, <1>2, Guarding
<1> QED BY <1>1, <1>2, <1>3, <1>4, SafeGoes

(* A call of search() or qsearch(). *)
LEMMA SafeCalls ==
  ASSUME CInv, Guarded, NEW pc, pc # "enter", At(pc), UNCHANGED <<setting, stopSearchFlag>>,
         NEW f, NEW c, CallFrom(f, c), Agrees(Top, f), LabelOK(f), result' = result, tt' = tt,
         c.fn \in {"search", "qsearch"}, c.node \in Nodes, c.depth \in Nat,
         c.ply \in Plies, ply <= c.ply, InWindow(c.alpha, c.beta, c.ply)
  PROVE  CInv'
<1>1. Quiet
  BY QuietFacts
<1>2. stack # <<>> /\ InsideOK(Top) /\ SafeCall(Top.call)
  BY InnerFacts
<1>3. SafeFrame(f) /\ f.call = Top.call
  BY <1>2, AgreeingSafe DEF Agrees
<1>4. SafeCall(c)
  BY DEF SafeCall, InWindow
<1> QED BY <1>1, <1>2, <1>3, <1>4, SafeCallFrom

LEMMA Labelled ==
  ASSUME NEW f, IsFrame(f), NEW pc, pc # "enter", NEW h, h = [f EXCEPT !.pc = pc]
  PROVE  Agrees(f, h) /\ h.pc = pc /\ h.newDepth = f.newDepth /\ h.move = f.move
BY DEF Agrees, IsFrame, Fields

LEMMA ReducedFacts ==
  ASSUME NEW d \in Int, NEW r \in Int
  PROVE  ReducedDepth(d, r) \in Nat
BY DEF ReducedDepth, Larger

LEMMA SafeRazor == ASSUME CInv, Guarded, Razor PROVE CInv'
<1> DEFINE c == QsearchCall(node, ply, Top.alpha, Top.beta, TRUE)
<1>1. At("prune") /\ Goto(Frame(c)) /\ Quiet /\ result' = result /\ tt' = tt
  BY QuietFacts DEF Razor
<1>2. /\ stack # <<>> /\ SafeTable /\ node \in Nodes /\ ply \in Plies /\ ply < MAX_DEPTH
      /\ Top.alpha \in Reach(ply) /\ Top.beta \in Reach(ply) /\ Top.alpha < Top.beta
  BY <1>1, InnerFacts
<1>3. InWindow(Top.alpha, Top.beta, ply)
  BY <1>2, Windows
<1>4. SafeCall(c) /\ c.ply = ply
  BY <1>2, <1>3 DEF QsearchCall, SearchCall, SafeCall, InWindow
<1> HIDE DEF c
<1>5. SafeFrame(Frame(c)) /\ Frame(c).call = c /\ Frame(c).pc = "enter"
  BY <1>4, FreshSafe DEF Frame
<1>6. SafeTable'
  BY <1>1, <1>2, Guarding
<1> QED BY <1>1, <1>2, <1>4, <1>5, <1>6, SafeGoes

LEMMA SafeReverseFutilityCut == ASSUME CInv, Guarded, ReverseFutilityCut PROVE CInv'
<1> DEFINE v == Top.staticEval - RFP_MARGIN[depth]
<1>1. At("prune") /\ ReverseFutile(Top) /\ Return(v) /\ Quiet /\ tt' = tt
  BY QuietFacts DEF ReverseFutilityCut
<1>2. /\ stack # <<>> /\ SafeTable /\ ply \in Plies /\ Top.call.node = node /\ Top.call.depth = depth
      /\ Top.beta \in Reach(ply) /\ (~HasCheck(node) => Top.staticEval \in Reach(ply))
      /\ SafeCall(Top.call) /\ LabelOK(Top) /\ InsideOK(Top) /\ Top.pc = "prune"
  BY <1>1, InnerFacts
<1>3. depth \in Nat /\ depth > 0
  BY <1>2 DEF LabelOK, InsideOK, SafeCall
<1>4. depth <= 3 /\ v >= Top.beta /\ ~HasCheck(node)
  BY <1>1, <1>2 DEF ReverseFutile
<1>5. RFP_MARGIN[depth] \in Nat
  BY <1>3, <1>4, SearchAssumption
<1> DEFINE s == Top.staticEval
           b == Top.beta
           m == RFP_MARGIN[depth]
<1>6. v = s - m /\ v >= b /\ m \in Nat /\ s \in Reach(ply) /\ b \in Reach(ply)
  BY <1>2, <1>4, <1>5
<1> HIDE DEF v, s, b, m
<1>7. s \in Int /\ b \in Int /\ -VALUE_CHECKMATE + ply <= b /\ s <= VALUE_CHECKMATE - ply /\ ply \in Int
  BY <1>2, <1>6, ReachDef
<1>8. v \in Int /\ -VALUE_CHECKMATE + ply <= v /\ v <= VALUE_CHECKMATE - ply
  BY <1>6, <1>7, ValueFacts
<1>9. v \in Reach(ply) /\ v # VALUE_NONE
  BY <1>2, <1>8, ReachDef
<1>10. SafeTable'
  BY <1>1, <1>2, Guarding
<1> QED BY <1>1, <1>2, <1>9, <1>10, SafeReturn

LEMMA SafeNullMove == ASSUME CInv, Guarded, NullMove PROVE CInv'
<1> DEFINE f == [Top EXCEPT !.pc = "nullMoved"]
           c == SearchCall(game.pass[node], NullMoveDepth(depth), ply + 1, -Top.beta, -Top.beta + 1, FALSE, FALSE)
<1>1. /\ At("prune") /\ TriesNullMove(Top) /\ CallFrom(f, c)
      /\ UNCHANGED <<setting, stopSearchFlag>> /\ result' = result /\ tt' = tt
  BY DEF NullMove
<1>2. /\ stack # <<>> /\ ply \in Plies /\ ply < MAX_DEPTH /\ game \in Games /\ IsFrame(Top)
      /\ Top.call.node = node /\ Top.call.depth = depth /\ SafeCall(Top.call) /\ LabelOK(Top) /\ Top.pc = "prune"
      /\ Top.alpha \in Reach(ply) /\ Top.beta \in Reach(ply) /\ Top.alpha < Top.beta
  BY <1>1, InnerFacts
<1>3. game.pass[node] \in Nodes
  <2>1. IsGame(game) /\ node \in DOMAIN game.pass
    BY <1>1, <1>2, SearchAssumption DEF TriesNullMove
  <2> QED BY <2>1 DEF IsGame, Nodes
<1>4. NullMoveDepth(depth) \in Nat
  <2>1. depth \in Int /\ NMP_REDUCTION \in Nat
    BY <1>2, SearchAssumption DEF SafeCall
  <2> DEFINE r == IF depth > 8 \/ (depth > 6 /\ game.middleGame) THEN NMP_REDUCTION + 1 ELSE NMP_REDUCTION
  <2>2. r + 1 \in Int
    BY <2>1
  <2>3. NullMoveDepth(depth) = ReducedDepth(depth, r + 1)
    BY DEF NullMoveDepth
  <2> HIDE DEF r
  <2> QED BY <2>1, <2>2, <2>3, ReducedFacts
<1>5. InWindow(-Top.beta, -Top.beta + 1, ply + 1) /\ ply + 1 \in Plies /\ ply <= ply + 1
  BY <1>2, Windows
<1>6. Agrees(Top, f) /\ LabelOK(f)
  <2>1. Agrees(Top, f) /\ f.pc = "nullMoved"
    BY <1>2, Labelled
  <2> HIDE DEF f
  <2> QED BY <1>2, <2>1 DEF LabelOK, Agrees
<1>7. /\ c.fn = "search" /\ c.node = game.pass[node] /\ c.depth = NullMoveDepth(depth) /\ c.ply = ply + 1
      /\ c.alpha = -Top.beta /\ c.beta = -Top.beta + 1
  BY DEF SearchCall
<1> HIDE DEF c, f
<1> QED BY <1>1, <1>3, <1>4, <1>5, <1>6, <1>7, SafeCalls

LEMMA SafeNoNullMove == ASSUME CInv, Guarded, NoNullMove PROVE CInv'
<1> DEFINE f == [Top EXCEPT !.pc = "iid"]
<1>1. At("prune") /\ Goto(f) /\ UNCHANGED <<setting, stopSearchFlag>> /\ result' = result /\ tt' = tt
  BY DEF NoNullMove
<1>2. IsFrame(Top) /\ LabelOK(Top) /\ Top.pc = "prune"
  BY <1>1, InnerFacts
<1>3. Agrees(Top, f) /\ f.pc = "iid"
  BY <1>2, Labelled
<1> HIDE DEF f
<1>4. LabelOK(f)
  BY <1>2, <1>3 DEF LabelOK, Agrees
<1> QED BY <1>1, <1>3, <1>4, SafeMoveOn

LEMMA NullValueFacts ==
  ASSUME CInv, Guarded, At("nullMoved"), ~stopSearchFlag
  PROVE  NullMoveValue \in Reach(ply)
<1>1. ply \in Plies /\ -result.value \in Reach(ply)
  BY InnerFacts DEF SafeAnswer
<1>2. VALUE_CHECKMATE_THRESHOLD \in Reach(ply)
  <2>1. VALUE_CHECKMATE_THRESHOLD \in -VALUE_CHECKMATE_THRESHOLD .. VALUE_CHECKMATE_THRESHOLD
    BY DepthFacts DEF VALUE_CHECKMATE_THRESHOLD, VALUE_CHECKMATE, VALUE_MAX
  <2> QED BY <1>1, <2>1, ReachDef
<1> QED BY <1>1, <1>2 DEF NullMoveValue, Smaller

LEMMA SafeNullMoveCut == ASSUME CInv, Guarded, NullMoveCut PROVE CInv'
<1> DEFINE v == NullMoveValue
<1>1. /\ At("nullMoved") /\ ~stopSearchFlag /\ Return(v) /\ Quiet
      /\ storeTt(depth, Top.ttMove, v, "BETA", Top.staticEval) \/ tt' = tt
  BY QuietFacts DEF NullMoveCut
<1>2. SafeStack /\ stack # <<>> /\ SafeTable /\ ply \in Plies /\ InsideOK(Top) /\ Top.call.node = node
  BY <1>1, InnerFacts
<1>3. v \in Reach(ply)
  BY <1>1, NullValueFacts
<1> HIDE DEF v
<1>4. v # VALUE_NONE
  BY <1>2, <1>3, ReachDef
<1>5. StaticOK(node, Top.staticEval)
  BY <1>2 DEF InsideOK
<1>6. SafeTable'
  <2> DEFINE d == depth
             m == Top.ttMove
             e == Top.staticEval
             ty == "BETA"
  <2>1. storeTt(d, m, v, ty, e) \/ tt' = tt
    BY <1>1
  <2>2. StaticOK(node, e)
    BY <1>5
  <2> HIDE DEF d, m, e, ty
  <2> QED BY <1>1, <1>2, <1>3, <1>4, <2>1, <2>2, Guarding, TableStored
<1> QED BY <1>1, <1>2, <1>3, <1>4, <1>6, SafeReturn

LEMMA SafeNullMoveFailed == ASSUME CInv, Guarded, NullMoveFailed PROVE CInv'
<1> DEFINE f == [Top EXCEPT !.pc = "iid", !.matethreat = -result.value < VALUE_CHECKMATE_THRESHOLD]
<1>1. At("nullMoved") /\ Goto(f) /\ UNCHANGED <<setting, stopSearchFlag>> /\ result' = result /\ tt' = tt
  BY DEF NullMoveFailed
<1>2. IsFrame(Top) /\ LabelOK(Top) /\ Top.pc = "nullMoved"
  BY <1>1, InnerFacts
<1>3. Agrees(Top, f) /\ f.pc = "iid"
  BY <1>2 DEF Agrees, IsFrame, Fields
<1> HIDE DEF f
<1>4. LabelOK(f)
  BY <1>2, <1>3 DEF LabelOK, Agrees
<1> QED BY <1>1, <1>3, <1>4, SafeMoveOn

LEMMA SafeIid == ASSUME CInv, Guarded, Iid PROVE CInv'
<1> DEFINE f == [Top EXCEPT !.pc = "iidSearched"]
           c == SearchCall(node, ReducedDepth(depth, IID_REDUCTION), ply,
                           Top.alpha, Top.beta, Top.call.isPv, Top.call.doNull)
<1>1. /\ At("iid") /\ CallFrom(f, c)
      /\ UNCHANGED <<setting, stopSearchFlag>> /\ result' = result /\ tt' = tt
  BY DEF Iid
<1>2. /\ stack # <<>> /\ ply \in Plies /\ ply < MAX_DEPTH /\ IsFrame(Top) /\ node \in Nodes
      /\ Top.call.node = node /\ Top.call.depth = depth /\ SafeCall(Top.call) /\ LabelOK(Top) /\ Top.pc = "iid"
      /\ Top.alpha \in Reach(ply) /\ Top.beta \in Reach(ply) /\ Top.alpha < Top.beta
  BY <1>1, InnerFacts
<1>3. ReducedDepth(depth, IID_REDUCTION) \in Nat
  <2>1. depth \in Int /\ IID_REDUCTION \in Int
    BY <1>2, SearchAssumption DEF SafeCall
  <2> QED BY <2>1, ReducedFacts
<1>4. InWindow(Top.alpha, Top.beta, ply) /\ ply <= ply
  BY <1>2, Windows, ReachDef
<1>5. Agrees(Top, f) /\ f.pc = "iidSearched"
  BY <1>2, Labelled
<1>6. /\ c.fn = "search" /\ c.node = node /\ c.depth = ReducedDepth(depth, IID_REDUCTION) /\ c.ply = ply
      /\ c.alpha = Top.alpha /\ c.beta = Top.beta
  BY DEF SearchCall
<1> HIDE DEF c, f
<1>7. LabelOK(f)
  BY <1>2, <1>5 DEF LabelOK, Agrees
<1> QED BY <1>1, <1>2, <1>3, <1>4, <1>5, <1>6, <1>7, SafeCalls

LEMMA SafeReductionStopped == ASSUME CInv, Guarded, ReductionStopped PROVE CInv'
BY SafeStop DEF ReductionStopped

LEMMA SafeStartMoves == ASSUME CInv, Guarded, StartMoves PROVE CInv'
<1>1. At("iid") /\ StartLoop(Top) /\ UNCHANGED <<setting, result, tt, stopSearchFlag>>
  BY DEF StartMoves
<1> QED BY <1>1, InnerFacts, SafeStartLoop

LEMMA SafeStartMovesAfterIid == ASSUME CInv, Guarded, StartMovesAfterIid PROVE CInv'
<1> DEFINE f == [Top EXCEPT !.ttMove = IF pv[ply] = <<>> THEN @ ELSE Head(pv[ply])]
<1>1. At("iidSearched") /\ StartLoop(f) /\ UNCHANGED <<setting, result, tt, stopSearchFlag>>
  BY DEF StartMovesAfterIid
<1>2. stack # <<>> /\ IsFrame(Top) /\ SafeCall(Top.call) /\ InsideOK(Top) /\ Top.call.ply = ply /\ Top.pc = "iidSearched"
  BY <1>1, InnerFacts
<1>3. Agrees(Top, f) /\ f.pc = "iidSearched"
  BY <1>2 DEF Agrees, IsFrame, Fields
<1> HIDE DEF f
<1>4. InsideOK(f) /\ IsFrame(f) /\ SafeCall(f.call) /\ f.call.ply = ply
  BY <1>2, <1>3 DEF Agrees, InsideOK
<1> QED BY <1>1, <1>2, <1>4, SafeStartLoop

-----------------------------------------------------------------------------
(***************************************************************************)
(* The move loop.                                                          *)
(***************************************************************************)
(* A step that changes values: what holds of the new frame. *)
LEMMA SafeNewValues ==
  ASSUME CInv, Guarded, NEW pc, pc # "enter", At(pc), UNCHANGED <<setting, stopSearchFlag>>,
         NEW f, Goto(f), IsFrame(f), f.call = Top.call, f.pc \in {"moves", "end"},
         f.staticEval = Top.staticEval, f.beta = Top.beta,
         f.alpha \in Reach(ply), f.alpha < f.beta,
         \/ f.bestNodeValue \in Reach(ply)
         \/ (f.bestNodeValue = Top.bestNodeValue /\ f.movesSearched = Top.movesSearched),
         f.movesSearched \in Nat,
         result' = result, tt' = tt
  PROVE  CInv'
<1>1. Quiet
  BY QuietFacts
<1>2. /\ stack # <<>> /\ InsideOK(Top) /\ SafeCall(Top.call) /\ SafeTable /\ Top.call.ply = ply
      /\ ply \in Plies
  BY InnerFacts
<1>3. f.bestNodeValue \in Reach(ply) => f.bestNodeValue # VALUE_NONE
  BY <1>2, ReachDef
<1>4. InsideOK(f)
  BY <1>2, <1>3 DEF InsideOK
<1>5. SafeFrame(f)
  BY <1>2, <1>4 DEF SafeFrame, LabelOK
<1>6. SafeTable'
  BY <1>1, <1>2, Guarding
<1> QED BY <1>1, <1>2, <1>5, <1>6, SafeGoes

LEMMA SafeSkipMove == ASSUME CInv, Guarded, SkipMove PROVE CInv'
<1>1. PICK m : Goto([Top EXCEPT !.bestNodeValue = Optimistic(m)])
  BY DEF SkipMove
<1>2. At("moves") /\ UNCHANGED <<setting, stopSearchFlag>> /\ result' = result /\ tt' = tt
  BY DEF SkipMove
<1> DEFINE f == [Top EXCEPT !.bestNodeValue = Optimistic(m)]
           t == Top
           b == t.bestNodeValue
           s == t.staticEval
<1>3. /\ IsFrame(t) /\ InsideOK(t) /\ t.pc = "moves" /\ t.call.ply = ply /\ t.call.node = node /\ ply \in Plies
      /\ t.alpha \in Reach(ply) /\ t.alpha < t.beta /\ game \in Games /\ stack # <<>>
      /\ ~HasCheck(node) => s \in Reach(ply)
  BY <1>2, InnerFacts
<1>4. /\ f.call = t.call /\ f.pc = "moves" /\ f.staticEval = s /\ f.beta = t.beta /\ f.alpha = t.alpha
      /\ f.movesSearched = t.movesSearched /\ f.bestNodeValue = Optimistic(m) /\ IsFrame(f)
  BY <1>3 DEF IsFrame, Fields
<1>5. b \in Reach(ply) \cup {VALUE_NONE} /\ t.movesSearched \in Nat
  BY <1>3 DEF InsideOK
<1>6. Optimistic(m) \in Reach(ply) \/ Optimistic(m) = b
  <2>1. CASE Futile(m)
    <3>1. ~HasCheck(node) /\ Optimistic(m) = Larger(b, s)
      BY <2>1 DEF Futile, Prunable, Optimistic
    <3> HIDE DEF b, s
    <3> QED BY <1>3, <3>1 DEF Larger
  <2>2. CASE ~Futile(m) /\ QFutile(m)
    <3> DEFINE x == s + game.gain
               a == t.alpha
               q == QFP_MARGIN
               g == game.gain
    <3>1. ~HasCheck(node) /\ Optimistic(m) = Larger(b, x) /\ x + q <= a
      BY <2>2 DEF QFutile, Optimistic
    <3>2. g \in Nat /\ q \in Nat
      BY <1>3, SearchAssumption DEF IsGame
    <3>3. s \in Reach(ply) /\ a \in Reach(ply)
      BY <1>3, <3>1
    <3>4. x = s + g
      OBVIOUS
    <3> HIDE DEF x, a, q, g, b, s
    <3>5. s \in Int /\ -VALUE_CHECKMATE + ply <= s /\ a \in Int /\ a <= VALUE_CHECKMATE - ply /\ ply \in Int
      BY <1>3, <3>3, ReachDef
    <3>6. x \in Int /\ -VALUE_CHECKMATE + ply <= x /\ x <= VALUE_CHECKMATE - ply
      BY <3>1, <3>2, <3>4, <3>5, ValueFacts
    <3>7. x \in Reach(ply)
      BY <1>3, <3>6, ReachDef
    <3> QED BY <3>1, <3>7 DEF Larger
  <2>3. CASE ~Futile(m) /\ ~QFutile(m)
    BY <2>3 DEF Optimistic
  <2> QED BY <2>1, <2>2, <2>3
<1>7. Goto(f)
  BY <1>1
<1> HIDE DEF f
<1> QED BY <1>2, <1>3, <1>4, <1>5, <1>6, <1>7, SafeNewValues

LEMMA SafeNoMoreMoves == ASSUME CInv, Guarded, NoMoreMoves PROVE CInv'
<1> DEFINE f == [Top EXCEPT !.pc = "end"]
<1>1. At("moves") /\ Goto(f) /\ UNCHANGED <<setting, stopSearchFlag>> /\ result' = result /\ tt' = tt
  BY DEF NoMoreMoves
<1>2. IsFrame(Top)
  BY <1>1, InnerFacts
<1>3. Agrees(Top, f) /\ f.pc = "end"
  BY <1>2, Labelled
<1> HIDE DEF f
<1>4. LabelOK(f)
  BY <1>3 DEF LabelOK
<1> QED BY <1>1, <1>3, <1>4, SafeMoveOn

(* A move is taken: it is legal, and the depths below it are numbers. *)
LEMMA TakenFacts ==
  ASSUME CInv, Guarded, At("moves"), NEW m, ~Skipped(m), NEW pc \in {"searched", "probed"},
         NEW f, f = [Entered(m) EXCEPT !.pc = pc], pc = "probed" => In("search")
  PROVE  /\ Agrees(Top, f) /\ LabelOK(f) /\ f.pc = pc /\ Child(node, m) \in Nodes
         /\ In("search") => NewDepth(m) \in Nat /\ LmrDepth(m) \in Nat
<1>1. /\ IsFrame(Top) /\ SafeCall(Top.call) /\ InsideOK(Top) /\ Top.call.node = node /\ Top.call.depth = depth
      /\ node \in Nodes /\ game \in Games
  BY InnerFacts
<1>2. m \in Legal(node)
  BY DEF Skipped
<1>3. Child(node, m) \in Nodes
  BY <1>1, <1>2, GameFacts
<1>4. ASSUME In("search") PROVE NewDepth(m) \in Nat /\ LmrDepth(m) \in Nat
  <2>1. depth \in Nat /\ depth - 1 \in Nat
    BY <1>1, <1>4 DEF InsideOK, SafeCall, In
  <2>2. Extension(m) \in Nat
    BY DEF Extension
  <2>3. NewDepth(m) \in Nat
    BY <2>1, <2>2 DEF NewDepth
  <2>4. ReducedDepth(depth - 1, LMR_REDUCTION) \in Nat
    BY <2>1, ReducedFacts, SearchAssumption
  <2>5. LmrDepth(m) \in Nat
    BY <2>1, <2>4 DEF LmrDepth
  <2> QED BY <2>3, <2>5
<1> DEFINE g == Entered(m)
<1>5. Agrees(Top, [g EXCEPT !.pc = pc]) /\ f = [g EXCEPT !.pc = pc] /\ f.pc = pc
      /\ f.newDepth = NewDepth(m) /\ f.move = m
  BY <1>1 DEF Entered, Agrees, IsFrame, Fields
<1> HIDE DEF g
<1>6. LabelOK(f)
  BY <1>1, <1>2, <1>4, <1>5 DEF LabelOK, Agrees, In
<1> QED BY <1>3, <1>4, <1>5, <1>6

LEMMA SafeMoveToDraw == ASSUME CInv, Guarded, MoveToDraw PROVE CInv'
<1>1. PICK m : ~Skipped(m) /\ Goto([Entered(m) EXCEPT !.pc = "searched"])
  BY DEF MoveToDraw
<1>2. /\ At("moves") /\ Quiet /\ tt' = tt /\ result' = [NoResult EXCEPT !.value = VALUE_DRAW]
  BY QuietFacts DEF MoveToDraw
<1> DEFINE f == [Entered(m) EXCEPT !.pc = "searched"]
<1>3. Agrees(Top, f) /\ LabelOK(f) /\ f.pc = "searched"
  BY <1>1, <1>2, TakenFacts
<1>4. stack # <<>> /\ InsideOK(Top) /\ SafeCall(Top.call) /\ Top.call.ply = ply /\ SafeTable /\ ply \in Plies
  BY <1>2, InnerFacts
<1>5. Goto(f)
  BY <1>1
<1> HIDE DEF f
<1>6. SafeFrame(f) /\ f.call.ply = ply
  BY <1>3, <1>4, AgreeingSafe DEF Agrees
<1>7. result'.value = VALUE_DRAW
  BY <1>2 DEF NoResult
<1>8. -result'.value \in Reach(ply)
  <2>1. VALUE_DRAW \in Reach(ply) /\ ply <= ply
    BY <1>4, ReachDef
  <2> QED BY <1>4, <1>7, <2>1, NegatedReach
<1>9. SafeResult'
  <2>1. VALUE_DRAW \in Values /\ VALUE_DRAW # VALUE_NONE
    BY ValueFacts DEF Values
  <2> QED BY <1>7, <2>1 DEF SafeResult, Values
<1>10. SafeTable'
  BY <1>2, <1>4, Guarding
<1> QED BY <1>2, <1>4, <1>5, <1>6, <1>8, <1>9, <1>10, SafeGo

(* The calls for a move, with any of the windows below. *)
LEMMA SafeMoveCalls ==
  ASSUME CInv, Guarded, At("moves"), NEW m, ~Skipped(m), NEW pc \in {"searched", "probed"},
         pc = "probed" => In("search"), NEW f, f = [Entered(m) EXCEPT !.pc = pc], NEW c, CallFrom(f, c),
         UNCHANGED <<setting, result, tt, stopSearchFlag>>,
         c.fn \in {"search", "qsearch"}, c.node = Child(node, m), c.depth \in Nat, c.ply = ply + 1,
         <<c.alpha, c.beta>> \in {<<-Top.beta, -Top.alpha>>, <<-Top.alpha - 1, -Top.alpha>>}
  PROVE  CInv'
<1>1. UNCHANGED <<setting, stopSearchFlag>> /\ result' = result /\ tt' = tt
  OBVIOUS
<1>2. Agrees(Top, f) /\ LabelOK(f) /\ c.node \in Nodes
  BY TakenFacts
<1>3. /\ ply \in Plies /\ ply < MAX_DEPTH
      /\ Top.alpha \in Reach(ply) /\ Top.beta \in Reach(ply) /\ Top.alpha < Top.beta
  BY InnerFacts
<1>4. /\ InWindow(-Top.beta, -Top.alpha, ply + 1) /\ InWindow(-Top.alpha - 1, -Top.alpha, ply + 1)
      /\ ply + 1 \in Plies /\ ply <= ply + 1
  BY <1>3, Windows
<1>5. InWindow(c.alpha, c.beta, c.ply) /\ c.ply \in Plies /\ ply <= c.ply
  BY <1>4
<1> QED BY <1>1, <1>2, <1>5, SafeCalls

LEMMA SafeMoveSearched == ASSUME CInv, Guarded, MoveSearched PROVE CInv'
<1>1. PICK m : ~Skipped(m) /\ CallFrom([Entered(m) EXCEPT !.pc = "searched"], FullWindow(Child(node, m), NewDepth(m)))
  BY DEF MoveSearched
<1>2. At("moves") /\ In("search") /\ UNCHANGED <<setting, result, tt, stopSearchFlag>>
  BY DEF MoveSearched
<1> DEFINE f == [Entered(m) EXCEPT !.pc = "searched"]
           c == FullWindow(Child(node, m), NewDepth(m))
<1>3. NewDepth(m) \in Nat
  BY <1>1, <1>2, TakenFacts
<1>4. /\ c.fn = "search" /\ c.node = Child(node, m) /\ c.depth = NewDepth(m) /\ c.ply = ply + 1
      /\ c.alpha = -Top.beta /\ c.beta = -Top.alpha
  BY DEF FullWindow, SearchCall
<1>5. CallFrom(f, c)
  BY <1>1
<1>6. <<c.alpha, c.beta>> = <<-Top.beta, -Top.alpha>>
  BY <1>4
<1> HIDE DEF c
<1> QED BY <1>1, <1>2, <1>3, <1>4, <1>5, <1>6, SafeMoveCalls

LEMMA SafeMoveProbed == ASSUME CInv, Guarded, MoveProbed PROVE CInv'
<1>1. PICK m : ~Skipped(m) /\ CallFrom([Entered(m) EXCEPT !.pc = "probed"], NullWindow(Child(node, m), LmrDepth(m)))
  BY DEF MoveProbed
<1>2. At("moves") /\ In("search") /\ UNCHANGED <<setting, result, tt, stopSearchFlag>>
  BY DEF MoveProbed
<1> DEFINE f == [Entered(m) EXCEPT !.pc = "probed"]
           c == NullWindow(Child(node, m), LmrDepth(m))
<1>3. LmrDepth(m) \in Nat
  BY <1>1, <1>2, TakenFacts
<1>4. /\ c.fn = "search" /\ c.node = Child(node, m) /\ c.depth = LmrDepth(m) /\ c.ply = ply + 1
      /\ c.alpha = -Top.alpha - 1 /\ c.beta = -Top.alpha
  BY DEF NullWindow, SearchCall
<1>5. CallFrom(f, c)
  BY <1>1
<1>6. <<c.alpha, c.beta>> = <<-Top.alpha - 1, -Top.alpha>>
  BY <1>4
<1> HIDE DEF c
<1> QED BY <1>1, <1>2, <1>3, <1>4, <1>5, <1>6, SafeMoveCalls

LEMMA SafeMoveQsearched == ASSUME CInv, Guarded, MoveQsearched PROVE CInv'
<1>1. PICK m : ~Skipped(m) /\ CallFrom([Entered(m) EXCEPT !.pc = "searched"],
                                  QsearchCall(Child(node, m), ply + 1, -Top.beta, -Top.alpha, Top.call.isPv))
  BY DEF MoveQsearched
<1>2. At("moves") /\ UNCHANGED <<setting, result, tt, stopSearchFlag>>
  BY DEF MoveQsearched
<1> DEFINE f == [Entered(m) EXCEPT !.pc = "searched"]
           c == QsearchCall(Child(node, m), ply + 1, -Top.beta, -Top.alpha, Top.call.isPv)
<1>4. /\ c.fn = "qsearch" /\ c.node = Child(node, m) /\ c.depth = 0 /\ c.ply = ply + 1
      /\ c.alpha = -Top.beta /\ c.beta = -Top.alpha
  BY DEF QsearchCall, SearchCall
<1>5. CallFrom(f, c)
  BY <1>1
<1>6. <<c.alpha, c.beta>> = <<-Top.beta, -Top.alpha>> /\ c.depth \in Nat
  BY <1>4
<1> HIDE DEF c
<1> QED BY <1>1, <1>2, <1>4, <1>5, <1>6, SafeMoveCalls

LEMMA SafeMoveResearched == ASSUME CInv, Guarded, MoveResearched PROVE CInv'
<1> DEFINE f == [Top EXCEPT !.pc = "searched"]
           c == FullWindow(Child(node, Top.move), Top.newDepth)
<1>1. At("probed") /\ CallFrom(f, c) /\ UNCHANGED <<setting, stopSearchFlag>> /\ result' = result /\ tt' = tt
  BY DEF MoveResearched
<1>2. /\ IsFrame(Top) /\ LabelOK(Top) /\ Top.pc = "probed" /\ Top.call.node = node /\ node \in Nodes /\ game \in Games
      /\ ply \in Plies /\ ply < MAX_DEPTH
      /\ Top.alpha \in Reach(ply) /\ Top.beta \in Reach(ply) /\ Top.alpha < Top.beta
  BY <1>1, InnerFacts
<1>3. Top.newDepth \in Nat /\ Child(node, Top.move) \in Nodes
  BY <1>2, GameFacts DEF LabelOK
<1>4. Agrees(Top, f) /\ f.pc = "searched"
  BY <1>2, Labelled
<1>5. /\ c.fn = "search" /\ c.node = Child(node, Top.move) /\ c.depth = Top.newDepth /\ c.ply = ply + 1
      /\ c.alpha = -Top.beta /\ c.beta = -Top.alpha
  BY DEF FullWindow, SearchCall
<1> HIDE DEF f, c
<1>6. LabelOK(f)
  BY <1>4 DEF LabelOK
<1>7. InWindow(-Top.beta, -Top.alpha, ply + 1) /\ ply + 1 \in Plies /\ ply <= ply + 1
  BY <1>2, Windows
<1> QED BY <1>1, <1>3, <1>4, <1>5, <1>6, <1>7, SafeCalls

(* Without a stop, the value of the move under way is one of this ply. *)
LEMMA ValueInReach ==
  ASSUME CInv, Guarded, NEW pc \in {"searched", "probed"}, At(pc), ~stopSearchFlag
  PROVE  value \in Reach(ply)
BY InnerFacts DEF SafeAnswer, value

LEMMA SafeProbeSuffices == ASSUME CInv, Guarded, ProbeSuffices PROVE CInv'
<1> DEFINE f == [Top EXCEPT !.pc = "searched"]
<1>1. At("probed") /\ Goto(f) /\ Quiet /\ result' = result /\ tt' = tt
  BY QuietFacts DEF ProbeSuffices
<1>2. /\ stack # <<>> /\ IsFrame(Top) /\ SafeTable /\ SafeResult /\ InsideOK(Top) /\ SafeCall(Top.call)
      /\ Top.call.ply = ply
  BY <1>1, InnerFacts
<1>3. Agrees(Top, f) /\ f.pc = "searched"
  BY <1>2, Labelled
<1> HIDE DEF f
<1>4. LabelOK(f)
  BY <1>3 DEF LabelOK
<1>5. SafeFrame(f) /\ f.call.ply = ply
  BY <1>2, <1>3, <1>4, AgreeingSafe DEF Agrees
<1>6. ~stopSearchFlag => -result'.value \in Reach(ply)
  BY <1>1, ValueInReach DEF value
<1>7. SafeTable' /\ SafeResult'
  BY <1>1, <1>2, Guarding
<1> QED BY <1>1, <1>2, <1>5, <1>6, <1>7, SafeGo

LEMMA SafeMoveStopped == ASSUME CInv, Guarded, MoveStopped PROVE CInv'
BY SafeStop DEF MoveStopped, Interrupted

(* The frame after a move. *)
LEMMA AfterMove ==
  ASSUME CInv, Guarded, At("searched"), ~stopSearchFlag
  PROVE  /\ value \in Reach(ply) /\ value \in Int
         /\ Top.bestNodeValue \in Int /\ (value <= Top.bestNodeValue => Top.bestNodeValue \in Reach(ply))
         /\ Top.alpha \in Reach(ply) /\ Top.alpha \in Int /\ Top.beta \in Int /\ Top.alpha < Top.beta
         /\ IsFrame(Undone) /\ Undone.call = Top.call /\ Undone.pc = "moves"
         /\ Undone.alpha = Top.alpha /\ Undone.beta = Top.beta /\ Undone.staticEval = Top.staticEval
         /\ Undone.bestNodeValue = Top.bestNodeValue /\ Undone.movesSearched \in Nat
         /\ IsFrame(Better) /\ Better.call = Top.call /\ Better.pc = "moves"
         /\ Better.alpha = Top.alpha /\ Better.beta = Top.beta /\ Better.staticEval = Top.staticEval
         /\ Better.bestNodeValue = value /\ Better.movesSearched \in Nat
<1> DEFINE t == Top
           v == value
           b == t.bestNodeValue
<1>1. /\ IsFrame(t) /\ InsideOK(t) /\ ply \in Plies /\ t.call.ply = ply
      /\ t.alpha \in Reach(ply) /\ t.beta \in Reach(ply) /\ t.alpha < t.beta
  BY InnerFacts
<1>2. v \in Reach(ply) /\ b \in Reach(ply) \cup {VALUE_NONE} /\ t.movesSearched \in Nat
  BY <1>1, ValueInReach DEF InsideOK
<1>3. v \in Int /\ -VALUE_CHECKMATE + ply <= v /\ t.alpha \in Int /\ t.beta \in Int /\ ply \in Nat
      /\ (b \in Reach(ply) => b \in Int)
  BY <1>1, <1>2, ReachDef
<1>4. b \in Int /\ (v <= b => b \in Reach(ply))
  <2> HIDE DEF v, b
  <2>1. VALUE_NONE \in Int /\ VALUE_NONE < v
    BY <1>3, ValueFacts
  <2> QED BY <1>2, <1>3, <2>1
<1>5. /\ IsFrame(Undone) /\ Undone.call = t.call /\ Undone.pc = "moves"
      /\ Undone.alpha = t.alpha /\ Undone.beta = t.beta /\ Undone.staticEval = t.staticEval
      /\ Undone.bestNodeValue = b /\ Undone.movesSearched \in Nat
  BY <1>1, <1>2 DEF Undone, IsFrame, Fields
<1> DEFINE u == Undone
<1> HIDE DEF u, v, t
<1>6. Better = [u EXCEPT !.bestNodeValue = v, !.bestNodeMove = t.move]
  BY DEF Better, u, v, t
<1>7. /\ IsFrame(Better) /\ Better.call = u.call /\ Better.pc = u.pc
      /\ Better.alpha = u.alpha /\ Better.beta = u.beta /\ Better.staticEval = u.staticEval
      /\ Better.bestNodeValue = v /\ Better.movesSearched = u.movesSearched
  <2>1. IsFrame(u)
    BY <1>5 DEF u
  <2> QED BY <1>6, <2>1 DEF IsFrame, Fields
<1> QED BY <1>1, <1>2, <1>3, <1>4, <1>5, <1>7 DEF u, v, t

LEMMA SafeMoveNoBetter == ASSUME CInv, Guarded, MoveNoBetter PROVE CInv'
<1>1. /\ At("searched") /\ ~stopSearchFlag /\ value <= Top.bestNodeValue /\ Goto(Undone)
      /\ UNCHANGED <<setting, stopSearchFlag>> /\ result' = result /\ tt' = tt
  BY DEF MoveNoBetter, Interrupted
<1> QED BY <1>1, AfterMove, SafeNewValues

LEMMA SafeMoveBest == ASSUME CInv, Guarded, MoveBest PROVE CInv'
<1>1. /\ At("searched") /\ ~stopSearchFlag /\ Goto(Better)
      /\ UNCHANGED <<setting, stopSearchFlag>> /\ result' = result /\ tt' = tt
  BY DEF MoveBest, Interrupted
<1> QED BY <1>1, AfterMove, SafeNewValues

LEMMA SafeMoveRaisesAlpha == ASSUME CInv, Guarded, MoveRaisesAlpha PROVE CInv'
<1> DEFINE f == [Better EXCEPT !.alpha = value, !.ttType = "EXACT"]
           v == value
           g == Better
<1>1. /\ At("searched") /\ ~stopSearchFlag /\ ~Cuts /\ Goto(f)
      /\ UNCHANGED <<setting, stopSearchFlag>> /\ result' = result /\ tt' = tt
  BY DEF MoveRaisesAlpha, Interrupted
<1>2. /\ v \in Reach(ply) /\ v \in Int /\ Top.beta \in Int /\ IsFrame(g) /\ g.call = Top.call /\ g.pc = "moves"
      /\ g.beta = Top.beta /\ g.staticEval = Top.staticEval /\ g.bestNodeValue = v /\ g.movesSearched \in Nat
  BY <1>1, AfterMove
<1>3. v < Top.beta
  BY <1>1, <1>2 DEF Cuts, Guarded
<1>4. f = [g EXCEPT !.alpha = v, !.ttType = "EXACT"]
  OBVIOUS
<1> HIDE DEF f, g, v
<1>5. /\ IsFrame(f) /\ f.call = Top.call /\ f.pc = "moves" /\ f.alpha = v /\ f.beta = Top.beta
      /\ f.staticEval = Top.staticEval /\ f.bestNodeValue = v /\ f.movesSearched \in Nat
  BY <1>2, <1>4 DEF IsFrame, Fields
<1> QED BY <1>1, <1>2, <1>3, <1>5, SafeNewValues

LEMMA SafeBetaCut == ASSUME CInv, Guarded, BetaCut PROVE CInv'
<1> DEFINE f == [Better EXCEPT !.pc = "end", !.ttType = "BETA"]
           v == value
           g == Better
<1>1. /\ At("searched") /\ ~stopSearchFlag /\ Goto(f)
      /\ UNCHANGED <<setting, stopSearchFlag>> /\ result' = result /\ tt' = tt
  BY DEF BetaCut, Interrupted
<1>2. /\ v \in Reach(ply) /\ IsFrame(g) /\ g.call = Top.call /\ g.alpha = Top.alpha
      /\ Top.alpha \in Reach(ply) /\ Top.alpha < Top.beta
      /\ g.beta = Top.beta /\ g.staticEval = Top.staticEval /\ g.bestNodeValue = v /\ g.movesSearched \in Nat
  BY <1>1, AfterMove
<1> HIDE DEF g, v
<1>3. /\ IsFrame(f) /\ f.call = Top.call /\ f.pc = "end" /\ f.alpha = Top.alpha /\ f.beta = Top.beta
      /\ f.staticEval = Top.staticEval /\ f.bestNodeValue = v /\ f.movesSearched \in Nat
  BY <1>2 DEF IsFrame, Fields, g
<1> HIDE DEF f
<1> QED BY <1>1, <1>2, <1>3, SafeNewValues

(* A node that was not interrupted has a value when it ends. *)
LEMMA EndedFacts ==
  ASSUME CInv, Guarded, At("end"), NEW f, f = Ended(Top)
  PROVE  /\ f.bestNodeValue \in Reach(ply) \cup {VALUE_NONE}
         /\ f.bestNodeValue = VALUE_NONE => stopSearchFlag
         /\ StaticOK(node, f.staticEval)
<1> DEFINE t == Top
<1>1. /\ IsFrame(t) /\ InsideOK(t) /\ SafeCall(t.call) /\ ply \in Plies /\ t.call.ply = ply /\ t.call.node = node
  BY InnerFacts
<1>2. f = Ended(t)
  OBVIOUS
<1> HIDE DEF t
<1>3. /\ t.bestNodeValue \in Reach(ply) \cup {VALUE_NONE} /\ t.movesSearched \in Nat
      /\ (t.movesSearched > 0 => t.bestNodeValue # VALUE_NONE) /\ StaticOK(node, t.staticEval)
      /\ (t.call.fn = "qsearch" /\ ~HasCheck(node) => t.bestNodeValue # VALUE_NONE)
  BY <1>1 DEF InsideOK
<1>4. /\ -VALUE_CHECKMATE + ply \in Reach(ply) /\ VALUE_DRAW \in Reach(ply) /\ VALUE_NONE \notin Reach(ply)
  BY <1>1, ReachDef
<1>5. CASE t.movesSearched > 0 \/ stopSearchFlag
  BY <1>2, <1>3, <1>5 DEF Ended
<1>6. CASE ~(t.movesSearched > 0 \/ stopSearchFlag) /\ HasCheck(node)
  <2>1. f.bestNodeValue = -VALUE_CHECKMATE + ply
    BY <1>1, <1>2, <1>6 DEF Ended, IsFrame, Fields
  <2> QED BY <1>4, <1>6, <2>1 DEF StaticOK
<1>7. CASE ~(t.movesSearched > 0 \/ stopSearchFlag) /\ ~HasCheck(node) /\ t.call.fn = "search"
  <2>1. f.bestNodeValue = VALUE_DRAW /\ f.staticEval = VALUE_DRAW
    BY <1>1, <1>2, <1>7 DEF Ended, IsFrame, Fields
  <2> QED BY <1>4, <2>1 DEF StaticOK
<1>8. CASE ~(t.movesSearched > 0 \/ stopSearchFlag) /\ ~HasCheck(node) /\ t.call.fn # "search"
  <2>1. f = t
    BY <1>1, <1>2, <1>8 DEF Ended
  <2>2. t.call.fn = "qsearch"
    BY <1>1, <1>8 DEF SafeCall
  <2> QED BY <1>3, <1>8, <2>1, <2>2
<1> QED BY <1>5, <1>6, <1>7, <1>8

LEMMA SafeLeave == ASSUME CInv, Guarded, Leave PROVE CInv'
<1> DEFINE f == Ended(Top)
           d == IF In("search") THEN depth ELSE 1
           v == f.bestNodeValue
           m == f.bestNodeMove
           ty == f.ttType
           e == f.staticEval
<1>2. At("end") /\ Return(v) /\ Quiet /\ (storeTt(d, m, v, ty, e) \/ tt' = tt)
  BY QuietFacts DEF Leave
<1>3. SafeStack /\ stack # <<>> /\ SafeTable
  BY <1>2, InnerFacts
<1>4. v \in Reach(ply) \cup {VALUE_NONE} /\ (v = VALUE_NONE => stopSearchFlag) /\ StaticOK(node, e)
  BY <1>2, EndedFacts
<1> HIDE DEF f, d, v, m, ty, e
<1>5. SafeTable'
  BY <1>2, <1>3, <1>4, Guarding, TableStored
<1> QED BY <1>2, <1>3, <1>4, <1>5, SafeReturn

-----------------------------------------------------------------------------
(***************************************************************************)
(* The caller, the other threads, and all steps together.                  *)
(***************************************************************************)
LEMMA SafeInit == ASSUME Init PROVE CInv
<1>1. stack = <<>> /\ Len(stack) = 0 /\ IsStack(stack)
  BY EmptySeq DEF Init, IsStack
<1>2. SafeStack
  BY <1>1 DEF SafeStack
<1>3. SafeAnswer
  BY <1>1 DEF SafeAnswer
<1>4. result.value = VALUE_NONE /\ result.call.node = 0 /\ game \in Games
  BY DEF Init, NoResult, SearchCall
<1>5. SafeResult
  BY <1>4, GameFacts DEF SafeResult
<1>6. SafeTable
  <2>1. \A n \in Nodes : tt[n] = NoEntry /\ SafeEntry(n, NoEntry)
    BY DEF Init, SafeEntry, NoEntry
  <2> QED BY <2>1 DEF SafeTable, Init
<1> QED BY <1>2, <1>3, <1>4, <1>5, <1>6 DEF CInv, Init

LEMMA SafeRootCall == ASSUME CInv, Guarded, RootCall PROVE CInv'
<1>1. PICK r \in game.roots : stack' = <<Frame(SearchCall(r.node, r.depth, 1, r.alpha, r.beta, r.isPv, TRUE))>>
  BY DEF RootCall
<1>2. Quiet /\ result' = result /\ tt' = tt
  BY DEF RootCall, Quiet
<1> DEFINE c == SearchCall(r.node, r.depth, 1, r.alpha, r.beta, r.isPv, TRUE)
           g == Frame(c)
<1>3. SafeCall(c)
  <2>1. IsRoot(r, game)
    BY GameFacts DEF CInv
  <2>2. 1 \in Plies
    BY DepthFacts DEF Plies
  <2>3. /\ c.fn = "search" /\ c.node = r.node /\ c.depth = r.depth /\ c.ply = 1
        /\ c.alpha = r.alpha /\ c.beta = r.beta
    BY DEF SearchCall
  <2> HIDE DEF c
  <2>4. /\ r.alpha \in Values /\ r.beta \in Values /\ r.alpha < r.beta /\ r.node \in Nodes /\ r.depth \in Nat
        /\ -VALUE_CHECKMATE + 1 - 1 <= r.alpha /\ r.beta <= VALUE_CHECKMATE - 1 + 1
    BY <2>1, ValueFacts, DepthFacts DEF IsRoot, Values, Nodes
  <2> QED BY <2>2, <2>3, <2>4 DEF SafeCall
<1> HIDE DEF c
<1>4. SafeFrame(g) /\ g.pc = "enter"
  BY <1>3, FreshSafe DEF Frame
<1>5. stack' = <<g>>
  BY <1>1 DEF c
<1>6. Fixed
  BY <1>2, Guarding
<1> HIDE DEF g
<1>7. Len(stack') = 1 /\ stack'[1] = g /\ IsStack(stack') /\ stack' # <<>>
  <2> DEFINE S == {g}
  <2>1. <<g>> \in Seq(S)
    OBVIOUS
  <2> HIDE DEF S
  <2>2. IsStack(<<g>>)
    BY <2>1, OwnElements
  <2> QED BY <1>5, <2>2
<1>8. SafeStack'
  <2>1. \A h \in {g} : SafeFrame(h)'
    BY <1>4, <1>6, CallKept
  <2> QED BY <1>7, <2>1 DEF SafeStack, IsStack
<1>9. SafeAnswer'
  <2>1. Top' = g
    BY <1>7 DEF Top
  <2> QED BY <1>4, <2>1 DEF SafeAnswer
<1>10. SafeResult' /\ SafeTable' /\ Guarded' /\ game' \in Games /\ searches' \in Nat
  BY <1>2, Guarding DEF CInv, Quiet
<1> QED BY <1>8, <1>9, <1>10 DEF CInv

LEMMA SafeRaiseStop == ASSUME CInv, Guarded, RaiseStop PROVE CInv'
<1>1. /\ stopSearchFlag' = TRUE /\ UNCHANGED <<game, features, searches, stack, result, tt>>
  BY DEF RaiseStop, setting
<1>2. Fixed /\ SafeStack /\ SafeResult /\ SafeTable
  BY <1>1 DEF Fixed, CInv
<1>3. SafeTable'
  BY <1>1, <1>2, TableKept
<1>4. SafeStack'
  <2>1. \A i \in 1 .. Len(stack) : \A f \in {stack[i]} : SafeFrame(f)'
    BY <1>2, CallKept DEF SafeStack
  <2> QED BY <1>1, <1>2, <2>1 DEF SafeStack, IsStack
<1> QED BY <1>1, <1>2, <1>3, <1>4 DEF CInv, SafeAnswer, SafeResult, Values

LEMMA SafeNextSearch == ASSUME CInv, NextSearch PROVE CInv'
<1>1. searches' = searches + 1 /\ game' = game /\ searches \in Nat /\ game \in Games
  BY DEF NextSearch, CInv
<1>2. searches' # 0 /\ searches' \in Nat
  BY <1>1
<1> QED BY <1>1, <1>2 DEF CInv, Guarded

LEMMA SafeIdle == ASSUME CInv, UNCHANGED vars PROVE CInv'
<1>1. /\ UNCHANGED <<game, features, searches, stopSearchFlag>> /\ stack' = stack /\ result' = result /\ tt' = tt
  BY DEF vars
<1>2. Quiet
  BY <1>1 DEF Quiet
<1>3. SUFFICES ASSUME Guarded PROVE CInv'
  BY <1>1, <1>2, Guarding DEF CInv
<1>4. Fixed /\ SafeStack /\ SafeAnswer /\ SafeResult /\ SafeTable
  BY <1>2, <1>3, Guarding DEF CInv
<1>5. SafeTable' /\ SafeResult'
  BY <1>1, <1>2, <1>4, Guarding
<1>6. SafeStack'
  <2>1. \A i \in 1 .. Len(stack) : \A f \in {stack[i]} : SafeFrame(f)'
    BY <1>4, CallKept DEF SafeStack
  <2> QED BY <1>1, <1>4, <2>1 DEF SafeStack, IsStack
<1>7. SafeAnswer'
  BY <1>1, <1>4 DEF SafeAnswer, Top, ply, Reach
<1> QED BY <1>1, <1>5, <1>6, <1>7 DEF CInv

LEMMA SafeSearchStep == ASSUME CInv, Guarded, SearchStep PROVE CInv'
<1>1. ASSUME Enter PROVE CInv'
  BY <1>1, SafeEnterQuiescence, SafeEvaluateOnly, SafeStop, SafeMateDistanceCut, SafeTtCut,
     SafeEnterSearch, SafeStandPatCut, SafeEnterQsearch DEF Enter, EnterStopped
<1>2. ASSUME BeforeMoves PROVE CInv'
  BY <1>2, SafeRazor, SafeReverseFutilityCut, SafeNullMove, SafeNoNullMove, SafeNullMoveCut,
     SafeNullMoveFailed, SafeIid, SafeReductionStopped, SafeStartMoves, SafeStartMovesAfterIid
  DEF BeforeMoves
<1>3. ASSUME MoveLoop PROVE CInv'
  BY <1>3, SafeSkipMove, SafeMoveToDraw, SafeMoveSearched, SafeMoveProbed, SafeMoveQsearched,
     SafeMoveResearched, SafeProbeSuffices, SafeMoveStopped, SafeMoveNoBetter, SafeMoveBest,
     SafeMoveRaisesAlpha, SafeBetaCut, SafeNoMoreMoves, SafeLeave
  DEF MoveLoop
<1> QED BY <1>1, <1>2, <1>3 DEF SearchStep

LEMMA SettingSame == ASSUME SearchStep \/ RootCall \/ RaiseStop PROVE UNCHANGED <<game, features, searches>>
BY DEF SearchStep, Enter, BeforeMoves, MoveLoop, RootCall, RaiseStop,
       setting, EnterQuiescence, EvaluateOnly, EnterStopped, MateDistanceCut, TtCut,
       EnterSearch, StandPatCut, EnterQsearch, Razor, ReverseFutilityCut, NullMove, NoNullMove,
       NullMoveCut, NullMoveFailed, Iid, ReductionStopped, StartMoves, StartMovesAfterIid,
       SkipMove, MoveToDraw, MoveSearched, MoveProbed, MoveQsearched, MoveResearched,
       ProbeSuffices, MoveStopped, MoveNoBetter, MoveBest, MoveRaisesAlpha, BetaCut, NoMoreMoves, Leave

LEMMA SafeNext == ASSUME CInv, [Next]_vars PROVE CInv'
<1>1. CASE NextSearch
  BY <1>1, SafeNextSearch
<1>2. CASE UNCHANGED vars
  BY <1>2, SafeIdle
<1>3. CASE SearchStep \/ RootCall \/ RaiseStop
  <2>1. CASE Guarded
    BY <1>3, <2>1, SafeSearchStep, SafeRootCall, SafeRaiseStop
  <2>2. CASE ~Guarded
    <3>1. UNCHANGED <<game, features, searches>>
      BY <1>3, SettingSame
    <3>2. ~Guarded' /\ game' \in Games /\ searches' \in Nat
      BY <2>2, <3>1 DEF Guarded, On, CInv
    <3> QED BY <3>2 DEF CInv
  <2> QED BY <2>1, <2>2
<1> QED BY <1>1, <1>2, <1>3 DEF Next, Idle

(* What the invariant says of the property.                                *)
LEMMA SafeIsContained == ASSUME CInv, Guarded PROVE InterruptionContained
<1>1. SafeStack /\ SafeResult /\ SafeTable
  BY DEF CInv
<1>2. ASSUME NEW i \in 1 .. Len(stack)
      PROVE  /\ stack[i].bestNodeValue \in Values \cup {VALUE_NONE}
             /\ stack[i].alpha \in Values /\ stack[i].beta \in Values
  <2> DEFINE f == stack[i]
  <2>1. SafeFrame(f)
    BY <1>1 DEF SafeStack
  <2> HIDE DEF f
  <2>2. CASE f.pc = "enter"
    <3>1. f = Frame(f.call) /\ f.call.alpha \in Values /\ f.call.beta \in Values
      BY <2>1, <2>2 DEF SafeFrame, SafeCall
    <3>2. \A c : Frame(c).bestNodeValue = VALUE_NONE /\ Frame(c).alpha = c.alpha /\ Frame(c).beta = c.beta
      BY DEF Frame
    <3> QED BY <3>1, <3>2 DEF f
  <2>3. CASE f.pc # "enter"
    <3>1. InsideOK(f) /\ f.call.ply \in Plies
      BY <2>1, <2>3 DEF SafeFrame, SafeCall
    <3>2. Reach(f.call.ply) \subseteq Values
      BY <3>1, ReachDef
    <3> QED BY <3>1, <3>2 DEF InsideOK, f
  <2> QED BY <2>2, <2>3
<1>3. \A n \in Nodes : tt[n].value \in Values \cup {VALUE_NONE}
  BY <1>1 DEF SafeTable, SafeEntry
<1>4. Returned => result.value \in Values
  BY <1>1 DEF SafeResult, Returned
<1> QED BY <1>1, <1>2, <1>3, <1>4 DEF InterruptionContained, SafeResult

(* search(), qsearch(): in the first search of a game, whose table starts  *)
(* empty, neither VALUE_NONE nor its negation reaches a window, the best   *)
(* value of a node, the table or a caller that goes on: for every game,    *)
(* every order of the moves, every moment of the stop and every selection  *)
(* of switches that leaves the window cut and narrowed.                    *)
THEOREM InterruptionsContained == Spec => [](Guarded => InterruptionContained)
<1>1. Init => CInv
  BY SafeInit
<1>2. CInv /\ [Next]_vars => CInv'
  BY SafeNext
<1>3. CInv => (Guarded => InterruptionContained)
  BY SafeIsContained
<1> QED BY <1>1, <1>2, <1>3, PTL DEF Spec

-----------------------------------------------------------------------------
(***************************************************************************)
(* Principal variations: what search() leaves in pv[ply] can be played     *)
(* from its node, for every game and whatever prunes, reduces or extends.  *)
(*                                                                         *)
(* The array is shared by all nodes of a ply.  That a line is read before  *)
(* a cousin overwrites it is what the invariant has to say.                *)
(***************************************************************************)
(* No draws, no table in qsearch(), an end to the leaves, and the cut. *)
Lined ==
  On("ALPHABETA") /\ On("QUIESCENCE") /\ ~On("QS_TT") /\ game.drawn = {}

-----------------------------------------------------------------------------
(***************************************************************************)
(* Lines.                                                                  *)
(***************************************************************************)
AllMoves == UNION {Legal(n) : n \in Nodes}
MovesOf(n) == Legal(n) \cup {MOVE_NONE}

(* The positions that the line passes. *)
Path(n0, line) ==
  \E p \in [0 .. Len(line) -> Nodes] :
    /\ p[0] = n0
    /\ \A k \in 1 .. Len(line) : line[k] \in Legal(p[k - 1]) /\ p[k] = Child(p[k - 1], line[k])

Line(n, line) == line \in Seq(AllMoves) /\ Path(n, line)

-----------------------------------------------------------------------------
(***************************************************************************)
(* The invariant.                                                          *)
(***************************************************************************)
LineCall(c) ==
  /\ c.fn \in {"search", "qsearch"} /\ c.node \in Nodes /\ c.depth \in Nat /\ c.ply \in Plies
  /\ c.alpha \in Int /\ c.beta \in Int

(* The window of a node that mate distance pruning has narrowed. *)
Inside(a, b, p) == -VALUE_CHECKMATE + p <= a /\ a < b /\ b <= VALUE_CHECKMATE - p

(* The values of the leaves at a ply. *)
Within(v, p) == -VALUE_CHECKMATE + p <= v /\ v < VALUE_CHECKMATE - p

PastEntry(f) ==
  /\ f.alpha \in Int /\ f.beta \in Int /\ f.bestNodeValue \in Int
  /\ f.beta = f.call.beta \/ (On("MDP") /\ f.beta = VALUE_CHECKMATE - f.call.ply)
  /\ On("MDP") => Inside(f.alpha, f.beta, f.call.ply)
  /\ f.pc = "prune" /\ ~On("MDP") => f.alpha = f.call.alpha
  /\ StaticOK(f.call.node, f.staticEval)
  /\ f.call.fn = "search" => f.call.depth > 0
  /\ f.call.ply < MAX_DEPTH

LeafBest(f) ==
  On("MDP") /\ f.call.fn = "qsearch" /\ f.pc \in Looping =>
    /\ f.bestNodeValue = VALUE_NONE \/ Within(f.bestNodeValue, f.call.ply)
    /\ f.movesSearched \in Nat
    /\ f.movesSearched > 0 \/ ~HasCheck(f.call.node) => f.bestNodeValue # VALUE_NONE

LineFrame(f, line) ==
  /\ IsFrame(f) /\ LineCall(f.call)
  /\ f.pc \in {"enter", "prune", "nullMoved", "iid", "iidSearched"} \cup Looping
  /\ f.pc = "enter" => f = Frame(f.call)
  /\ f.pc # "enter" => PastEntry(f)
  /\ LeafBest(f)
  /\ f.pc \in {"prune", "nullMoved", "iid", "iidSearched", "probed"} => f.call.fn = "search"
  /\ f.pc \in {"prune", "nullMoved"} => f.ttMove \in MovesOf(f.call.node)
  /\ f.pc \in {"probed", "searched"} => f.move \in Legal(f.call.node)
  /\ f.pc = "probed" => f.newDepth \in Nat
  /\ f.pc \in Looping => Line(f.call.node, line)
  /\ f.bestNodeMove \in MovesOf(f.call.node)

LinesOK ==
  \A i \in 1 .. Len(stack) : \A f \in {stack[i]} : \A line \in {pv[f.call.ply]} : LineFrame(f, line)

(* A frame waits, below frames of higher plies unless it has not begun its loop. *)
Awaits(f, g) ==
  /\ f.pc \in {"searched", "probed", "nullMoved", "iidSearched"} /\ f.call.ply <= g.call.ply
  /\ f.pc \in Looping => f.call.ply < g.call.ply

(* The window handed on, or, by razoring, that of the node it was handed to. *)
AskedFor(f, c) ==
  /\ f.pc \in {"searched", "probed"} => c.ply = f.call.ply + 1
  /\ f.pc = "searched" =>
       /\ c.node = Child(f.call.node, f.move)
       /\ f.call.fn = "qsearch" => c.fn = "qsearch"
       /\ \/ c.alpha = -f.beta /\ c.beta = -f.alpha
          \/ /\ On("MDP") /\ c.fn = "qsearch" /\ Inside(c.alpha, c.beta, c.ply)
             /\ c.beta \in {-f.alpha, VALUE_CHECKMATE - c.ply}

InOrder ==
  /\ \A j \in 1 .. Len(stack) : \A i \in 1 .. j - 1 : Awaits(stack[i], stack[j])
  /\ \A i \in 1 .. Len(stack) - 1 : \A f \in {stack[i]}, c \in {stack[i + 1].call} : AskedFor(f, c)

(* The frame f takes the value v of the call c: a value in the window comes *)
(* with a line.                                                             *)
TakesLine(f, c, v, line) ==
  /\ f.pc \in {"searched", "probed"} => c.ply = f.call.ply + 1
  /\ f.pc = "searched" /\ f.alpha < -v /\ -v < f.beta => Line(Child(f.call.node, f.move), line)
  /\ f.pc = "searched" /\ f.call.fn = "qsearch" /\ On("MDP") => Within(-v, f.call.ply)

AnswerHasLine ==
  ~stopSearchFlag /\ stack # <<>> =>
    \A f \in {Top}, c \in {result.call}, v \in {result.value} :
      TakesLine(f, c, v, pv[f.call.ply + 1])

HasLine(c, v, line) ==
  /\ v < c.beta
  /\ c.alpha < v \/ (On("MDP") /\ Inside(c.alpha, c.beta, c.ply))
  => Line(c.node, line)

(* What qsearch() returns without a stop. *)
LeafValue(c, v) ==
  On("MDP") /\ c.fn = "qsearch" =>
    /\ -VALUE_CHECKMATE + c.ply <= v
    /\ v <= c.alpha \/ v < VALUE_CHECKMATE - c.ply

ResultHasLine ==
  \A c \in {result.call}, v \in {result.value} :
    /\ v \in Int
    /\ (v # VALUE_NONE \/ ~stopSearchFlag) /\ c.node \in Nodes =>
         c.ply \in Plies /\ HasLine(c, v, pv[c.ply])

LineEntry(n, e) ==
  /\ DOMAIN e = DOMAIN NoEntry
  /\ e.move \in MovesOf(n) /\ e.value \in Int
  /\ e.eval = VALUE_NONE \/ StaticOK(n, e.eval)

TableHasMoves == DOMAIN tt = Nodes /\ \A n \in Nodes : LineEntry(n, tt[n])

(* At the last ply qsearch() only evaluates: nobody writes a line there. *)
PvTyped == pv \in [Plies -> Seq(AllMoves)] /\ pv[MAX_DEPTH] = <<>>

LInv ==
  /\ game \in Games
  /\ Lined => PvTyped /\ IsStack(stack) /\ LinesOK /\ InOrder /\ AnswerHasLine /\ ResultHasLine
              /\ TableHasMoves

-----------------------------------------------------------------------------
(***************************************************************************)
(* What is known of lines.                                                 *)
(***************************************************************************)
LEMMA NoLine == ASSUME NEW n \in Nodes PROVE Line(n, <<>>)
<1> DEFINE p == [k \in 0 .. 0 |-> n]
<1>1. p \in [0 .. 0 -> Nodes] /\ p[0] = n
  OBVIOUS
<1>2. Len(<<>>) = 0 /\ <<>> \in Seq(AllMoves) /\ 1 .. 0 = {}
  OBVIOUS
<1> HIDE DEF p
<1> QED BY <1>1, <1>2 DEF Line, Path

LEMMA MovesAreKnown == ASSUME NEW n \in Nodes PROVE Legal(n) \subseteq AllMoves
BY DEF AllMoves

LEMMA Consed ==
  ASSUME NEW S, NEW m \in S, NEW s \in Seq(S), NEW r, r = <<m>> \o s
  PROVE  /\ r \in Seq(S) /\ Len(s) \in Nat /\ Len(r) = Len(s) + 1 /\ r[1] = m
         /\ \A k \in 2 .. Len(s) + 1 : r[k] = s[k - 1]
<1> DEFINE u == <<m>>
<1>1. u \in Seq(S) /\ Len(u) = 1 /\ u[1] = m
  OBVIOUS
<1>2. r = u \o s
  OBVIOUS
<1> HIDE DEF u
<1>3. /\ u \o s \in Seq(S) /\ Len(u \o s) = Len(u) + Len(s)
      /\ \A k \in 1 .. Len(u) + Len(s) : (u \o s)[k] = IF k <= Len(u) THEN u[k] ELSE s[k - Len(u)]
  BY <1>1, ConcatProperties
<1>4. Len(s) \in Nat
  OBVIOUS
<1> DEFINE n == Len(s)
<1>5. /\ r \in Seq(S) /\ Len(r) = 1 + n /\ n \in Nat
      /\ \A k \in 1 .. 1 + n : r[k] = IF k <= 1 THEN u[k] ELSE s[k - 1]
  BY <1>1, <1>2, <1>3, <1>4
<1> HIDE DEF n
<1>6. 1 + n = n + 1 /\ 1 \in 1 .. 1 + n /\ \A k \in 2 .. n + 1 : k \in 1 .. 1 + n /\ ~(k <= 1)
  BY <1>5
<1> QED BY <1>1, <1>5, <1>6 DEF n

LEMMA LongerLine ==
  ASSUME NEW n \in Nodes, NEW m \in Legal(n), NEW line, Line(Child(n, m), line)
  PROVE  Line(n, <<m>> \o line)
<1> DEFINE r == <<m>> \o line
           h == Len(line)
<1>1. m \in AllMoves /\ line \in Seq(AllMoves)
  BY MovesAreKnown DEF Line
<1>2. /\ r \in Seq(AllMoves) /\ h \in Nat /\ Len(r) = h + 1 /\ r[1] = m
      /\ \A k \in 2 .. h + 1 : r[k] = line[k - 1]
  BY <1>1, Consed
<1>3. PICK p \in [0 .. h -> Nodes] :
        p[0] = Child(n, m) /\ \A k \in 1 .. h : line[k] \in Legal(p[k - 1]) /\ p[k] = Child(p[k - 1], line[k])
  BY DEF Line, Path
<1> HIDE DEF r, h
<1> DEFINE q == [k \in 0 .. h + 1 |-> IF k = 0 THEN n ELSE p[k - 1]]
<1>4. \A k \in 0 .. h + 1 : k # 0 => k - 1 \in 0 .. h
  BY <1>2
<1>5. q \in [0 .. h + 1 -> Nodes] /\ q[0] = n
  BY <1>2, <1>4
<1>6. ASSUME NEW k \in 1 .. h + 1 PROVE r[k] \in Legal(q[k - 1]) /\ q[k] = Child(q[k - 1], r[k])
  <2>1. k \in 0 .. h + 1 /\ k - 1 \in 0 .. h + 1 /\ k # 0 /\ q[k] = p[k - 1]
    BY <1>2
  <2>2. CASE k = 1
    BY <1>2, <1>3, <2>1, <2>2
  <2>3. CASE k # 1
    <3>1. k \in 2 .. h + 1 /\ k - 1 \in 1 .. h /\ k - 1 # 0
      BY <1>2, <2>3
    <3>2. q[k - 1] = p[k - 1 - 1] /\ r[k] = line[k - 1]
      BY <1>2, <2>1, <3>1
    <3> QED BY <1>3, <2>1, <3>1, <3>2
  <2> QED BY <2>2, <2>3
<1> HIDE DEF q
<1>7. Path(n, r)
  BY <1>2, <1>5, <1>6 DEF Path
<1> QED BY <1>2, <1>7 DEF Line, r

(* A path is what the recursive definition finds. *)
LEMMA LineIsPlayable ==
  ASSUME game \in Games, NEW n \in Nodes, NEW line, Line(n, line)
  PROVE  Playable(n, line)
<1> DEFINE h == Len(line)
           At0(p, k) == IF k = 0 THEN n
                        ELSE IF p[k - 1] \in Nodes /\ line[k] \in Legal(p[k - 1])
                        THEN Child(p[k - 1], line[k]) ELSE 0
           p0 == CHOOSE p : p = [k \in 0 .. h |-> At0(p, k)]
<1>1. h \in Nat
  BY DEF Line
<1>2. PICK q \in [0 .. h -> Nodes] :
        q[0] = n /\ \A k \in 1 .. h : line[k] \in Legal(q[k - 1]) /\ q[k] = Child(q[k - 1], line[k])
  BY DEF Line, Path
<1> HIDE DEF h
<1>3. q = [k \in 0 .. h |-> At0(q, k)]
  <2>1. ASSUME NEW k \in 0 .. h PROVE q[k] = At0(q, k)
    <3>1. CASE k = 0
      BY <1>2, <3>1
    <3>2. CASE k # 0
      <4>1. k \in 1 .. h /\ k - 1 \in 0 .. h
        BY <1>1, <3>2
      <4> QED BY <1>2, <3>2, <4>1
    <3> QED BY <3>1, <3>2
  <2> HIDE DEF At0
  <2> QED BY <1>2, <2>1
<1>4. p0 = [k \in 0 .. h |-> At0(p0, k)]
  <2> HIDE DEF At0
  <2> QED BY <1>3
<1> HIDE DEF p0
<1> DEFINE S == {k \in Nat : k <= h => p0[k] = q[k]}
<1>5. 0 \in S
  BY <1>1, <1>2, <1>4
<1>6. ASSUME NEW k \in Nat, k \in S PROVE k + 1 \in S
  <2> SUFFICES ASSUME k + 1 <= h PROVE p0[k + 1] = q[k + 1]
    OBVIOUS
  <2>1. k + 1 \in 0 .. h /\ k + 1 \in 1 .. h /\ k \in 0 .. h /\ k + 1 # 0 /\ (k + 1) - 1 = k /\ k <= h
    BY <1>1
  <2>2. p0[k] = q[k] /\ q[k] \in Nodes
    BY <1>2, <1>6, <2>1
  <2>3. p0[k + 1] = At0(p0, k + 1)
    <3> HIDE DEF At0
    <3> QED BY <1>4, <2>1
  <2>4. q[k + 1] = At0(q, k + 1)
    <3> HIDE DEF At0
    <3> QED BY <1>3, <2>1
  <2> QED BY <2>1, <2>2, <2>3, <2>4
<1> HIDE DEF S
<1>7. h \in S
  BY <1>1, <1>5, <1>6, SetInduction
<1>8. p0[h] \in Nodes
  BY <1>1, <1>2, <1>7 DEF S
<1>9. p0[h] # 0
  BY <1>8, GameFacts
<1> QED BY <1>9 DEF Playable, p0, h

(* getPvLine: the lines of the table, one move longer at a time. *)
LinesOf(k, shorter) ==
  [x \in Nodes |-> IF k = 0 \/ tt[x].move = MOVE_NONE THEN <<>>
                   ELSE <<tt[x].move>> \o shorter[Child(x, tt[x].move)]]
IsLines(l, d) == l = [k \in 0 .. d |-> LinesOf(k, l[k - 1])]

LEMMA NoMoves == ASSUME NEW a, NEW b PROVE LinesOf(0, a) = LinesOf(0, b)
BY DEF LinesOf

LEMMA LinesExist == ASSUME NEW d \in Nat PROVE \E l : IsLines(l, d)
<1> DEFINE S == {k \in Nat : \E l : IsLines(l, k)}
<1>1. 0 \in S
  <2> DEFINE l == [k \in 0 .. 0 |-> LinesOf(0, 0)]
  <2>1. \A k \in 0 .. 0 : k = 0
    OBVIOUS
  <2>2. \A x : \A k \in 0 .. 0 : LinesOf(0, 0) = LinesOf(k, x)
    BY <2>1, NoMoves
  <2>3. l = [k \in 0 .. 0 |-> LinesOf(k, l[k - 1])]
    BY <2>2
  <2>4. IsLines(l, 0)
    BY <2>3 DEF IsLines
  <2> QED BY <2>4
<1>2. ASSUME NEW k \in Nat, k \in S PROVE k + 1 \in S
  <2>1. PICK l : IsLines(l, k)
    BY <1>2
  <2> DEFINE r == [j \in 0 .. k + 1 |-> IF j = k + 1 THEN LinesOf(j, l[k]) ELSE l[j]]
  <2>2. ASSUME NEW j \in 0 .. k + 1 PROVE r[j] = LinesOf(j, r[j - 1])
    <3>1. CASE j = k + 1
      <4>1. j - 1 = k /\ k \in 0 .. k + 1 /\ k # k + 1
        BY <3>1
      <4> QED BY <3>1, <4>1
    <3>2. CASE j # k + 1
      <4>1. j \in 0 .. k
        BY <3>2
      <4>2. r[j] = l[j] /\ l[j] = LinesOf(j, l[j - 1])
        BY <2>1, <3>2, <4>1 DEF IsLines
      <4>3. CASE j = 0
        <5> HIDE DEF r
        <5>1. LinesOf(j, l[j - 1]) = LinesOf(j, r[j - 1])
          BY <4>3, NoMoves
        <5> QED BY <4>2, <5>1
      <4>4. CASE j # 0
        <5>1. j - 1 \in 0 .. k + 1 /\ j - 1 # k + 1
          BY <4>1, <4>4
        <5>2. r[j - 1] = l[j - 1]
          BY <5>1
        <5> QED BY <4>2, <5>2
      <4> QED BY <4>3, <4>4
    <3> QED BY <3>1, <3>2
  <2>3. r = [j \in 0 .. k + 1 |-> r[j]]
    OBVIOUS
  <2> HIDE DEF r
  <2>4. IsLines(r, k + 1)
    BY <2>2, <2>3 DEF IsLines
  <2> QED BY <2>4
<1> HIDE DEF S
<1>3. d \in S
  BY <1>1, <1>2, SetInduction
<1> QED BY <1>3 DEF S

LEMMA TableLine ==
  ASSUME game \in Games, TableHasMoves, NEW n \in Nodes, NEW d \in Nat
  PROVE  Line(n, PvLine(n, d))
<1> DEFINE l == CHOOSE l : l = [k \in 0 .. d |->
                  [x \in Nodes |-> IF k = 0 \/ tt[x].move = MOVE_NONE THEN <<>>
                                   ELSE <<tt[x].move>> \o l[k - 1][Child(x, tt[x].move)]]]
<1>1. IsLines(l, d)
  BY LinesExist DEF IsLines, LinesOf
<1>2. PvLine(n, d) = l[d][n]
  BY DEF PvLine
<1> HIDE DEF l
<1> DEFINE S == {k \in Nat : k <= d => \A x \in Nodes : Line(x, l[k][x])}
<1>3. \A k \in 0 .. d : l[k] = LinesOf(k, l[k - 1])
  BY <1>1 DEF IsLines
<1>4. 0 \in S
  <2>1. l[0] = LinesOf(0, l[0 - 1])
    BY <1>3
  <2>2. \A x \in Nodes : l[0][x] = <<>>
    BY <2>1 DEF LinesOf
  <2> QED BY <2>2, NoLine
<1>5. ASSUME NEW k \in Nat, k \in S PROVE k + 1 \in S
  <2> SUFFICES ASSUME k + 1 <= d, NEW x \in Nodes PROVE Line(x, l[k + 1][x])
    OBVIOUS
  <2> DEFINE m == tt[x].move
  <2>1. k + 1 \in 0 .. d /\ k + 1 # 0 /\ (k + 1) - 1 = k /\ k <= d
    OBVIOUS
  <2>2. l[k + 1][x] = IF m = MOVE_NONE THEN <<>> ELSE <<m>> \o l[k][Child(x, m)]
    <3>1. l[k + 1] = LinesOf(k + 1, l[k])
      <4>1. l[k + 1] = LinesOf(k + 1, l[k + 1 - 1])
        BY <1>3, <2>1
      <4> QED BY <2>1, <4>1
    <3>2. LinesOf(k + 1, l[k])[x] = IF m = MOVE_NONE THEN <<>> ELSE <<m>> \o l[k][Child(x, m)]
      BY <2>1 DEF LinesOf
    <3> QED BY <3>1, <3>2
  <2>3. m \in MovesOf(x)
    BY DEF TableHasMoves, LineEntry
  <2> HIDE DEF m
  <2>4. CASE m = MOVE_NONE
    BY <2>2, <2>4, NoLine
  <2>5. CASE m # MOVE_NONE
    <3>1. m \in Legal(x) /\ Child(x, m) \in Nodes
      BY <2>3, <2>5, GameFacts DEF MovesOf
    <3>2. Line(Child(x, m), l[k][Child(x, m)])
      BY <1>5, <2>1, <3>1
    <3> QED BY <2>2, <2>5, <3>1, <3>2, LongerLine
  <2> QED BY <2>4, <2>5
<1> HIDE DEF S
<1>6. d \in S
  BY <1>4, <1>5, SetInduction
<1> QED BY <1>2, <1>6 DEF S

-----------------------------------------------------------------------------
(***************************************************************************)
(* What a step leaves alone.                                               *)
(***************************************************************************)
LEMMA LinesFixed ==
  ASSUME Fixed
  PROVE  /\ Nodes' = Nodes /\ AllMoves' = AllMoves /\ (Lined' <=> Lined)
         /\ \A f, line : LineFrame(f, line)' <=> LineFrame(f, line)
         /\ \A f, c : AskedFor(f, c)' <=> AskedFor(f, c)
         /\ \A f, c, v, line : TakesLine(f, c, v, line)' <=> TakesLine(f, c, v, line)
         /\ \A c, v, line : HasLine(c, v, line)' <=> HasLine(c, v, line)
         /\ \A n, e : LineEntry(n, e)' <=> LineEntry(n, e)
<1>1. Nodes' = Nodes /\ \A n : Legal(n)' = Legal(n)
  BY DEF Fixed, Nodes, Legal
<1>2. AllMoves' = AllMoves /\ \A n : MovesOf(n)' = MovesOf(n)
  BY <1>1 DEF AllMoves, MovesOf
<1>3. \A n, m : Child(n, m)' = Child(n, m)
  BY DEF Fixed, Child
<1>4. \A n, line : Path(n, line)' <=> Path(n, line)
  BY <1>1, <1>3 DEF Path
<1>5. \A n, line : Line(n, line)' <=> Line(n, line)
  BY <1>2, <1>4 DEF Line
<1>6. \A n, e : StaticOK(n, e)' <=> StaticOK(n, e)
  BY CallKept
<1>7. (On("MDP")' <=> On("MDP")) /\ \A n : HasCheck(n)' <=> HasCheck(n)
  BY DEF Fixed, On, HasCheck
<1>8. \A c : LineCall(c)' <=> LineCall(c)
  BY <1>1 DEF LineCall, Plies
<1>9. \A f : PastEntry(f)' <=> PastEntry(f)
  BY <1>6, <1>7 DEF PastEntry, Inside
<1>10. \A f : LeafBest(f)' <=> LeafBest(f)
  BY <1>7 DEF LeafBest, Within, Looping
<1>11. \A f, line : LineFrame(f, line)' <=> LineFrame(f, line)
  BY <1>1, <1>2, <1>5, <1>8, <1>9, <1>10 DEF LineFrame, IsFrame, Fields, Looping, Frame
<1>12. \A f, c : AskedFor(f, c)' <=> AskedFor(f, c)
  BY <1>3, <1>7 DEF AskedFor, Inside
<1>13. \A f, c, v, line : TakesLine(f, c, v, line)' <=> TakesLine(f, c, v, line)
  BY <1>3, <1>5, <1>7 DEF TakesLine, Within
<1>14. \A c, v, line : HasLine(c, v, line)' <=> HasLine(c, v, line)
  BY <1>5, <1>7 DEF HasLine, Inside
<1>15. \A n, e : LineEntry(n, e)' <=> LineEntry(n, e)
  BY <1>2, <1>6 DEF LineEntry
<1>16. Lined' <=> Lined
  BY DEF Fixed, Lined, On
<1> QED BY <1>1, <1>2, <1>11, <1>12, <1>13, <1>14, <1>15, <1>16

-----------------------------------------------------------------------------
(***************************************************************************)
(* The stack.                                                              *)
(***************************************************************************)
LEMMA TopLine ==
  ASSUME LInv, Lined, stack # <<>>
  PROVE  /\ Len(stack) \in Nat /\ Len(stack) >= 1
         /\ LineFrame(Top, pv[ply]) /\ ply \in Plies
         /\ \A i \in 1 .. Len(stack) - 1 : Awaits(stack[i], Top)
<1>1. Len(stack) \in Nat /\ Len(stack) >= 1
  BY EmptySeq DEF LInv, IsStack
<1>2. LineFrame(Top, pv[ply])
  BY <1>1 DEF LInv, LinesOK, Top, ply
<1>3. \A i \in 1 .. Len(stack) - 1 : Awaits(stack[i], Top)
  BY <1>1 DEF LInv, InOrder, Top
<1> QED BY <1>1, <1>2, <1>3 DEF LineFrame, LineCall, ply

(* The frames below do not notice what becomes of the line of the top one. *)
LEMMA LinesKept ==
  ASSUME Fixed, LInv, Lined, stack # <<>>, \A q \in Plies : q # ply => pv'[q] = pv[q],
         \A i \in 1 .. Len(stack) - 1 : stack'[i] = stack[i]
  PROVE  \A i \in 1 .. Len(stack) - 1 : \A f \in {stack'[i]} : \A line \in {pv'[f.call.ply]} :
           LineFrame(f, line)'
<1> SUFFICES ASSUME NEW i \in 1 .. Len(stack) - 1, NEW f, f = stack[i], NEW line, line = pv'[f.call.ply]
             PROVE  LineFrame(f, line)'
  OBVIOUS
<1>1. i \in 1 .. Len(stack) /\ Len(stack) \in Nat
  BY TopLine
<1>2. LineFrame(f, pv[f.call.ply])
  BY <1>1 DEF LInv, LinesOK
<1>3. Awaits(f, Top)
  BY TopLine
<1>4. LineFrame(f, line)
  <2>1. CASE f.pc \in Looping
    <3>1. f.call.ply < ply /\ f.call.ply \in Plies /\ ply \in Plies
      BY <1>2, <1>3, <2>1, TopLine DEF Awaits, LineFrame, LineCall, ply
    <3>2. f.call.ply # ply
      BY <3>1, DepthFacts DEF Plies
    <3> QED BY <1>2, <3>1, <3>2
  <2>2. CASE f.pc \notin Looping
    BY <1>2, <2>2 DEF LineFrame
  <2> QED BY <2>1, <2>2
<1> QED BY <1>4, LinesFixed

(* A step of the innermost frame. *)
LEMMA LineGoes ==
  ASSUME LInv, Lined, stack # <<>>, Fixed, stopSearchFlag' = stopSearchFlag, NEW f, Goto(f),
         LineFrame(f, pv'[ply]), f.call.ply = ply, \A h : AskedFor(h, Top.call) => AskedFor(h, f.call),
         PvTyped', \A q \in Plies : q # ply => pv'[q] = pv[q],
         ~stopSearchFlag => TakesLine(f, result'.call, result'.value, pv'[ply + 1]),
         ResultHasLine', TableHasMoves'
  PROVE  LInv'
<1> DEFINE n == Len(stack)
<1>1. /\ n \in Nat /\ n >= 1 /\ Len(stack') = n /\ IsStack(stack')
      /\ \A i \in 1 .. n - 1 : stack'[i] = stack[i]
      /\ stack'[n] = f
  <2>1. IsStack(stack) /\ Swapped(stack, f, stack')
    BY DEF Goto, Under, LInv, Swapped
  <2> QED BY <2>1, SwapFacts
<1>2. \A i \in 1 .. n - 1 : \A g \in {stack'[i]} : \A line \in {pv'[g.call.ply]} : LineFrame(g, line)'
  BY <1>1, LinesKept
<1>3. \A line \in {pv'[f.call.ply]} : LineFrame(f, line)'
  BY LinesFixed
<1>4. \A i \in 1 .. n - 1 : Awaits(stack[i], f)
  BY TopLine DEF Awaits, ply
<1> HIDE DEF n
<1>5. LinesOK'
  <2>1. \A i \in 1 .. n : i = n \/ i \in 1 .. n - 1
    BY <1>1
  <2> QED BY <1>1, <1>2, <1>3, <2>1 DEF LinesOK
<1>6. \A i \in 1 .. n - 1 : \A g \in {stack[i]}, c \in {stack'[i + 1].call} : AskedFor(g, c)
  <2> SUFFICES ASSUME NEW i \in 1 .. n - 1, NEW g, g = stack[i] PROVE AskedFor(g, stack'[i + 1].call)
    OBVIOUS
  <2>1. AskedFor(g, stack[i + 1].call)
    BY DEF LInv, InOrder, n
  <2>2. CASE i = n - 1
    <3>1. stack[i + 1] = Top /\ stack'[i + 1] = f
      BY <1>1, <2>2 DEF Top, n
    <3> QED BY <2>1, <3>1
  <2>3. CASE i # n - 1
    <3>1. i + 1 \in 1 .. n - 1
      BY <1>1, <2>3
    <3> QED BY <1>1, <2>1, <3>1
  <2> QED BY <2>2, <2>3
<1>7. InOrder'
  <2>1. ASSUME NEW j \in 1 .. n, NEW i \in 1 .. j - 1 PROVE Awaits(stack'[i], stack'[j])
    <3>1. i \in 1 .. n - 1 /\ stack'[i] = stack[i]
      BY <1>1
    <3>2. CASE j = n
      BY <1>1, <1>4, <3>1, <3>2
    <3>3. CASE j # n
      <4>1. j \in 1 .. n - 1
        BY <1>1, <3>3
      <4> QED BY <1>1, <3>1, <4>1 DEF LInv, InOrder, n
    <3> QED BY <3>2, <3>3
  <2>2. \A i \in 1 .. n - 1 : \A g \in {stack'[i]}, c \in {stack'[i + 1].call} : AskedFor(g, c)'
    BY <1>1, <1>6, LinesFixed
  <2> QED BY <1>1, <2>1, <2>2 DEF InOrder, Awaits, Looping
<1>8. AnswerHasLine'
  <2>1. Top' = f
    BY <1>1 DEF Top
  <2> QED BY <2>1, LinesFixed DEF AnswerHasLine
<1>9. game' \in Games /\ IsStack(stack)'
  BY <1>1 DEF LInv, Fixed, IsStack
<1> QED BY <1>5, <1>7, <1>8, <1>9 DEF LInv

(* A call by the innermost frame. *)
LEMMA LineCalls ==
  ASSUME LInv, Lined, stack # <<>>, Fixed, stopSearchFlag' = stopSearchFlag, NEW f, NEW c, CallFrom(f, c),
         LineFrame(f, pv[ply]), f.call = Top.call,
         f.pc \in {"searched", "probed", "nullMoved", "iidSearched"},
         LineCall(c), AskedFor(f, c), ply <= c.ply, f.pc \in Looping => ply < c.ply,
         result' = result, pv' = pv, tt' = tt
  PROVE  LInv'
<1> DEFINE n == Len(stack)
           g == Frame(c)
<1>1. /\ n \in Nat /\ n >= 1 /\ Len(stack') = n + 1 /\ IsStack(stack')
      /\ \A i \in 1 .. n - 1 : stack'[i] = stack[i]
      /\ stack'[n] = f /\ stack'[n + 1] = g
  <2>1. IsStack(stack) /\ Pushed(stack, f, g, stack')
    BY DEF CallFrom, Under, LInv, Pushed
  <2> HIDE DEF g
  <2> QED BY <2>1, PushFacts
<1>2. \A i \in 1 .. n - 1 : \A h \in {stack'[i]} : \A line \in {pv'[h.call.ply]} : LineFrame(h, line)'
  BY <1>1, LinesKept
<1>3. f.call.ply = ply
  BY DEF ply
<1>4. \A line \in {pv'[f.call.ply]} : LineFrame(f, line)'
  BY <1>3, LinesFixed
<1>5. g.call = c /\ g.pc = "enter" /\ \A line : LineFrame(g, line)
  BY DEF IsFrame, Fields, Frame, LineFrame, LeafBest, Looping, MovesOf
<1>6. \A line : LineFrame(g, line)'
  <2> HIDE DEF g
  <2> QED BY <1>5, LinesFixed
<1>7. ply \in Plies /\ c.ply \in Plies /\ \A i \in 1 .. n - 1 : stack[i].call.ply \in Plies
  <2>1. \A i \in 1 .. n - 1 : i \in 1 .. Len(stack)
    BY <1>1
  <2> QED BY <2>1, TopLine DEF LineCall, LInv, LinesOK, LineFrame
<1> HIDE DEF n, g
<1>8. LinesOK'
  <2>1. \A i \in 1 .. n + 1 : i = n + 1 \/ i = n \/ i \in 1 .. n - 1
    BY <1>1
  <2> QED BY <1>1, <1>2, <1>4, <1>6, <2>1 DEF LinesOK
<1>9. \A i \in 1 .. n - 1 : Awaits(stack[i], f) /\ Awaits(stack[i], g)
  <2> SUFFICES ASSUME NEW i \in 1 .. n - 1 PROVE Awaits(stack[i], f) /\ Awaits(stack[i], g)
    OBVIOUS
  <2>1. Awaits(stack[i], Top)
    BY TopLine DEF n
  <2>2. /\ stack[i].pc \in {"searched", "probed", "nullMoved", "iidSearched"} /\ stack[i].call.ply <= ply
        /\ stack[i].pc \in Looping => stack[i].call.ply < ply
    BY <2>1 DEF Awaits, ply
  <2>3. \A p \in Plies, q \in Plies, r \in Plies : (p <= q /\ q <= r => p <= r) /\ (p < q /\ q <= r => p < r)
    BY DepthFacts DEF Plies
  <2>4. stack[i].call.ply <= c.ply /\ (stack[i].pc \in Looping => stack[i].call.ply < c.ply)
    BY <1>7, <2>2, <2>3
  <2> QED BY <1>3, <1>5, <2>2, <2>4 DEF Awaits
<1>10. Awaits(f, g)
  BY <1>3, <1>5 DEF Awaits
<1>11. InOrder'
  <2>1. ASSUME NEW j \in 1 .. n + 1, NEW i \in 1 .. j - 1 PROVE Awaits(stack'[i], stack'[j])
    <3>1. i = n \/ i \in 1 .. n - 1
      BY <1>1
    <3>2. CASE j = n + 1
      BY <1>1, <1>9, <1>10, <3>1, <3>2
    <3>3. CASE j = n
      <4>1. i \in 1 .. n - 1
        BY <1>1, <3>3
      <4> QED BY <1>1, <1>9, <3>3, <4>1
    <3>4. CASE j # n + 1 /\ j # n
      <4>1. j \in 1 .. n - 1 /\ i \in 1 .. n - 1 /\ j \in 1 .. n
        BY <1>1, <3>4
      <4> QED BY <1>1, <4>1 DEF LInv, InOrder, n
    <3> QED BY <3>2, <3>3, <3>4
  <2>2. ASSUME NEW i \in 1 .. n, NEW h, h = stack'[i] PROVE AskedFor(h, stack'[i + 1].call)
    <3>1. CASE i = n
      BY <1>1, <1>5, <2>2, <3>1
    <3>2. CASE i = n - 1
      <4>1. AskedFor(stack[i], Top.call)
        <5>1. i \in 1 .. n - 1 /\ stack[i + 1] = Top
          BY <1>1, <3>2 DEF Top, n
        <5> QED BY <5>1 DEF LInv, InOrder, n
      <4>2. stack'[i + 1].call = Top.call /\ i \in 1 .. n - 1
        BY <1>1, <3>2
      <4> QED BY <1>1, <2>2, <4>1, <4>2
    <3>3. CASE i # n /\ i # n - 1
      <4>1. i \in 1 .. n - 1 /\ i + 1 \in 1 .. n - 1
        BY <1>1, <3>3
      <4>2. AskedFor(stack[i], stack[i + 1].call)
        BY <4>1 DEF LInv, InOrder, n
      <4> QED BY <1>1, <2>2, <4>1, <4>2
    <3> QED BY <3>1, <3>2, <3>3
  <2>3. \A i \in 1 .. n : \A h \in {stack'[i]}, d \in {stack'[i + 1].call} : AskedFor(h, d)'
    BY <2>2, LinesFixed
  <2>4. Len(stack') - 1 = n
    BY <1>1
  <2> QED BY <1>1, <2>1, <2>3, <2>4 DEF InOrder, Awaits, Looping
<1>12. AnswerHasLine'
  <2>1. Top' = g
    BY <1>1 DEF Top
  <2> QED BY <1>5, <2>1 DEF AnswerHasLine, TakesLine
<1>13. game' \in Games /\ IsStack(stack)' /\ PvTyped' /\ ResultHasLine' /\ TableHasMoves'
  <2>1. PvTyped' /\ ResultHasLine' /\ TableHasMoves'
    BY LinesFixed DEF LInv, PvTyped, ResultHasLine, TableHasMoves, Plies
  <2> QED BY <1>1, <2>1 DEF LInv, Fixed, IsStack
<1> QED BY <1>8, <1>11, <1>12, <1>13 DEF LInv

(* What a value is for the frame that asked for it. *)
LEMMA LineTaken ==
  ASSUME NEW f, NEW line, LineFrame(f, line), NEW c, AskedFor(f, c), LineCall(c), NEW v \in Int,
         NEW l, HasLine(c, v, l), LeafValue(c, v)
  PROVE  TakesLine(f, c, v, l)
<1>1. f.pc \in {"searched", "probed"} => c.ply = f.call.ply + 1
  BY DEF AskedFor
<1>2. CASE f.pc = "searched"
  <2> DEFINE a == f.alpha
             b == f.beta
             p == f.call.ply
  <2>1. /\ a \in Int /\ b \in Int /\ (On("MDP") => Inside(a, b, p)) /\ p \in Int /\ p <= MAX_DEPTH /\ 0 <= p
    BY <1>2, DepthFacts DEF LineFrame, PastEntry, LineCall, Plies
  <2>2. /\ c.node = Child(f.call.node, f.move) /\ c.ply = p + 1
        /\ f.call.fn = "qsearch" => c.fn = "qsearch"
        /\ \/ c.alpha = -b /\ c.beta = -a
           \/ /\ On("MDP") /\ c.fn = "qsearch" /\ Inside(c.alpha, c.beta, c.ply)
              /\ c.beta \in {-a, VALUE_CHECKMATE - c.ply}
    BY <1>2 DEF AskedFor
  <2>3. c.alpha \in Int /\ c.beta \in Int
    BY DEF LineCall
  <2> DEFINE x == c.alpha
             y == c.beta
             q == c.ply
  <2>4. /\ x \in Int /\ y \in Int /\ q = p + 1
        /\ (x = -b /\ y = -a) \/ (On("MDP") /\ c.fn = "qsearch" /\ Inside(x, y, q)
                                  /\ y \in {-a, VALUE_CHECKMATE - q})
    BY <2>2, <2>3
  <2>5. (v < y /\ (x < v \/ (On("MDP") /\ Inside(x, y, q)))) => Line(c.node, l)
    BY DEF HasLine
  <2>6. On("MDP") /\ c.fn = "qsearch" => -VALUE_CHECKMATE + q <= v /\ (v <= x \/ v < VALUE_CHECKMATE - q)
    BY DEF LeafValue
  <2> HIDE DEF a, b, p, x, y, q
  <2>7. a < -v /\ -v < b => Line(c.node, l)
    BY <2>1, <2>4, <2>5, <2>6, ValueFacts DEF Inside
  <2>8. f.call.fn = "qsearch" /\ On("MDP") => Within(-v, p)
    BY <2>1, <2>2, <2>4, <2>6, ValueFacts DEF Inside, Within
  <2> QED BY <1>1, <2>2, <2>7, <2>8 DEF TakesLine, a, b, p
<1>3. CASE f.pc # "searched"
  BY <1>1, <1>3 DEF TakesLine
<1> QED BY <1>2, <1>3

(* The return of the innermost frame. *)
LEMMA LineReturns ==
  ASSUME LInv, Lined, stack # <<>>, Fixed, stopSearchFlag' = stopSearchFlag, NEW v \in Int, Return(v),
         PvTyped', \A q \in Plies : q # ply => pv'[q] = pv[q],
         v # VALUE_NONE \/ ~stopSearchFlag => HasLine(Top.call, v, pv'[ply]),
         ~stopSearchFlag => LeafValue(Top.call, v), TableHasMoves'
  PROVE  LInv'
<1> DEFINE n == Len(stack)
           S == {stack[i] : i \in 1 .. n}
<1>1. /\ n \in Nat /\ n >= 1 /\ Len(stack') = n - 1 /\ stack' \in Seq(S)
      /\ \A i \in 1 .. n - 1 : stack'[i] = stack[i]
  <2>1. \A i \in 1 .. n : stack[i] \in S
    OBVIOUS
  <2> HIDE DEF S
  <2> QED BY <2>1, PopFacts DEF Return, Under, LInv
<1>2. IsStack(stack')
  <2> HIDE DEF S
  <2> QED BY <1>1, OwnElements
<1>3. \A i \in 1 .. n - 1 : \A h \in {stack'[i]} : \A line \in {pv'[h.call.ply]} : LineFrame(h, line)'
  BY <1>1, LinesKept
<1> HIDE DEF n
<1>4. LinesOK'
  BY <1>1, <1>3 DEF LinesOK
<1>5. InOrder'
  <2>1. ASSUME NEW j \in 1 .. n - 1, NEW i \in 1 .. j - 1 PROVE Awaits(stack'[i], stack'[j])
    <3>1. j \in 1 .. n /\ i \in 1 .. n - 1
      BY <1>1
    <3> QED BY <1>1, <3>1 DEF LInv, InOrder, n
  <2>2. ASSUME NEW i \in 1 .. n - 1 - 1, NEW h, h = stack'[i] PROVE AskedFor(h, stack'[i + 1].call)
    <3>1. i \in 1 .. n - 1 /\ i + 1 \in 1 .. n - 1
      BY <1>1
    <3>2. AskedFor(stack[i], stack[i + 1].call)
      BY <3>1 DEF LInv, InOrder, n
    <3> QED BY <1>1, <2>2, <3>1, <3>2
  <2>3. \A i \in 1 .. n - 1 - 1 : \A h \in {stack'[i]}, d \in {stack'[i + 1].call} : AskedFor(h, d)'
    BY <2>2, LinesFixed
  <2> QED BY <1>1, <2>1, <2>3 DEF InOrder, Awaits, Looping
<1>6. result' = [value |-> v, call |-> Top.call]
  BY DEF Return
<1>7. LineCall(Top.call) /\ Top.call.ply = ply
  BY TopLine DEF LineFrame, ply
<1>8. ResultHasLine'
  <2> SUFFICES ASSUME NEW c, c = result'.call, NEW w, w = result'.value
               PROVE  /\ w \in Int
                      /\ (w # VALUE_NONE \/ ~stopSearchFlag) /\ c.node \in Nodes =>
                           c.ply \in Plies /\ HasLine(c, w, pv'[c.ply])
    <3>1. \A c \in {result'.call}, w \in {result'.value} : \A line \in {pv'[c.ply]} :
            HasLine(c, w, line)' <=> HasLine(c, w, line)
      BY LinesFixed
    <3> QED BY <3>1, LinesFixed DEF ResultHasLine, Plies
  <2> QED BY <1>6, <1>7 DEF LineCall
<1>9. AnswerHasLine'
  <2> SUFFICES ASSUME ~stopSearchFlag, stack' # <<>>, NEW f, f = Top'
               PROVE  TakesLine(f, Top.call, v, pv'[f.call.ply + 1])
    <3>1. \A f \in {Top'}, c \in {result'.call}, w \in {result'.value} :
            \A line \in {pv'[f.call.ply + 1]} : TakesLine(f, c, w, line)' <=> TakesLine(f, c, w, line)
      BY LinesFixed
    <3> QED BY <1>6, <3>1 DEF AnswerHasLine
  <2>1. n - 1 >= 1 /\ n - 1 \in 1 .. n - 1 /\ n \in 1 .. n /\ f = stack[n - 1] /\ stack[n] = Top
    <3>1. Len(stack') # 0
      BY <1>1, EmptySeq
    <3> QED BY <1>1, <3>1 DEF Top, n
  <2>2. LineFrame(f, pv[f.call.ply])
    <3>1. n - 1 \in 1 .. n
      BY <2>1
    <3> QED BY <2>1, <3>1 DEF LInv, LinesOK, n
  <2>3. AskedFor(f, Top.call)
    <3>1. n - 1 + 1 = n
      BY <1>1
    <3>2. AskedFor(stack[n - 1], stack[n - 1 + 1].call)
      BY <2>1 DEF LInv, InOrder, n
    <3> QED BY <2>1, <3>1, <3>2
  <2>4. HasLine(Top.call, v, pv'[ply]) /\ LeafValue(Top.call, v)
    OBVIOUS
  <2>5. TakesLine(f, Top.call, v, pv'[ply])
    BY <1>7, <2>2, <2>3, <2>4, LineTaken
  <2>6. TakesLine(f, Top.call, v, pv'[f.call.ply + 1])
    <3>1. CASE f.pc = "searched"
      <4>1. ply = f.call.ply + 1
        BY <1>7, <2>5, <3>1 DEF TakesLine
      <4> QED BY <2>5, <4>1
    <3>2. CASE f.pc # "searched"
      BY <2>5, <3>2 DEF TakesLine
    <3> QED BY <3>1, <3>2
  <2> QED BY <2>6
<1>10. game' \in Games /\ IsStack(stack)'
  BY <1>2 DEF LInv, Fixed, IsStack
<1> QED BY <1>4, <1>5, <1>8, <1>9, <1>10 DEF LInv

-----------------------------------------------------------------------------
(***************************************************************************)
(* Steps of the innermost frame and returns that leave the lines alone.    *)
(***************************************************************************)
LEMMA LineFacts ==
  ASSUME LInv, Lined, NEW pc, At(pc)
  PROVE  /\ game \in Games /\ stack # <<>> /\ Top.pc = pc /\ IsFrame(Top) /\ LineCall(Top.call)
         /\ Top.call.ply = ply /\ Top.call.node = node /\ Top.call.depth = depth
         /\ ply \in Plies /\ node \in Nodes /\ depth \in Nat
         /\ LineFrame(Top, pv[ply]) /\ LeafBest(Top)
         /\ pc = "enter" => Top = Frame(Top.call)
         /\ pc # "enter" => PastEntry(Top)
         /\ PvTyped /\ AnswerHasLine /\ ResultHasLine /\ TableHasMoves
<1>1. stack # <<>> /\ Top.pc = pc /\ LineFrame(Top, pv[ply]) /\ ply \in Plies
  BY TopLine DEF At
<1> QED BY <1>1 DEF LInv, LineFrame, LineCall, ply, node, depth

LEMMA NextPly ==
  ASSUME LInv, Lined, NEW pc, pc # "enter", At(pc)
  PROVE  /\ ply + 1 \in Plies /\ ply \in Int /\ ply <= ply + 1 /\ ply < ply + 1 /\ ply # ply + 1
         /\ ply # MAX_DEPTH
<1> DEFINE p == ply
<1>1. p \in Plies /\ p < MAX_DEPTH
  BY LineFacts DEF PastEntry
<1> HIDE DEF p
<1>2. p + 1 \in Plies /\ p \in Int /\ p <= p + 1 /\ p < p + 1 /\ p # p + 1 /\ p # MAX_DEPTH
  BY <1>1, DepthFacts DEF Plies
<1> QED BY <1>2 DEF p

LEMMA Settled == ASSUME UNCHANGED <<setting, stopSearchFlag>> PROVE Fixed /\ stopSearchFlag' = stopSearchFlag
BY DEF setting, Fixed

LEMMA PvWritten ==
  ASSUME LInv, Lined, Fixed, NEW p \in Plies, p # MAX_DEPTH, NEW line \in Seq(AllMoves),
         pv' = [pv EXCEPT ![p] = line]
  PROVE  PvTyped' /\ pv'[p] = line /\ \A q \in Plies : q # p => pv'[q] = pv[q]
<1>1. MAX_DEPTH \in Plies
  BY DepthFacts DEF Plies
<1>2. pv \in [Plies -> Seq(AllMoves)] /\ pv[MAX_DEPTH] = <<>>
  BY DEF LInv, PvTyped
<1>3. pv' \in [Plies -> Seq(AllMoves)] /\ pv'[p] = line /\ \A q \in Plies : q # p => pv'[q] = pv[q]
  BY <1>2
<1>4. pv'[MAX_DEPTH] = <<>>
  BY <1>1, <1>2, <1>3
<1> QED BY <1>3, <1>4, LinesFixed DEF PvTyped, Plies

LEMMA LineHeld ==
  ASSUME LInv, Lined, Fixed
  PROVE  /\ pv' = pv => PvTyped'
         /\ tt' = tt => TableHasMoves'
<1>1. PvTyped /\ TableHasMoves
  BY DEF LInv
<1>2. pv' = pv => PvTyped'
  BY <1>1, LinesFixed DEF PvTyped, Plies
<1>3. tt' = tt => TableHasMoves'
  BY <1>1, LinesFixed DEF TableHasMoves
<1> QED BY <1>2, <1>3

(* The last answer keeps its line, or loses its moves. *)
LEMMA AnswerKept ==
  ASSUME LInv, Lined, Fixed, stopSearchFlag' = stopSearchFlag, result' = result,
         \A q \in Plies \cap {result.call.ply} : pv'[q] = pv[q] \/ pv'[q] = <<>>
  PROVE  ResultHasLine'
<1> DEFINE c == result.call
           v == result.value
<1>1. ResultHasLine
  BY DEF LInv
<1>2. v \in Int
  BY <1>1 DEF ResultHasLine
<1>3. ASSUME v # VALUE_NONE \/ ~stopSearchFlag, c.node \in Nodes
      PROVE  c.ply \in Plies /\ HasLine(c, v, pv'[c.ply])
  <2>1. c.ply \in Plies /\ HasLine(c, v, pv[c.ply])
    BY <1>1, <1>3 DEF ResultHasLine
  <2>2. HasLine(c, v, <<>>)
    BY <1>3, NoLine DEF HasLine
  <2> QED BY <2>1, <2>2
<1> HIDE DEF c, v
<1>4. \A line \in {pv'[c.ply]} : HasLine(c, v, line)' <=> HasLine(c, v, line)
  BY LinesFixed DEF c, v
<1>5. Nodes' = Nodes /\ c' = c /\ v' = v
  BY LinesFixed DEF c, v
<1> QED BY <1>2, <1>3, <1>4, <1>5 DEF ResultHasLine, Plies, c, v

LEMMA LineMoves ==
  ASSUME LInv, Lined, NEW pc, At(pc), UNCHANGED <<setting, stopSearchFlag>>,
         NEW f, Goto(f), LineFrame(f, pv[ply]), f.call.ply = ply,
         \A h : AskedFor(h, Top.call) => AskedFor(h, f.call),
         ~stopSearchFlag => TakesLine(f, result.call, result.value, pv[ply + 1]),
         result' = result, pv' = pv, TableHasMoves'
  PROVE  LInv'
<1>1. stack # <<>> /\ Fixed /\ stopSearchFlag' = stopSearchFlag
  BY LineFacts, Settled
<1>2. PvTyped' /\ ResultHasLine'
  BY <1>1, LineHeld, AnswerKept
<1> QED BY <1>1, <1>2, LineGoes

LEMMA LineBack ==
  ASSUME LInv, Lined, NEW pc, At(pc), UNCHANGED <<setting, stopSearchFlag>>,
         NEW v \in Int, Return(v), pv' = pv, TableHasMoves',
         v # VALUE_NONE \/ ~stopSearchFlag => HasLine(Top.call, v, pv[ply]),
         ~stopSearchFlag => LeafValue(Top.call, v)
  PROVE  LInv'
<1>1. stack # <<>> /\ Fixed /\ stopSearchFlag' = stopSearchFlag
  BY LineFacts, Settled
<1>2. PvTyped'
  BY <1>1, LineHeld
<1> QED BY <1>1, <1>2, LineReturns

(* An interrupted node returns. *)
LEMMA LineStop ==
  ASSUME LInv, Lined, NEW pc, At(pc), Return(VALUE_NONE), stopSearchFlag,
         UNCHANGED <<setting, tt, pv, mg, stopSearchFlag>>
  PROVE  LInv'
<1>1. UNCHANGED <<setting, stopSearchFlag>> /\ pv' = pv /\ tt' = tt
  OBVIOUS
<1>2. TableHasMoves'
  BY <1>1, LineHeld, Settled
<1> QED BY <1>1, <1>2, LineBack, ValueFacts

-----------------------------------------------------------------------------
(***************************************************************************)
(* The table.                                                              *)
(***************************************************************************)
LEMMA LinePut ==
  ASSUME Fixed, TableHasMoves, NEW n \in Nodes, NEW d, NEW m \in MovesOf(n), NEW v \in Int,
         NEW type, NEW e, e = VALUE_NONE \/ StaticOK(n, e), tt' = Put(n, d, m, v, type, e)
  PROVE  TableHasMoves'
<1> DEFINE old == tt[n]
           new == [move |-> m, depth |-> d, value |-> v, type |-> type, eval |-> e]
           kept == [old EXCEPT !.move = IF m = MOVE_NONE THEN @ ELSE m,
                               !.eval = IF e = VALUE_NONE THEN @ ELSE e]
           put == IF old = NoEntry THEN new
                  ELSE IF v = VALUE_NONE THEN kept
                  ELSE [kept EXCEPT !.depth = d, !.value = v, !.type = type]
<1>1. tt' = [tt EXCEPT ![n] = put]
  BY DEF Put
<1>2. LineEntry(n, old)
  BY DEF TableHasMoves
<1>3. LineEntry(n, new)
  BY DEF LineEntry, NoEntry
<1>4. LineEntry(n, kept)
  <2>1. /\ DOMAIN kept = DOMAIN NoEntry /\ kept.value = old.value
        /\ kept.move = (IF m = MOVE_NONE THEN old.move ELSE m)
        /\ kept.eval = (IF e = VALUE_NONE THEN old.eval ELSE e)
    BY <1>2 DEF LineEntry, NoEntry
  <2> HIDE DEF kept, old
  <2> QED BY <1>2, <2>1 DEF LineEntry
<1>5. LineEntry(n, [kept EXCEPT !.depth = d, !.value = v, !.type = type])
  <2> HIDE DEF kept
  <2>1. DOMAIN kept = {"move", "depth", "value", "type", "eval"}
    BY <1>4 DEF LineEntry, NoEntry
  <2> DEFINE k == [kept EXCEPT !.depth = d, !.value = v, !.type = type]
  <2>2. DOMAIN k = DOMAIN kept /\ k.value = v /\ k.move = kept.move /\ k.eval = kept.eval
    BY <2>1
  <2> HIDE DEF k
  <2>3. LineEntry(n, k)
    BY <1>4, <2>2 DEF LineEntry
  <2> QED BY <2>3 DEF k
<1>6. LineEntry(n, put)
  <2> HIDE DEF old, new, kept
  <2> QED BY <1>3, <1>4, <1>5
<1> HIDE DEF put
<1>7. \A k \in Nodes : \A x \in {tt'[k]} : LineEntry(k, x)'
  <2>1. \A k \in Nodes : LineEntry(k, tt'[k])
    BY <1>1, <1>6 DEF TableHasMoves
  <2> QED BY <2>1, LinesFixed
<1>8. DOMAIN tt' = Nodes'
  BY <1>1, LinesFixed DEF TableHasMoves
<1> QED BY <1>7, <1>8, LinesFixed DEF TableHasMoves

LEMMA LineStored ==
  ASSUME LInv, Lined, Fixed, stack # <<>>, NEW d, NEW m \in MovesOf(node), NEW v \in Int,
         NEW type, NEW e, e = VALUE_NONE \/ StaticOK(node, e), storeTt(d, m, v, type, e)
  PROVE  TableHasMoves'
<1> DEFINE x == valueToTt(v, ply)
<1>1. ply \in Int /\ node \in Nodes /\ TableHasMoves
  <2>1. LineFrame(Top, pv[ply]) /\ ply \in Plies
    BY TopLine
  <2> QED BY <2>1, DepthFacts DEF LineFrame, LineCall, node, LInv, Plies
<1>2. x \in Int
  BY <1>1 DEF valueToTt
<1>3. tt' = Put(node, d, m, x, type, e)
  BY DEF storeTt
<1> HIDE DEF x
<1> QED BY <1>1, <1>2, <1>3, LinePut

-----------------------------------------------------------------------------
(***************************************************************************)
(* Entering a node, line by line.                                          *)
(***************************************************************************)
LEMMA FreshLine ==
  ASSUME NEW c, LineCall(c)
  PROVE  Frame(c).call = c /\ Frame(c).pc = "enter" /\ \A line : LineFrame(Frame(c), line)
BY DEF IsFrame, Fields, Frame, LineFrame, LeafBest, Looping, MovesOf

LEMMA LineEnterQuiescence == ASSUME LInv, Lined, EnterQuiescence PROVE LInv'
<1> DEFINE c == QsearchCall(node, ply, Top.alpha, Top.beta, Top.call.isPv)
           g == Frame(c)
<1>1. At("enter") /\ Goto(g) /\ UNCHANGED <<setting, stopSearchFlag>> /\ result' = result /\ pv' = pv /\ tt' = tt
  BY DEF EnterQuiescence
<1>2. Top = Frame(Top.call) /\ LineCall(Top.call) /\ Top.call.ply = ply /\ Top.call.node = node
  BY <1>1, LineFacts
<1>3. Top.alpha = Top.call.alpha /\ Top.beta = Top.call.beta
  <2> DEFINE t == Top
  <2>1. t = Frame(t.call)
    BY <1>2
  <2> HIDE DEF t
  <2>2. t.alpha = t.call.alpha /\ t.beta = t.call.beta
    BY <2>1 DEF Frame
  <2> QED BY <2>2 DEF t
<1>4. /\ c.fn = "qsearch" /\ c.node = Top.call.node /\ c.depth = 0 /\ c.ply = Top.call.ply
      /\ c.alpha = Top.call.alpha /\ c.beta = Top.call.beta
  BY <1>2, <1>3 DEF QsearchCall, SearchCall
<1> HIDE DEF c
<1>5. LineCall(c)
  BY <1>2, <1>4 DEF LineCall
<1>6. \A h : AskedFor(h, Top.call) => AskedFor(h, c)
  BY <1>4 DEF AskedFor
<1>7. g.call = c /\ g.pc = "enter" /\ \A line : LineFrame(g, line)
  BY <1>5, FreshLine
<1>8. TableHasMoves'
  BY <1>1, LineHeld, Settled
<1> HIDE DEF g
<1>9. TakesLine(g, result.call, result.value, pv[ply + 1])
  BY <1>7 DEF TakesLine
<1> QED BY <1>1, <1>2, <1>4, <1>6, <1>7, <1>8, <1>9, LineMoves

LEMMA LineEvaluateOnly == ASSUME LInv, Lined, EvaluateOnly PROVE LInv'
<1> DEFINE v == Eval(node)
           c == Top.call
<1>1. At("enter") /\ EvaluatesOnly(Top) /\ Return(v) /\ UNCHANGED <<setting, stopSearchFlag>> /\ pv' = pv /\ tt' = tt
  BY DEF EvaluateOnly
<1>2. c.ply = ply /\ c.node = node /\ node \in Nodes /\ game \in Games /\ ply \in Plies /\ PvTyped
  BY <1>1, LineFacts
<1>3. ply = MAX_DEPTH
  BY <1>1, <1>2, DepthFacts DEF EvaluatesOnly, Lined, Plies
<1>4. HasLine(c, v, pv[ply])
  BY <1>2, <1>3, NoLine DEF HasLine, PvTyped
<1>5. v \in Int /\ -VALUE_CHECKMATE + ply <= v /\ v < VALUE_CHECKMATE - ply
  <2> DEFINE T == VALUE_CHECKMATE_THRESHOLD
  <2>1. v \in -T .. T
    BY <1>2, GameFacts
  <2>2. T = VALUE_CHECKMATE - MAX_DEPTH - 1 /\ VALUE_CHECKMATE \in Nat /\ MAX_DEPTH \in Nat
    BY DepthFacts, ValueFacts
  <2> HIDE DEF T, v
  <2> QED BY <1>3, <2>1, <2>2
<1> HIDE DEF v
<1>6. LeafValue(c, v)
  BY <1>2, <1>5 DEF LeafValue
<1>7. TableHasMoves'
  BY <1>1, LineHeld, Settled
<1> QED BY <1>1, <1>4, <1>5, <1>6, <1>7, LineBack

LEMMA NarrowLine ==
  ASSUME LInv, Lined, At("enter"), NEW f, f = Narrowed(Top)
  PROVE  /\ IsFrame(f) /\ f.call = Top.call /\ f.bestNodeValue = VALUE_NONE /\ f.bestNodeMove = MOVE_NONE
         /\ f.movesSearched = 0 /\ f.pc = "enter"
         /\ f.alpha \in Int /\ f.beta \in Int
         /\ ~On("MDP") => f.alpha = Top.call.alpha /\ f.beta = Top.call.beta
         /\ On("MDP") => /\ f.alpha = Larger(Top.call.alpha, -VALUE_CHECKMATE + ply)
                         /\ f.beta = Smaller(Top.call.beta, VALUE_CHECKMATE - ply)
         /\ f.beta = Top.call.beta \/ (On("MDP") /\ f.beta = VALUE_CHECKMATE - ply)
         /\ On("MDP") /\ ~MateDistanceCuts(f) => Inside(f.alpha, f.beta, ply)
<1> DEFINE t == Top
           c == Top.call
<1>1. t = Frame(c) /\ LineCall(c) /\ ply \in Plies /\ c.ply = ply
  BY LineFacts
<1>2. c.alpha \in Int /\ c.beta \in Int /\ ply \in Int
  BY <1>1, DepthFacts DEF LineCall, Plies
<1>3. f = IF On("MDP") THEN [t EXCEPT !.alpha = Larger(@, -VALUE_CHECKMATE + t.call.ply),
                                      !.beta = Smaller(@, VALUE_CHECKMATE - t.call.ply)]
          ELSE t
  BY DEF Narrowed
<1> HIDE DEF t
<1>4. /\ IsFrame(f) /\ f.call = c /\ f.bestNodeValue = VALUE_NONE /\ f.bestNodeMove = MOVE_NONE
      /\ f.movesSearched = 0 /\ f.pc = "enter"
      /\ f.alpha = IF On("MDP") THEN Larger(c.alpha, -VALUE_CHECKMATE + c.ply) ELSE c.alpha
      /\ f.beta = IF On("MDP") THEN Smaller(c.beta, VALUE_CHECKMATE - c.ply) ELSE c.beta
  BY <1>1, <1>3 DEF Frame, IsFrame, Fields
<1> DEFINE a == f.alpha
           b == f.beta
           x == c.alpha
           y == c.beta
           p == ply
<1>5. /\ a = IF On("MDP") THEN Larger(x, -VALUE_CHECKMATE + p) ELSE x
      /\ b = IF On("MDP") THEN Smaller(y, VALUE_CHECKMATE - p) ELSE y
      /\ x \in Int /\ y \in Int /\ p \in Int
  BY <1>1, <1>2, <1>4
<1>6. MateDistanceCuts(f) <=> On("MDP") /\ a >= b
  BY DEF MateDistanceCuts
<1> HIDE DEF a, b, x, y, p
<1>7. /\ a \in Int /\ b \in Int /\ (b = y \/ (On("MDP") /\ b = VALUE_CHECKMATE - p))
      /\ (On("MDP") /\ ~(a >= b) => Inside(a, b, p))
  BY <1>5, ValueFacts DEF Larger, Smaller, Inside
<1> QED BY <1>4, <1>5, <1>6, <1>7 DEF a, b, x, y, p

LEMMA LineMateDistanceCut == ASSUME LInv, Lined, MateDistanceCut PROVE LInv'
<1> DEFINE f == Narrowed(Top)
           v == f.alpha
           c == Top.call
<1>1. /\ At("enter") /\ MateDistanceCuts(f) /\ Return(v) /\ UNCHANGED <<setting, stopSearchFlag>>
      /\ pv' = pv /\ tt' = tt
  BY DEF MateDistanceCut, Opening
<1>2. c.alpha \in Int /\ c.beta \in Int /\ c.ply = ply /\ ply \in Nat /\ ply <= MAX_DEPTH
  BY <1>1, LineFacts, DepthFacts DEF LineCall, Plies
<1>3. v \in Int /\ On("MDP") /\ v >= f.beta
      /\ v = Larger(c.alpha, -VALUE_CHECKMATE + ply) /\ f.beta = Smaller(c.beta, VALUE_CHECKMATE - ply)
  BY <1>1, NarrowLine DEF MateDistanceCuts
<1> DEFINE x == c.alpha
           y == c.beta
           p == ply
<1>4. /\ v >= Smaller(y, VALUE_CHECKMATE - p) /\ v = Larger(x, -VALUE_CHECKMATE + p)
      /\ x \in Int /\ y \in Int /\ p \in Nat /\ p <= MAX_DEPTH
  BY <1>2, <1>3
<1> HIDE DEF f, v, x, y, p
<1>5. ~(v < y /\ (x < v \/ Inside(x, y, p)))
      /\ -VALUE_CHECKMATE + p <= v /\ (v <= x \/ v < VALUE_CHECKMATE - p)
  <2> DEFINE lo == -VALUE_CHECKMATE + p
             hi == VALUE_CHECKMATE - p
  <2>1. lo \in Int /\ hi \in Int /\ lo < hi
    BY <1>4, DepthFacts, ValueFacts
  <2>2. v >= Smaller(y, hi) /\ v = Larger(x, lo) /\ (Inside(x, y, p) <=> lo <= x /\ x < y /\ y <= hi)
    BY <1>4 DEF Inside
  <2> HIDE DEF lo, hi
  <2>3. ~(v < y /\ (x < v \/ Inside(x, y, p))) /\ lo <= v /\ (v <= x \/ v < hi)
    BY <1>4, <2>1, <2>2 DEF Larger, Smaller
  <2> QED BY <2>3 DEF lo, hi
<1>6. HasLine(c, v, pv[ply]) /\ LeafValue(c, v)
  BY <1>2, <1>5 DEF HasLine, LeafValue, x, y, p
<1>7. TableHasMoves'
  BY <1>1, LineHeld, Settled
<1> QED BY <1>1, <1>3, <1>6, <1>7, LineBack DEF v

LEMMA LineTtCut == ASSUME LInv, Lined, TtCut PROVE LInv'
<1> DEFINE f == Narrowed(Top)
           e == Probe(f)
           v == valueFromTt(e.value, ply)
<1>1. /\ At("enter") /\ Usable(e, f) /\ Return(v) /\ UNCHANGED <<setting, stopSearchFlag>> /\ tt' = tt
      /\ pv' = IF In("search") THEN [pv EXCEPT ![ply] = PvLine(node, depth)] ELSE pv
  BY DEF TtCut, Opening
<1>2. /\ stack # <<>> /\ LineCall(Top.call) /\ ply \in Plies /\ Top.call.ply = ply /\ Top.call.node = node
      /\ node \in Nodes /\ depth \in Nat /\ PvTyped /\ TableHasMoves /\ game \in Games
  BY <1>1, LineFacts
<1>3. f.call = Top.call
  BY <1>1, NarrowLine
<1> HIDE DEF f
<1>4. On("TT") /\ In("search") /\ e = tt[node]
  BY <1>1, <1>2, <1>3 DEF Usable, Probe, Lined, In, LineCall
<1>5. v \in Int
  <2>1. e.value \in Int /\ ply \in Int
    BY <1>2, <1>4, DepthFacts DEF TableHasMoves, LineEntry, Plies
  <2> HIDE DEF e
  <2> QED BY <2>1 DEF valueFromTt
<1> HIDE DEF e, v
<1> DEFINE line == PvLine(node, depth)
<1>6. Line(node, line)
  BY <1>2, TableLine
<1>7. pv' = [pv EXCEPT ![ply] = line]
  BY <1>1, <1>4
<1> HIDE DEF line
<1>8. Fixed /\ stopSearchFlag' = stopSearchFlag
  BY <1>1, Settled
<1>9. PvTyped' /\ pv'[ply] = line /\ \A q \in Plies : q # ply => pv'[q] = pv[q]
  <2>1. line \in Seq(AllMoves)
    BY <1>6 DEF Line
  <2>2. ply # MAX_DEPTH
    BY <1>2, <1>4, DepthFacts DEF TtCut, Opening, Horizon, In, Plies
  <2> QED BY <1>2, <1>7, <1>8, <2>1, <2>2, PvWritten
<1>10. HasLine(Top.call, v, pv'[ply])
  BY <1>2, <1>6, <1>9 DEF HasLine
<1>11. LeafValue(Top.call, v)
  BY <1>4 DEF LeafValue, In
<1>12. TableHasMoves'
  BY <1>1, <1>8, LineHeld
<1> QED BY <1>1, <1>2, <1>5, <1>8, <1>9, <1>10, <1>11, <1>12, LineReturns

(* What was looked up and evaluated at the entry. *)
LEMMA LookLine ==
  ASSUME LInv, Lined, Opening, ~MateDistanceCuts(Narrowed(Top)),
         NEW f, f = Looked(Narrowed(Top), Probe(Top)), NEW g, g = Evaluated(f)
  PROVE  /\ IsFrame(g) /\ g.call = Top.call /\ g.bestNodeValue = VALUE_NONE /\ g.bestNodeMove = MOVE_NONE
         /\ g.movesSearched = 0 /\ g.ttMove \in MovesOf(node) /\ StaticOK(node, g.staticEval)
         /\ g.alpha \in Int /\ g.beta \in Int
         /\ ~On("MDP") => g.alpha = Top.call.alpha
         /\ g.beta = Top.call.beta \/ (On("MDP") /\ g.beta = VALUE_CHECKMATE - ply)
         /\ On("MDP") => Inside(g.alpha, g.beta, ply)
         /\ Top.call.fn = "search" => Top.call.depth > 0
         /\ Top.call.ply < MAX_DEPTH
         /\ ~HasCheck(node) => g.staticEval \in Int /\ Within(g.staticEval, ply)
                               /\ g.staticEval <= VALUE_CHECKMATE_THRESHOLD
<1> DEFINE n == Narrowed(Top)
           e == Probe(Top)
           c == Top.call
<1>1. At("enter") /\ ~MateDistanceCuts(n)
  BY DEF Opening
<1>2. /\ LineCall(c) /\ ply \in Plies /\ c.ply = ply /\ c.node = node /\ node \in Nodes /\ game \in Games
      /\ TableHasMoves /\ depth \in Nat /\ c.depth = depth
  BY <1>1, LineFacts
<1>3. LineEntry(node, e)
  <2>1. LineEntry(node, NoEntry)
    BY ValueFacts DEF LineEntry, NoEntry, MovesOf
  <2> QED BY <1>2, <2>1 DEF TableHasMoves, Probe
<1>4. /\ IsFrame(n) /\ n.call = c /\ n.bestNodeValue = VALUE_NONE /\ n.bestNodeMove = MOVE_NONE
      /\ n.movesSearched = 0 /\ n.alpha \in Int /\ n.beta \in Int
      /\ (~On("MDP") => n.alpha = c.alpha)
      /\ (n.beta = c.beta \/ (On("MDP") /\ n.beta = VALUE_CHECKMATE - ply))
      /\ (On("MDP") => Inside(n.alpha, n.beta, ply))
  BY <1>1, NarrowLine
<1>5. (c.fn = "search" => c.depth > 0) /\ c.ply < MAX_DEPTH
  <2>1. ~Horizon(Top) /\ ~EvaluatesOnly(Top)
    BY DEF Opening
  <2>2. (c.fn = "search" => c.depth > 0) /\ ~(c.ply >= MAX_DEPTH)
    BY <1>2, <2>1 DEF Horizon, EvaluatesOnly, Lined, LineCall
  <2> QED BY <1>2, <2>2, DepthFacts DEF Plies
<1>6. f = [n EXCEPT !.ttMove = e.move, !.staticEval = IF On("EVAL_TT") THEN e.eval ELSE VALUE_NONE]
  BY DEF Looked
<1> HIDE DEF n, e
<1>7. /\ IsFrame(f) /\ f.call = c /\ f.bestNodeValue = VALUE_NONE /\ f.bestNodeMove = MOVE_NONE
      /\ f.movesSearched = 0 /\ f.ttMove = e.move
      /\ f.alpha = n.alpha /\ f.beta = n.beta /\ f.staticEval \in {e.eval, VALUE_NONE}
  BY <1>4, <1>6 DEF IsFrame, Fields
<1>8. g = IF ~HasCheck(node) /\ f.staticEval = VALUE_NONE THEN [f EXCEPT !.staticEval = Eval(node)] ELSE f
  BY <1>2, <1>7 DEF Evaluated
<1>9. /\ IsFrame(g) /\ g.call = c /\ g.bestNodeValue = VALUE_NONE /\ g.bestNodeMove = MOVE_NONE
      /\ g.movesSearched = 0 /\ g.ttMove = e.move /\ g.alpha = n.alpha /\ g.beta = n.beta
      /\ g.staticEval = IF ~HasCheck(node) /\ f.staticEval = VALUE_NONE THEN Eval(node) ELSE f.staticEval
  BY <1>7, <1>8 DEF IsFrame, Fields
<1>10. StaticOK(node, g.staticEval)
  BY <1>3, <1>7, <1>9 DEF StaticOK, LineEntry
<1>11. g.ttMove \in MovesOf(node)
  BY <1>3, <1>9 DEF LineEntry
<1>12. ~HasCheck(node) => g.staticEval \in Int /\ Within(g.staticEval, ply)
                          /\ g.staticEval <= VALUE_CHECKMATE_THRESHOLD
  <2> DEFINE s == g.staticEval
             T == VALUE_CHECKMATE_THRESHOLD
  <2>1. Eval(node) \in -T .. T
    BY <1>2, GameFacts
  <2>2. T \in Nat /\ T = VALUE_CHECKMATE - MAX_DEPTH - 1 /\ VALUE_DRAW = 0 /\ VALUE_CHECKMATE \in Nat
        /\ ply \in Nat /\ ply <= MAX_DEPTH /\ MAX_DEPTH \in Nat
    BY <1>2, DepthFacts, DepthAssumption DEF Plies, VALUE_CHECKMATE, VALUE_MAX, VALUE_DRAW, VALUE_CHECKMATE_THRESHOLD
  <2>3. ~HasCheck(node) => s \in {Eval(node), VALUE_DRAW}
    BY <1>10 DEF StaticOK
  <2> HIDE DEF s, T
  <2>4. ~HasCheck(node) => s \in Int /\ -T <= s /\ s <= T
    BY <2>1, <2>2, <2>3
  <2>5. ~HasCheck(node) => Within(s, ply)
    BY <2>2, <2>4 DEF Within
  <2> QED BY <2>4, <2>5 DEF s, T
<1> QED BY <1>4, <1>5, <1>9, <1>10, <1>11, <1>12

LEMMA LineEnterSearch == ASSUME LInv, Lined, EnterSearch PROVE LInv'
<1> DEFINE f == Looked(Narrowed(Top), Probe(Top))
           g == Evaluated(f)
           h == [g EXCEPT !.pc = "prune"]
<1>1. /\ Opening /\ In("search") /\ ~MateDistanceCuts(Narrowed(Top)) /\ Goto(h)
      /\ UNCHANGED <<setting, stopSearchFlag>> /\ result' = result /\ pv' = pv
      /\ \/ tt' = Put(node, 0, MOVE_NONE, VALUE_NONE, "NONE", g.staticEval)
         \/ tt' = tt
  <2> HIDE DEF f, g, h
  <2> QED BY DEF EnterSearch, f, g, h
<1>2. At("enter")
  BY <1>1 DEF Opening
<1>3. TableHasMoves /\ node \in Nodes /\ LineCall(Top.call) /\ Top.call.ply = ply /\ Top.call.node = node
  BY <1>2, LineFacts
<1>4. /\ IsFrame(g) /\ g.call = Top.call /\ g.bestNodeValue = VALUE_NONE /\ g.bestNodeMove = MOVE_NONE
      /\ g.ttMove \in MovesOf(node) /\ StaticOK(node, g.staticEval)
      /\ g.alpha \in Int /\ g.beta \in Int
      /\ (~On("MDP") => g.alpha = Top.call.alpha)
      /\ (g.beta = Top.call.beta \/ (On("MDP") /\ g.beta = VALUE_CHECKMATE - ply))
      /\ (On("MDP") => Inside(g.alpha, g.beta, ply))
      /\ (Top.call.fn = "search" => Top.call.depth > 0) /\ Top.call.ply < MAX_DEPTH
  <2> HIDE DEF f, g
  <2> QED BY <1>1, LookLine DEF f, g
<1> HIDE DEF f, g
<1>5. /\ IsFrame(h) /\ h.call = Top.call /\ h.pc = "prune" /\ h.bestNodeValue = VALUE_NONE
      /\ h.bestNodeMove \in MovesOf(node)
      /\ h.ttMove = g.ttMove /\ h.staticEval = g.staticEval /\ h.alpha = g.alpha /\ h.beta = g.beta
  BY <1>4 DEF IsFrame, Fields, MovesOf
<1> HIDE DEF h
<1>6. PastEntry(h)
  BY <1>3, <1>4, <1>5, ValueFacts DEF PastEntry
<1>7. LineFrame(h, pv[ply])
  BY <1>1, <1>3, <1>4, <1>5, <1>6 DEF LineFrame, LeafBest, Looping, In
<1>8. TakesLine(h, result.call, result.value, pv[ply + 1])
  BY <1>5 DEF TakesLine
<1>9. TableHasMoves'
  BY <1>1, <1>3, <1>4, ValueFacts, LineHeld, LinePut, Settled DEF MovesOf
<1> QED BY <1>1, <1>2, <1>3, <1>5, <1>7, <1>8, <1>9, LineMoves

LEMMA LineStandPatCut == ASSUME LInv, Lined, StandPatCut PROVE LInv'
<1> DEFINE g == QsearchNode
           v == g.staticEval
           c == Top.call
<1>1. /\ Opening /\ In("qsearch") /\ ~MateDistanceCuts(Narrowed(Top)) /\ StandPat(g)
      /\ Return(v) /\ UNCHANGED <<setting, stopSearchFlag>> /\ pv' = pv /\ tt' = tt
  BY DEF StandPatCut, OpeningQsearch, Lined
<1>2. At("enter")
  BY <1>1 DEF Opening
<1>3. c.ply = ply /\ c.node = node /\ c.alpha \in Int /\ c.beta \in Int
      /\ ply \in Nat /\ ply <= MAX_DEPTH
  BY <1>2, LineFacts, DepthFacts DEF LineCall, Plies
<1>4. /\ g.call = c /\ g.beta \in Int
      /\ (g.beta = c.beta \/ (On("MDP") /\ g.beta = VALUE_CHECKMATE - ply))
      /\ (~HasCheck(node) => v \in Int /\ Within(v, ply) /\ v <= VALUE_CHECKMATE_THRESHOLD)
  <2>1. \A f : f = Looked(Narrowed(Top), Probe(Top)) => \A h : h = Evaluated(f) =>
          /\ h.call = Top.call /\ h.beta \in Int
          /\ (h.beta = Top.call.beta \/ (On("MDP") /\ h.beta = VALUE_CHECKMATE - ply))
          /\ (~HasCheck(node) => h.staticEval \in Int /\ Within(h.staticEval, ply)
                                 /\ h.staticEval <= VALUE_CHECKMATE_THRESHOLD)
    BY <1>1, LookLine
  <2> QED BY <2>1 DEF QsearchNode
<1>5. ~HasCheck(node) /\ v >= g.beta
  BY <1>1, <1>3, <1>4 DEF StandPat
<1> HIDE DEF v, g
<1>6. v >= c.beta
  <2> DEFINE b == g.beta
             y == c.beta
             p == ply
  <2>1. v \in Int /\ Within(v, p) /\ v >= b /\ b \in Int /\ y \in Int /\ (b = y \/ b = VALUE_CHECKMATE - p) /\ p \in Nat
    BY <1>3, <1>4, <1>5
  <2> HIDE DEF b, y, p
  <2>2. v >= y
    BY <2>1, ValueFacts DEF Within
  <2> QED BY <2>2 DEF y
<1>7. HasLine(c, v, pv[ply])
  BY <1>3, <1>4, <1>5, <1>6 DEF HasLine
<1>8. LeafValue(c, v)
  BY <1>3, <1>4, <1>5 DEF LeafValue, Within
<1>9. TableHasMoves'
  BY <1>1, LineHeld, Settled
<1> QED BY <1>1, <1>2, <1>4, <1>5, <1>7, <1>8, <1>9, LineBack

(* The loop begins with an empty line. *)
LEMMA LineStartLoop ==
  ASSUME LInv, Lined, NEW pc, At(pc), NEW f, IsFrame(f), f.call = Top.call, StartLoop(f),
         NEW h, h = [f EXCEPT !.pc = "moves"], PastEntry(h), LeafBest(h),
         f.bestNodeMove \in MovesOf(node), UNCHANGED <<setting, result, tt, stopSearchFlag>>
  PROVE  LInv'
<1>1. Goto(h) /\ result' = result /\ tt' = tt /\ pv' = [pv EXCEPT ![f.call.ply] = <<>>]
  BY DEF StartLoop
<1>2. /\ stack # <<>> /\ LineCall(Top.call) /\ Top.call.ply = ply /\ Top.call.node = node
      /\ ply \in Plies /\ node \in Nodes /\ PvTyped
  BY LineFacts
<1>3. Fixed /\ stopSearchFlag' = stopSearchFlag
  BY Settled
<1>4. IsFrame(h) /\ h.call = Top.call /\ h.pc = "moves" /\ h.bestNodeMove = f.bestNodeMove
  BY DEF IsFrame, Fields
<1>5. ply # MAX_DEPTH
  BY <1>2, <1>4, DepthFacts DEF PastEntry, Plies
<1>6. PvTyped' /\ pv'[ply] = <<>> /\ \A q \in Plies : q # ply => pv'[q] = pv[q]
  <2>1. pv' = [pv EXCEPT ![ply] = <<>>]
    BY <1>1, <1>2
  <2>2. <<>> \in Seq(AllMoves)
    OBVIOUS
  <2> QED BY <1>2, <1>3, <1>5, <2>1, <2>2, PvWritten
<1>7. LineFrame(h, pv'[ply])
  BY <1>2, <1>4, <1>6, NoLine DEF LineFrame, Looping
<1>8. ResultHasLine'
  BY <1>1, <1>3, <1>6, AnswerKept
<1>9. TakesLine(h, result'.call, result'.value, pv'[ply + 1])
  BY <1>4 DEF TakesLine
<1>10. TableHasMoves'
  BY <1>1, <1>3, LineHeld
<1> QED BY <1>1, <1>2, <1>3, <1>4, <1>5, <1>6, <1>7, <1>8, <1>9, <1>10, LineGoes

LEMMA LineEnterQsearch == ASSUME LInv, Lined, EnterQsearch PROVE LInv'
<1> DEFINE g == QsearchNode
           f == IF HasCheck(node) THEN g
                ELSE [g EXCEPT !.bestNodeValue = g.staticEval,
                               !.alpha = IF On("STANDPAT") THEN Larger(@, g.staticEval) ELSE @]
           h == [f EXCEPT !.pc = "moves"]
<1>1. /\ Opening /\ In("qsearch") /\ ~MateDistanceCuts(Narrowed(Top)) /\ ~StandPat(g)
      /\ StartLoop(f) /\ UNCHANGED <<setting, result, tt, stopSearchFlag>>
  BY DEF EnterQsearch, OpeningQsearch
<1>2. At("enter")
  BY <1>1 DEF Opening
<1>3. Top.call.node = node /\ Top.call.ply = ply
  BY <1>2, LineFacts
<1>4. /\ IsFrame(g) /\ g.call = Top.call /\ g.bestNodeValue = VALUE_NONE /\ g.bestNodeMove = MOVE_NONE
      /\ g.movesSearched = 0 /\ StaticOK(node, g.staticEval)
      /\ g.alpha \in Int /\ g.beta \in Int
      /\ (~On("MDP") => g.alpha = Top.call.alpha)
      /\ (g.beta = Top.call.beta \/ (On("MDP") /\ g.beta = VALUE_CHECKMATE - ply))
      /\ (On("MDP") => Inside(g.alpha, g.beta, ply))
      /\ (~HasCheck(node) => g.staticEval \in Int /\ Within(g.staticEval, ply))
      /\ Top.call.ply < MAX_DEPTH
  <2>1. \A x : x = Looked(Narrowed(Top), Probe(Top)) => \A y : y = Evaluated(x) =>
          /\ IsFrame(y) /\ y.call = Top.call /\ y.bestNodeValue = VALUE_NONE /\ y.bestNodeMove = MOVE_NONE
          /\ y.movesSearched = 0 /\ StaticOK(node, y.staticEval)
          /\ y.alpha \in Int /\ y.beta \in Int
          /\ (~On("MDP") => y.alpha = Top.call.alpha)
          /\ (y.beta = Top.call.beta \/ (On("MDP") /\ y.beta = VALUE_CHECKMATE - ply))
          /\ (On("MDP") => Inside(y.alpha, y.beta, ply))
          /\ (~HasCheck(node) => y.staticEval \in Int /\ Within(y.staticEval, ply))
          /\ Top.call.ply < MAX_DEPTH
    BY <1>1, LookLine
  <2> QED BY <2>1 DEF QsearchNode
<1>5. StandPat(g) <=> On("STANDPAT") /\ ~HasCheck(node) /\ g.staticEval >= g.beta
  BY <1>3, <1>4 DEF StandPat
<1> HIDE DEF g
<1> DEFINE s == g.staticEval
           a == g.alpha
           b == g.beta
<1>6. /\ IsFrame(f) /\ f.call = Top.call /\ f.bestNodeMove = MOVE_NONE /\ f.movesSearched = 0
      /\ f.beta = b /\ f.staticEval = s
      /\ f.bestNodeValue = IF HasCheck(node) THEN VALUE_NONE ELSE s
      /\ f.alpha = IF ~HasCheck(node) /\ On("STANDPAT") THEN Larger(a, s) ELSE a
  BY <1>4 DEF IsFrame, Fields
<1> HIDE DEF f
<1>7. /\ IsFrame(h) /\ h.call = Top.call /\ h.pc = "moves" /\ h.movesSearched = 0
      /\ h.beta = b /\ h.staticEval = s /\ h.bestNodeValue = f.bestNodeValue /\ h.alpha = f.alpha
  BY <1>6 DEF IsFrame, Fields
<1> HIDE DEF h
<1>8. h.alpha \in Int /\ (On("MDP") => Inside(h.alpha, b, ply))
  <2> DEFINE x == h.alpha
             low == -VALUE_CHECKMATE + ply
             high == VALUE_CHECKMATE - ply
  <2>1. /\ x = IF ~HasCheck(node) /\ On("STANDPAT") THEN Larger(a, s) ELSE a
        /\ a \in Int /\ b \in Int /\ (~HasCheck(node) => s \in Int)
        /\ (On("MDP") => low <= a /\ a < b /\ b <= high)
        /\ (On("STANDPAT") /\ ~HasCheck(node) => ~(s >= b))
        /\ low \in Int
    <3>1. low \in Int
      BY <1>2, LineFacts, ValueFacts, DepthFacts DEF Plies
    <3> QED BY <1>1, <1>4, <1>5, <1>6, <1>7, <3>1 DEF Inside
  <2> HIDE DEF x, a, b, s, low, high
  <2>2. x \in Int /\ (On("MDP") => low <= x /\ x < b /\ b <= high)
    BY <2>1 DEF Larger
  <2> QED BY <2>2 DEF Inside, x, low, high
<1>9. PastEntry(h)
  <2>1. h.bestNodeValue \in Int
    BY <1>4, <1>6, <1>7, ValueFacts
  <2> QED BY <1>1, <1>3, <1>4, <1>7, <1>8, <2>1 DEF PastEntry, In
<1>10. LeafBest(h)
  <2>1. ~HasCheck(node) => Within(s, ply) /\ s # VALUE_NONE
    <3>1. ply \in Nat
      BY <1>2, LineFacts, DepthFacts DEF Plies
    <3> QED BY <1>4, <3>1, ValueFacts DEF Within
  <2> QED BY <1>3, <1>6, <1>7, <2>1 DEF LeafBest
<1>11. f.bestNodeMove \in MovesOf(node)
  BY <1>6 DEF MovesOf
<1> QED BY <1>1, <1>2, <1>6, <1>9, <1>10, <1>11, LineStartLoop DEF h

-----------------------------------------------------------------------------
(***************************************************************************)
(* search() before the move loop, line by line.                            *)
(***************************************************************************)
(* A frame with the same locals, as far as lines are concerned. *)
Like(f, h) ==
  /\ IsFrame(h) /\ h.call = f.call /\ h.alpha = f.alpha /\ h.beta = f.beta
  /\ h.staticEval = f.staticEval /\ h.bestNodeValue = f.bestNodeValue
  /\ h.bestNodeMove = f.bestNodeMove /\ h.movesSearched = f.movesSearched /\ h.ttMove = f.ttMove

LEMMA Relabelled ==
  ASSUME NEW f, IsFrame(f), NEW pc, NEW h, h = [f EXCEPT !.pc = pc]
  PROVE  Like(f, h) /\ h.pc = pc /\ h.newDepth = f.newDepth /\ h.move = f.move
BY DEF Like, IsFrame, Fields

LEMMA StillOutside ==
  ASSUME NEW f, NEW l, LineFrame(f, l), f.pc \in {"prune", "nullMoved", "iid"}, NEW h, Like(f, h),
         h.pc \in {"iid", "iidSearched"} \/ (f.pc = "prune" /\ h.pc = "nullMoved")
  PROVE  \A line : LineFrame(h, line)
<1>1. PastEntry(h)
  BY DEF LineFrame, PastEntry, Like
<1>2. LeafBest(h)
  BY DEF LeafBest, Looping
<1> QED BY <1>1, <1>2 DEF LineFrame, Like, Looping

LEMMA StaticLine ==
  ASSUME game \in Games, NEW n \in Nodes, NEW s, StaticOK(n, s), ~HasCheck(n)
  PROVE  s \in Int /\ s <= VALUE_CHECKMATE_THRESHOLD
<1> DEFINE T == VALUE_CHECKMATE_THRESHOLD
<1>1. Eval(n) \in -T .. T
  BY GameFacts
<1>2. T \in Nat /\ VALUE_DRAW = 0
  BY DepthAssumption DEF VALUE_CHECKMATE, VALUE_MAX, VALUE_DRAW, VALUE_CHECKMATE_THRESHOLD
<1>3. s \in {Eval(n), VALUE_DRAW}
  BY DEF StaticOK
<1> HIDE DEF T
<1> QED BY <1>1, <1>2, <1>3 DEF T

(* A cut with a value that is not a mate lies outside the window. *)
LEMMA BeyondBeta ==
  ASSUME NEW f, PastEntry(f), LineCall(f.call), NEW v \in Int, v >= f.beta, v <= VALUE_CHECKMATE_THRESHOLD
  PROVE  \A line : HasLine(f.call, v, line)
<1> DEFINE b == f.beta
           y == f.call.beta
           p == f.call.ply
<1>1. b \in Int /\ y \in Int /\ p \in Nat /\ p <= MAX_DEPTH /\ (b = y \/ b = VALUE_CHECKMATE - p) /\ v >= b
  BY DepthFacts DEF PastEntry, LineCall, Plies
<1> HIDE DEF b, y, p
<1>2. v >= y
  BY <1>1, DepthFacts, ValueFacts
<1>3. ~(v < y)
  BY <1>1, <1>2
<1> QED BY <1>3 DEF HasLine, y

LEMMA LineRazor == ASSUME LInv, Lined, Razor PROVE LInv'
<1> DEFINE c == QsearchCall(node, ply, Top.alpha, Top.beta, TRUE)
           g == Frame(c)
           d == Top.call
<1>1. At("prune") /\ Goto(g) /\ UNCHANGED <<setting, stopSearchFlag>> /\ result' = result /\ pv' = pv /\ tt' = tt
  BY DEF Razor
<1>2. /\ LineCall(d) /\ d.ply = ply /\ d.node = node /\ PastEntry(Top) /\ Top.pc = "prune"
      /\ ply \in Plies /\ node \in Nodes /\ LineFrame(Top, pv[ply])
  BY <1>1, LineFacts
<1>3. d.fn = "search"
  BY <1>2 DEF LineFrame
<1> DEFINE a == Top.alpha
           b == Top.beta
<1>4. /\ a \in Int /\ b \in Int /\ (~On("MDP") => a = d.alpha /\ b = d.beta)
      /\ (On("MDP") => Inside(a, b, ply) /\ b \in {d.beta, VALUE_CHECKMATE - ply})
  BY <1>2 DEF PastEntry
<1>5. c.fn = "qsearch" /\ c.node = node /\ c.depth = 0 /\ c.ply = ply /\ c.alpha = a /\ c.beta = b
  BY DEF QsearchCall, SearchCall
<1> HIDE DEF c, a, b, d
<1>6. LineCall(c)
  BY <1>2, <1>4, <1>5 DEF LineCall
<1>7. \A h : AskedFor(h, d) => AskedFor(h, c)
  <2> SUFFICES ASSUME NEW h, AskedFor(h, d) PROVE AskedFor(h, c)
    OBVIOUS
  <2>1. CASE h.pc = "searched"
    <3>1. d.alpha = -h.beta /\ d.beta = -h.alpha /\ d.node = Child(h.call.node, h.move) /\ d.ply = h.call.ply + 1
      BY <1>3, <2>1 DEF AskedFor
    <3> QED BY <1>2, <1>4, <1>5, <2>1, <3>1 DEF AskedFor
  <2>2. CASE h.pc # "searched"
    BY <1>2, <1>5, <2>2 DEF AskedFor
  <2> QED BY <2>1, <2>2
<1>8. g.call = c /\ g.pc = "enter" /\ \A line : LineFrame(g, line)
  BY <1>6, FreshLine
<1>9. TableHasMoves'
  BY <1>1, LineHeld, Settled
<1> HIDE DEF g
<1>10. TakesLine(g, result.call, result.value, pv[ply + 1])
  BY <1>8 DEF TakesLine
<1> QED BY <1>1, <1>5, <1>7, <1>8, <1>9, <1>10, LineMoves DEF d

LEMMA LineReverseFutilityCut == ASSUME LInv, Lined, ReverseFutilityCut PROVE LInv'
<1> DEFINE v == Top.staticEval - RFP_MARGIN[depth]
<1>1. At("prune") /\ ReverseFutile(Top) /\ Return(v) /\ UNCHANGED <<setting, stopSearchFlag>> /\ pv' = pv /\ tt' = tt
  BY DEF ReverseFutilityCut
<1>2. /\ Top.call.node = node /\ Top.call.depth = depth /\ LineCall(Top.call) /\ Top.pc = "prune"
      /\ PastEntry(Top) /\ game \in Games /\ node \in Nodes /\ depth \in Nat /\ LineFrame(Top, pv[ply])
  BY <1>1, LineFacts
<1>3. Top.call.fn = "search" /\ depth > 0 /\ StaticOK(node, Top.staticEval)
  BY <1>2 DEF LineFrame, PastEntry
<1>4. depth <= 3 /\ v >= Top.beta /\ ~HasCheck(node)
  BY <1>1, <1>2 DEF ReverseFutile
<1>5. RFP_MARGIN[depth] \in Nat
  BY <1>2, <1>3, <1>4, SearchAssumption
<1>6. Top.staticEval \in Int /\ Top.staticEval <= VALUE_CHECKMATE_THRESHOLD
  BY <1>2, <1>3, <1>4, StaticLine
<1>7. v \in Int /\ v <= VALUE_CHECKMATE_THRESHOLD
  <2> DEFINE s == Top.staticEval
             m == RFP_MARGIN[depth]
             T == VALUE_CHECKMATE_THRESHOLD
  <2>1. v = s - m /\ s \in Int /\ m \in Nat /\ s <= T /\ T \in Int
    BY <1>5, <1>6, ValueFacts, DepthFacts
  <2> HIDE DEF v, s, m, T
  <2>2. v \in Int /\ v <= T
    BY <2>1
  <2> QED BY <2>2 DEF T
<1> HIDE DEF v
<1>8. HasLine(Top.call, v, pv[ply])
  BY <1>2, <1>4, <1>7, BeyondBeta
<1>9. LeafValue(Top.call, v)
  BY <1>3 DEF LeafValue
<1>10. TableHasMoves'
  BY <1>1, LineHeld, Settled
<1> QED BY <1>1, <1>7, <1>8, <1>9, <1>10, LineBack

LEMMA LineNullMove == ASSUME LInv, Lined, NullMove PROVE LInv'
<1> DEFINE f == [Top EXCEPT !.pc = "nullMoved"]
           c == SearchCall(game.pass[node], NullMoveDepth(depth), ply + 1, -Top.beta, -Top.beta + 1, FALSE, FALSE)
<1>1. /\ At("prune") /\ TriesNullMove(Top) /\ CallFrom(f, c)
      /\ UNCHANGED <<setting, stopSearchFlag>> /\ result' = result /\ pv' = pv /\ tt' = tt
  BY DEF NullMove
<1>2. /\ stack # <<>> /\ ply \in Plies /\ game \in Games /\ IsFrame(Top) /\ LineFrame(Top, pv[ply])
      /\ Top.call.node = node /\ depth \in Nat /\ PastEntry(Top) /\ Top.pc = "prune"
  BY <1>1, LineFacts
<1>3. game.pass[node] \in Nodes
  <2>1. IsGame(game) /\ node \in DOMAIN game.pass
    BY <1>1, <1>2, SearchAssumption DEF TriesNullMove
  <2> QED BY <2>1 DEF IsGame, Nodes
<1>4. NullMoveDepth(depth) \in Nat
  <2>1. depth \in Int /\ NMP_REDUCTION \in Nat
    BY <1>2, SearchAssumption
  <2> DEFINE r == IF depth > 8 \/ (depth > 6 /\ game.middleGame) THEN NMP_REDUCTION + 1 ELSE NMP_REDUCTION
  <2>2. r + 1 \in Int
    BY <2>1
  <2>3. NullMoveDepth(depth) = ReducedDepth(depth, r + 1)
    BY DEF NullMoveDepth
  <2> HIDE DEF r
  <2> QED BY <2>1, <2>2, <2>3, ReducedFacts
<1>5. ply + 1 \in Plies /\ ply <= ply + 1
  BY <1>1, NextPly
<1>6. Like(Top, f) /\ f.pc = "nullMoved"
  BY <1>2, Relabelled
<1>7. /\ c.fn = "search" /\ c.node = game.pass[node] /\ c.depth = NullMoveDepth(depth) /\ c.ply = ply + 1
      /\ c.alpha = -Top.beta /\ c.beta = -Top.beta + 1
  BY DEF SearchCall
<1> HIDE DEF c, f
<1>8. LineFrame(f, pv[ply])
  BY <1>2, <1>6, StillOutside
<1>9. LineCall(c)
  <2>1. Top.beta \in Int
    BY <1>2 DEF PastEntry
  <2> QED BY <1>3, <1>4, <1>5, <1>7, <2>1 DEF LineCall
<1>10. AskedFor(f, c) /\ f.call = Top.call /\ f.pc \notin Looping
  BY <1>6 DEF AskedFor, Like, Looping
<1>11. Fixed /\ stopSearchFlag' = stopSearchFlag
  BY <1>1, Settled
<1> QED BY <1>1, <1>2, <1>5, <1>6, <1>7, <1>8, <1>9, <1>10, <1>11, LineCalls

(* A step to the next part of the node. *)
LEMMA LineOnward ==
  ASSUME LInv, Lined, NEW pc, At(pc), pc \in {"prune", "nullMoved"}, UNCHANGED <<setting, stopSearchFlag>>,
         NEW f, Goto(f), Like(Top, f), f.pc = "iid", result' = result, pv' = pv, tt' = tt
  PROVE  LInv'
<1>1. Top.pc = pc /\ LineFrame(Top, pv[ply]) /\ Top.call.ply = ply
  BY LineFacts
<1>2. LineFrame(f, pv[ply]) /\ f.call = Top.call
  BY <1>1, StillOutside DEF Like
<1>3. TakesLine(f, result.call, result.value, pv[ply + 1])
  BY DEF TakesLine
<1>4. TableHasMoves'
  BY LineHeld, Settled
<1> QED BY <1>1, <1>2, <1>3, <1>4, LineMoves

LEMMA LineNoNullMove == ASSUME LInv, Lined, NoNullMove PROVE LInv'
<1> DEFINE f == [Top EXCEPT !.pc = "iid"]
<1>1. At("prune") /\ Goto(f) /\ UNCHANGED <<setting, stopSearchFlag>> /\ result' = result /\ pv' = pv /\ tt' = tt
  BY DEF NoNullMove
<1>2. Like(Top, f) /\ f.pc = "iid"
  BY <1>1, LineFacts, Relabelled
<1> HIDE DEF f
<1> QED BY <1>1, <1>2, LineOnward

LEMMA LineNullMoveFailed == ASSUME LInv, Lined, NullMoveFailed PROVE LInv'
<1> DEFINE f == [Top EXCEPT !.pc = "iid", !.matethreat = -result.value < VALUE_CHECKMATE_THRESHOLD]
<1>1. At("nullMoved") /\ Goto(f) /\ UNCHANGED <<setting, stopSearchFlag>> /\ result' = result /\ pv' = pv /\ tt' = tt
  BY DEF NullMoveFailed
<1>2. IsFrame(Top)
  BY <1>1, LineFacts
<1>3. Like(Top, f) /\ f.pc = "iid"
  BY <1>2 DEF Like, IsFrame, Fields
<1> HIDE DEF f
<1> QED BY <1>1, <1>3, LineOnward

LEMMA LineNullMoveCut == ASSUME LInv, Lined, NullMoveCut PROVE LInv'
<1> DEFINE v == NullMoveValue
<1>1. /\ At("nullMoved") /\ v >= Top.beta /\ Return(v) /\ UNCHANGED <<setting, stopSearchFlag>> /\ pv' = pv
      /\ storeTt(depth, Top.ttMove, v, "BETA", Top.staticEval) \/ tt' = tt
  BY DEF NullMoveCut
<1>2. /\ stack # <<>> /\ PastEntry(Top) /\ Top.call.node = node /\ Top.pc = "nullMoved" /\ LineCall(Top.call)
      /\ LineFrame(Top, pv[ply]) /\ ResultHasLine
  BY <1>1, LineFacts
<1>3. v \in Int /\ v <= VALUE_CHECKMATE_THRESHOLD
  <2> DEFINE w == -result.value
             T == VALUE_CHECKMATE_THRESHOLD
  <2>1. w \in Int /\ T \in Int /\ v = IF w <= T THEN w ELSE T
    BY <1>2, ValueFacts, DepthFacts DEF ResultHasLine, NullMoveValue, Smaller
  <2> HIDE DEF w, T, v
  <2>2. v \in Int /\ v <= T
    BY <2>1
  <2> QED BY <2>2 DEF T
<1> HIDE DEF v
<1>4. HasLine(Top.call, v, pv[ply])
  BY <1>1, <1>2, <1>3, BeyondBeta
<1>5. LeafValue(Top.call, v)
  BY <1>2 DEF LeafValue, LineFrame
<1>6. StaticOK(node, Top.staticEval) /\ Top.ttMove \in MovesOf(node)
  BY <1>2 DEF PastEntry, LineFrame
<1>7. TableHasMoves'
  <2> DEFINE d == depth
             m == Top.ttMove
             e == Top.staticEval
             ty == "BETA"
  <2>1. storeTt(d, m, v, ty, e) \/ tt' = tt
    BY <1>1
  <2>2. StaticOK(node, e) /\ m \in MovesOf(node) /\ Fixed
    BY <1>1, <1>6, Settled
  <2> HIDE DEF d, m, e, ty
  <2> QED BY <1>2, <1>3, <2>1, <2>2, LineHeld, LineStored
<1> QED BY <1>1, <1>3, <1>4, <1>5, <1>7, LineBack

LEMMA LineIid == ASSUME LInv, Lined, Iid PROVE LInv'
<1> DEFINE f == [Top EXCEPT !.pc = "iidSearched"]
           c == SearchCall(node, ReducedDepth(depth, IID_REDUCTION), ply,
                           Top.alpha, Top.beta, Top.call.isPv, Top.call.doNull)
<1>1. /\ At("iid") /\ CallFrom(f, c)
      /\ UNCHANGED <<setting, stopSearchFlag>> /\ result' = result /\ pv' = pv /\ tt' = tt
  BY DEF Iid
<1>2. /\ stack # <<>> /\ ply \in Plies /\ IsFrame(Top) /\ node \in Nodes /\ depth \in Nat
      /\ PastEntry(Top) /\ Top.pc = "iid" /\ LineFrame(Top, pv[ply])
  BY <1>1, LineFacts
<1>3. ReducedDepth(depth, IID_REDUCTION) \in Nat
  <2>1. depth \in Int /\ IID_REDUCTION \in Int
    BY <1>2, SearchAssumption
  <2> QED BY <2>1, ReducedFacts
<1>4. Like(Top, f) /\ f.pc = "iidSearched"
  BY <1>2, Relabelled
<1>5. /\ c.fn = "search" /\ c.node = node /\ c.depth = ReducedDepth(depth, IID_REDUCTION) /\ c.ply = ply
      /\ c.alpha = Top.alpha /\ c.beta = Top.beta
  BY DEF SearchCall
<1> HIDE DEF c, f
<1>6. LineFrame(f, pv[ply])
  BY <1>2, <1>4, StillOutside
<1>7. LineCall(c)
  BY <1>2, <1>3, <1>5 DEF LineCall, PastEntry
<1>8. AskedFor(f, c) /\ f.call = Top.call /\ f.pc \notin Looping
  BY <1>4 DEF AskedFor, Like, Looping
<1>9. Fixed /\ stopSearchFlag' = stopSearchFlag /\ ply <= c.ply
  BY <1>1, <1>2, <1>5, Settled, DepthFacts DEF Plies
<1> QED BY <1>1, <1>2, <1>4, <1>6, <1>7, <1>8, <1>9, LineCalls

LEMMA LineReductionStopped == ASSUME LInv, Lined, ReductionStopped PROVE LInv'
BY LineStop DEF ReductionStopped

LEMMA LineLoopOfSearch ==
  ASSUME LInv, Lined, NEW pc, pc \in {"iid", "iidSearched"}, At(pc), NEW f, IsFrame(f), StartLoop(f),
         f.call = Top.call, f.alpha = Top.alpha, f.beta = Top.beta, f.staticEval = Top.staticEval,
         f.bestNodeValue = Top.bestNodeValue, f.bestNodeMove = Top.bestNodeMove,
         UNCHANGED <<setting, result, tt, stopSearchFlag>>
  PROVE  LInv'
<1> DEFINE h == [f EXCEPT !.pc = "moves"]
<1>1. PastEntry(Top) /\ LineFrame(Top, pv[ply]) /\ Top.pc = pc /\ Top.call.node = node
  BY LineFacts
<1>2. Like(f, h) /\ h.pc = "moves"
  BY Relabelled
<1> HIDE DEF h
<1>3. PastEntry(h)
  BY <1>1, <1>2 DEF PastEntry, Like
<1>4. LeafBest(h)
  BY <1>1, <1>2 DEF LeafBest, Like, LineFrame
<1>5. f.bestNodeMove \in MovesOf(node)
  BY <1>1 DEF LineFrame
<1> QED BY <1>3, <1>4, <1>5, LineStartLoop DEF h

LEMMA LineStartMoves == ASSUME LInv, Lined, StartMoves PROVE LInv'
<1>1. At("iid") /\ StartLoop(Top) /\ UNCHANGED <<setting, result, tt, stopSearchFlag>>
  BY DEF StartMoves
<1>2. IsFrame(Top)
  BY <1>1, LineFacts
<1> QED BY <1>1, <1>2, LineLoopOfSearch

LEMMA LineStartMovesAfterIid == ASSUME LInv, Lined, StartMovesAfterIid PROVE LInv'
<1> DEFINE m == IF pv[ply] = <<>> THEN Top.ttMove ELSE Head(pv[ply])
           f == [Top EXCEPT !.ttMove = m]
<1>1. At("iidSearched") /\ StartLoop(f) /\ UNCHANGED <<setting, result, tt, stopSearchFlag>>
  BY DEF StartMovesAfterIid
<1>2. IsFrame(Top)
  BY <1>1, LineFacts
<1> HIDE DEF m
<1>3. /\ IsFrame(f) /\ f.call = Top.call /\ f.alpha = Top.alpha /\ f.beta = Top.beta /\ f.staticEval = Top.staticEval
      /\ f.bestNodeValue = Top.bestNodeValue /\ f.bestNodeMove = Top.bestNodeMove
  BY <1>2 DEF IsFrame, Fields
<1> HIDE DEF f
<1> QED BY <1>1, <1>3, LineLoopOfSearch

-----------------------------------------------------------------------------
(***************************************************************************)
(* The move loop, line by line.                                            *)
(***************************************************************************)
(* The frame stays in its loop and its line stays as it is. *)
LEMMA LineLoops ==
  ASSUME LInv, Lined, NEW pc, pc \in Looping, At(pc), UNCHANGED <<setting, stopSearchFlag>>,
         NEW f, Goto(f), IsFrame(f), f.call = Top.call, f.pc \in {"moves", "end"}, PastEntry(f), LeafBest(f),
         f.bestNodeMove \in MovesOf(node), result' = result, pv' = pv, tt' = tt
  PROVE  LInv'
<1>1. /\ Top.pc = pc /\ LineFrame(Top, pv[ply]) /\ Top.call.ply = ply /\ Top.call.node = node
      /\ LineCall(Top.call)
  BY LineFacts
<1>2. LineFrame(f, pv[ply])
  BY <1>1 DEF LineFrame, Looping
<1>3. TakesLine(f, result.call, result.value, pv[ply + 1])
  BY DEF TakesLine
<1>4. TableHasMoves'
  BY LineHeld, Settled
<1> QED BY <1>1, <1>2, <1>3, <1>4, LineMoves

LEMMA LineSkipMove == ASSUME LInv, Lined, SkipMove PROVE LInv'
<1>1. PICK m : Goto([Top EXCEPT !.bestNodeValue = Optimistic(m)])
  BY DEF SkipMove
<1>2. At("moves") /\ UNCHANGED <<setting, stopSearchFlag>> /\ result' = result /\ pv' = pv /\ tt' = tt
  BY DEF SkipMove
<1> DEFINE f == [Top EXCEPT !.bestNodeValue = Optimistic(m)]
           t == Top
           b == t.bestNodeValue
           s == t.staticEval
<1>3. /\ IsFrame(t) /\ PastEntry(t) /\ LeafBest(t) /\ t.pc = "moves" /\ t.call.ply = ply /\ t.call.node = node
      /\ LineFrame(t, pv[ply]) /\ game \in Games /\ node \in Nodes /\ LineCall(t.call) /\ ply \in Plies
  BY <1>2, LineFacts
<1>4. /\ f.call = t.call /\ f.pc = "moves" /\ f.staticEval = s /\ f.beta = t.beta /\ f.alpha = t.alpha
      /\ f.movesSearched = t.movesSearched /\ f.bestNodeMove = t.bestNodeMove
      /\ f.bestNodeValue = Optimistic(m) /\ IsFrame(f)
  BY <1>3 DEF IsFrame, Fields
<1>5. /\ b \in Int /\ t.alpha \in Int /\ t.beta \in Int /\ StaticOK(node, s)
      /\ (On("MDP") => Inside(t.alpha, t.beta, ply)) /\ t.bestNodeMove \in MovesOf(node)
  BY <1>3 DEF PastEntry, LineFrame
<1>6. ~HasCheck(node) => s \in Int
  BY <1>3, <1>5, StaticLine
<1>7. /\ Optimistic(m) \in Int
      /\ \/ Optimistic(m) = b
         \/ ~HasCheck(node) /\ t.call.fn = "search"
         \/ /\ ~HasCheck(node) /\ Optimistic(m) >= b
            /\ Optimistic(m) = b \/ Optimistic(m) <= t.alpha
  <2>1. CASE Futile(m)
    <3>1. ~HasCheck(node) /\ Optimistic(m) = Larger(b, s) /\ t.call.fn = "search"
      BY <2>1 DEF Futile, Prunable, Optimistic, In
    <3> HIDE DEF b, s
    <3> QED BY <1>5, <1>6, <3>1 DEF Larger
  <2>2. CASE ~Futile(m) /\ QFutile(m)
    <3> DEFINE x == s + game.gain
               a == t.alpha
               q == QFP_MARGIN
               g == game.gain
    <3>1. ~HasCheck(node) /\ Optimistic(m) = Larger(b, x) /\ x + q <= a
      BY <2>2 DEF QFutile, Optimistic
    <3>2. g \in Nat /\ q \in Nat
      BY <1>3, SearchAssumption DEF IsGame
    <3>3. s \in Int /\ a \in Int /\ b \in Int
      BY <1>5, <1>6, <3>1
    <3>4. x = s + g
      OBVIOUS
    <3> HIDE DEF x, a, q, g, b, s
    <3>5. x \in Int /\ x <= a
      BY <3>1, <3>2, <3>3, <3>4
    <3> QED BY <3>1, <3>3, <3>5 DEF Larger, a
  <2>3. CASE ~Futile(m) /\ ~QFutile(m)
    BY <1>5, <2>3 DEF Optimistic
  <2> QED BY <2>1, <2>2, <2>3
<1> DEFINE o == Optimistic(m)
<1> HIDE DEF f, o
<1>8. PastEntry(f)
  BY <1>3, <1>4, <1>7 DEF PastEntry, o
<1>9. LeafBest(f)
  <2> SUFFICES ASSUME On("MDP"), t.call.fn = "qsearch"
               PROVE  /\ o = VALUE_NONE \/ Within(o, ply)
                      /\ t.movesSearched \in Nat
                      /\ t.movesSearched > 0 \/ ~HasCheck(node) => o # VALUE_NONE
    BY <1>3, <1>4 DEF LeafBest, o
  <2>1. /\ b = VALUE_NONE \/ Within(b, ply)
        /\ t.movesSearched \in Nat
        /\ t.movesSearched > 0 \/ ~HasCheck(node) => b # VALUE_NONE
    BY <1>3 DEF LeafBest, Looping
  <2>2. CASE o = b
    BY <2>1, <2>2
  <2>3. CASE o # b
    <3> DEFINE a == t.alpha
               y == t.beta
               p == ply
    <3>1. ~HasCheck(node) /\ o >= b /\ o <= a /\ o \in Int
      BY <1>7, <2>3 DEF o
    <3>2. Within(b, p) /\ Inside(a, y, p) /\ a \in Int /\ y \in Int /\ b \in Int /\ p \in Nat
      BY <1>3, <1>5, <2>1, <3>1, DepthFacts DEF Plies
    <3> HIDE DEF a, y, p, b
    <3>3. Within(o, p) /\ o # VALUE_NONE
      BY <3>1, <3>2, ValueFacts DEF Within, Inside
    <3> QED BY <2>1, <3>3 DEF p
  <2> QED BY <2>2, <2>3
<1>10. Goto(f)
  BY <1>1 DEF f
<1> QED BY <1>2, <1>3, <1>4, <1>5, <1>8, <1>9, <1>10, LineLoops DEF Looping

LEMMA LineNoMoreMoves == ASSUME LInv, Lined, NoMoreMoves PROVE LInv'
<1> DEFINE f == [Top EXCEPT !.pc = "end"]
<1>1. At("moves") /\ Goto(f) /\ UNCHANGED <<setting, stopSearchFlag>> /\ result' = result /\ pv' = pv /\ tt' = tt
  BY DEF NoMoreMoves
<1>2. IsFrame(Top) /\ PastEntry(Top) /\ LeafBest(Top) /\ Top.pc = "moves" /\ LineFrame(Top, pv[ply])
      /\ Top.call.node = node
  BY <1>1, LineFacts
<1>3. Like(Top, f) /\ f.pc = "end"
  BY <1>2, Relabelled
<1> HIDE DEF f
<1>4. PastEntry(f) /\ LeafBest(f) /\ f.bestNodeMove \in MovesOf(node)
  BY <1>2, <1>3 DEF PastEntry, LeafBest, Like, Looping, LineFrame
<1> QED BY <1>1, <1>3, <1>4, LineLoops DEF Like, Looping

LEMMA StillLooping ==
  ASSUME NEW f, NEW l, LineFrame(f, l), f.pc \in Looping, NEW h, Like(f, h), h.pc \in {"probed", "searched"},
         h.move \in Legal(f.call.node), h.pc = "probed" => f.call.fn = "search" /\ h.newDepth \in Nat
  PROVE  LineFrame(h, l)
<1>1. PastEntry(h)
  BY DEF LineFrame, PastEntry, Like, Looping
<1>2. LeafBest(h)
  BY DEF LineFrame, LeafBest, Like, Looping
<1> QED BY <1>1, <1>2 DEF LineFrame, Like, Looping

(* A move is taken: it is legal, and the depths below it are numbers. *)
TakenAs(m, pc) == [Entered(m) EXCEPT !.pc = pc]

LEMMA TakenLine ==
  ASSUME LInv, Lined, At("moves"), NEW m, ~Skipped(m), NEW pc \in {"searched", "probed"},
         pc = "probed" => In("search"), NEW f, f = TakenAs(m, pc)
  PROVE  /\ LineFrame(f, pv[ply]) /\ f.call = Top.call /\ f.pc = pc /\ f.alpha = Top.alpha /\ f.beta = Top.beta
         /\ f.move = m /\ Child(node, m) \in Nodes
         /\ In("search") => NewDepth(m) \in Nat /\ LmrDepth(m) \in Nat
<1>1. /\ IsFrame(Top) /\ LineCall(Top.call) /\ PastEntry(Top) /\ Top.call.node = node /\ Top.call.depth = depth
      /\ node \in Nodes /\ game \in Games /\ LineFrame(Top, pv[ply]) /\ Top.pc = "moves" /\ depth \in Nat
  BY LineFacts
<1>2. m \in Legal(node)
  BY DEF Skipped
<1>3. Child(node, m) \in Nodes
  BY <1>1, <1>2, GameFacts
<1>4. ASSUME In("search") PROVE NewDepth(m) \in Nat /\ LmrDepth(m) \in Nat
  <2>1. depth \in Nat /\ depth - 1 \in Nat
    BY <1>1, <1>4 DEF PastEntry, In
  <2>2. Extension(m) \in Nat
    BY DEF Extension
  <2>3. NewDepth(m) \in Nat
    BY <2>1, <2>2 DEF NewDepth
  <2>4. ReducedDepth(depth - 1, LMR_REDUCTION) \in Nat
    <3>1. depth - 1 \in Int /\ LMR_REDUCTION \in Int
      BY <2>1, SearchAssumption
    <3> HIDE DEF depth
    <3> QED BY <3>1, ReducedFacts
  <2>5. LmrDepth(m) \in Nat
    BY <2>1, <2>4 DEF LmrDepth
  <2> QED BY <2>3, <2>5
<1> DEFINE g == Entered(m)
<1>5. Like(Top, [g EXCEPT !.pc = pc]) /\ f = [g EXCEPT !.pc = pc] /\ f.pc = pc
      /\ f.newDepth = NewDepth(m) /\ f.move = m
  BY <1>1 DEF TakenAs, Entered, Like, IsFrame, Fields
<1> HIDE DEF g
<1>6. LineFrame(f, pv[ply])
  BY <1>1, <1>2, <1>4, <1>5, StillLooping DEF In, Looping
<1> QED BY <1>3, <1>4, <1>5, <1>6 DEF Like

(* Nothing is drawn. *)
LEMMA LineMoveToDraw == ASSUME LInv, Lined, MoveToDraw PROVE LInv'
BY DEF MoveToDraw, Drawn, Lined

LEMMA LineMoveCalls ==
  ASSUME LInv, Lined, At("moves"), NEW m, ~Skipped(m), NEW pc \in {"searched", "probed"},
         pc = "probed" => In("search"), NEW f, f = TakenAs(m, pc), NEW c, CallFrom(f, c),
         UNCHANGED <<setting, result, tt, pv, stopSearchFlag>>,
         c.fn \in {"search", "qsearch"}, In("qsearch") => c.fn = "qsearch",
         c.node = Child(node, m), c.depth \in Nat, c.ply = ply + 1, c.alpha \in Int, c.beta \in Int,
         pc = "searched" => c.alpha = -Top.beta /\ c.beta = -Top.alpha
  PROVE  LInv'
<1>1. Fixed /\ stopSearchFlag' = stopSearchFlag /\ result' = result /\ tt' = tt /\ pv' = pv
  BY Settled
<1>2. /\ LineFrame(f, pv[ply]) /\ f.call = Top.call /\ f.pc = pc /\ f.alpha = Top.alpha /\ f.beta = Top.beta
      /\ f.move = m /\ Child(node, m) \in Nodes
  BY TakenLine
<1> DEFINE n == Child(node, m)
<1>c. c.node = n /\ n \in Nodes
  BY <1>2
<1>3. stack # <<>> /\ ply \in Plies /\ Top.call.ply = ply /\ Top.call.node = node
  BY LineFacts
<1>4. ply + 1 \in Plies /\ ply <= ply + 1 /\ ply < ply + 1
  BY <1>3, NextPly
<1>5. LineCall(c)
  BY <1>4, <1>c DEF LineCall
<1>6. AskedFor(f, c)
  BY <1>2, <1>3 DEF AskedFor, In
<1> QED BY <1>1, <1>2, <1>3, <1>4, <1>5, <1>6, LineCalls

LEMMA WindowLine ==
  ASSUME LInv, Lined, NEW pc, pc # "enter", At(pc)
  PROVE  /\ Top.alpha \in Int /\ Top.beta \in Int /\ -Top.alpha \in Int /\ -Top.beta \in Int
         /\ -Top.alpha - 1 \in Int
<1> DEFINE a == Top.alpha
           b == Top.beta
<1>1. a \in Int /\ b \in Int
  BY LineFacts DEF PastEntry
<1> HIDE DEF a, b
<1>2. -a \in Int /\ -b \in Int /\ -a - 1 \in Int
  BY <1>1
<1> QED BY <1>1, <1>2 DEF a, b

LEMMA LineMoveSearched == ASSUME LInv, Lined, MoveSearched PROVE LInv'
<1>1. PICK m : ~Skipped(m) /\ CallFrom([Entered(m) EXCEPT !.pc = "searched"], FullWindow(Child(node, m), NewDepth(m)))
  BY DEF MoveSearched
<1>2. At("moves") /\ In("search") /\ UNCHANGED <<setting, result, tt, pv, stopSearchFlag>>
  BY DEF MoveSearched
<1> DEFINE f == TakenAs(m, "searched")
           c == FullWindow(Child(node, m), NewDepth(m))
<1>3. NewDepth(m) \in Nat
  BY <1>1, <1>2, TakenLine
<1>4. /\ c.fn = "search" /\ c.node = Child(node, m) /\ c.depth = NewDepth(m) /\ c.ply = ply + 1
      /\ c.alpha = -Top.beta /\ c.beta = -Top.alpha
  BY DEF FullWindow, SearchCall
<1>5. CallFrom(f, c)
  BY <1>1 DEF TakenAs
<1>6. c.alpha \in Int /\ c.beta \in Int /\ ~In("qsearch")
  BY <1>2, <1>4, WindowLine DEF In
<1> HIDE DEF c
<1> QED BY <1>1, <1>2, <1>3, <1>4, <1>5, <1>6, LineMoveCalls

LEMMA LineMoveProbed == ASSUME LInv, Lined, MoveProbed PROVE LInv'
<1>1. PICK m : ~Skipped(m) /\ CallFrom([Entered(m) EXCEPT !.pc = "probed"], NullWindow(Child(node, m), LmrDepth(m)))
  BY DEF MoveProbed
<1>2. At("moves") /\ In("search") /\ UNCHANGED <<setting, result, tt, pv, stopSearchFlag>>
  BY DEF MoveProbed
<1> DEFINE f == TakenAs(m, "probed")
           c == NullWindow(Child(node, m), LmrDepth(m))
<1>3. LmrDepth(m) \in Nat
  BY <1>1, <1>2, TakenLine
<1>4. /\ c.fn = "search" /\ c.node = Child(node, m) /\ c.depth = LmrDepth(m) /\ c.ply = ply + 1
      /\ c.alpha = -Top.alpha - 1 /\ c.beta = -Top.alpha
  BY DEF NullWindow, SearchCall
<1>5. CallFrom(f, c)
  BY <1>1 DEF TakenAs
<1>6. c.alpha \in Int /\ c.beta \in Int /\ ~In("qsearch")
  BY <1>2, <1>4, WindowLine DEF In
<1> HIDE DEF c
<1> QED BY <1>1, <1>2, <1>3, <1>4, <1>5, <1>6, LineMoveCalls

LEMMA LineMoveQsearched == ASSUME LInv, Lined, MoveQsearched PROVE LInv'
<1>1. PICK m : ~Skipped(m) /\ CallFrom([Entered(m) EXCEPT !.pc = "searched"],
                                  QsearchCall(Child(node, m), ply + 1, -Top.beta, -Top.alpha, Top.call.isPv))
  BY DEF MoveQsearched
<1>2. At("moves") /\ UNCHANGED <<setting, result, tt, pv, stopSearchFlag>>
  BY DEF MoveQsearched
<1> DEFINE f == TakenAs(m, "searched")
           c == QsearchCall(Child(node, m), ply + 1, -Top.beta, -Top.alpha, Top.call.isPv)
<1>3. /\ c.fn = "qsearch" /\ c.node = Child(node, m) /\ c.depth = 0 /\ c.ply = ply + 1
      /\ c.alpha = -Top.beta /\ c.beta = -Top.alpha
  BY DEF QsearchCall, SearchCall
<1>4. CallFrom(f, c)
  BY <1>1 DEF TakenAs
<1>5. c.alpha \in Int /\ c.beta \in Int /\ c.depth \in Nat
  BY <1>2, <1>3, WindowLine
<1> HIDE DEF c
<1> QED BY <1>1, <1>2, <1>3, <1>4, <1>5, LineMoveCalls

LEMMA LineMoveResearched == ASSUME LInv, Lined, MoveResearched PROVE LInv'
<1> DEFINE f == [Top EXCEPT !.pc = "searched"]
           c == FullWindow(Child(node, Top.move), Top.newDepth)
<1>1. /\ At("probed") /\ CallFrom(f, c) /\ UNCHANGED <<setting, stopSearchFlag>>
      /\ result' = result /\ pv' = pv /\ tt' = tt
  BY DEF MoveResearched
<1>2. /\ IsFrame(Top) /\ LineFrame(Top, pv[ply]) /\ Top.pc = "probed" /\ Top.call.node = node /\ node \in Nodes
      /\ game \in Games /\ ply \in Plies /\ Top.call.ply = ply /\ stack # <<>>
  BY <1>1, LineFacts
<1>3. Top.newDepth \in Nat /\ Top.move \in Legal(node) /\ Child(node, Top.move) \in Nodes /\ Top.call.fn = "search"
  BY <1>2, GameFacts DEF LineFrame
<1>4. Like(Top, f) /\ f.pc = "searched" /\ f.move = Top.move
  BY <1>2, Relabelled
<1>5. /\ c.fn = "search" /\ c.node = Child(node, Top.move) /\ c.depth = Top.newDepth /\ c.ply = ply + 1
      /\ c.alpha = -Top.beta /\ c.beta = -Top.alpha
  BY DEF FullWindow, SearchCall
<1>6. c.alpha \in Int /\ c.beta \in Int
  BY <1>1, <1>5, WindowLine
<1> HIDE DEF f, c
<1>7. LineFrame(f, pv[ply])
  BY <1>2, <1>3, <1>4, StillLooping DEF Looping
<1>8. ply + 1 \in Plies /\ ply <= ply + 1 /\ ply < ply + 1
  BY <1>1, NextPly
<1>9. LineCall(c)
  BY <1>3, <1>5, <1>6, <1>8 DEF LineCall
<1>10. AskedFor(f, c) /\ f.call = Top.call
  BY <1>2, <1>3, <1>4, <1>5 DEF AskedFor, Like
<1>11. Fixed /\ stopSearchFlag' = stopSearchFlag
  BY <1>1, Settled
<1> QED BY <1>1, <1>2, <1>4, <1>5, <1>7, <1>8, <1>9, <1>10, <1>11, LineCalls

LEMMA LineProbeSuffices == ASSUME LInv, Lined, ProbeSuffices PROVE LInv'
<1> DEFINE f == [Top EXCEPT !.pc = "searched"]
<1>1. /\ At("probed") /\ (stopSearchFlag \/ ~Unsure) /\ Goto(f) /\ UNCHANGED <<setting, stopSearchFlag>>
      /\ result' = result /\ pv' = pv /\ tt' = tt
  BY DEF ProbeSuffices
<1>2. /\ IsFrame(Top) /\ LineFrame(Top, pv[ply]) /\ Top.pc = "probed" /\ stack # <<>>
      /\ Top.call.ply = ply /\ Top.call.node = node /\ AnswerHasLine /\ ResultHasLine
  BY <1>1, LineFacts
<1>3. Top.move \in Legal(node) /\ Top.call.fn = "search"
  BY <1>2 DEF LineFrame
<1>4. Like(Top, f) /\ f.pc = "searched" /\ f.move = Top.move
  BY <1>2, Relabelled
<1> HIDE DEF f
<1>5. LineFrame(f, pv[ply])
  BY <1>2, <1>3, <1>4, StillLooping DEF Looping
<1>6. ASSUME ~stopSearchFlag PROVE TakesLine(f, result.call, result.value, pv[ply + 1])
  <2>1. result.call.ply = ply + 1
    BY <1>2, <1>6 DEF AnswerHasLine, TakesLine
  <2>2. ~(Top.alpha < value /\ value < Top.beta)
    <3> DEFINE a == Top.alpha
               b == Top.beta
               v == value
    <3>1. a \in Int /\ b \in Int
      BY <1>1, WindowLine
    <3>2. v \in Int
      BY <1>2 DEF ResultHasLine, value
    <3>3. ~(v > a /\ v < b)
      BY <1>1, <1>6 DEF Unsure
    <3> HIDE DEF a, b, v
    <3>4. ~(a < v /\ v < b)
      BY <3>1, <3>2, <3>3
    <3> QED BY <3>4 DEF a, b, v
  <2> QED BY <1>2, <1>3, <1>4, <2>1, <2>2 DEF TakesLine, Like, value
<1>7. TableHasMoves'
  BY <1>1, LineHeld, Settled
<1>8. f.call = Top.call
  BY <1>4 DEF Like
<1> QED BY <1>1, <1>2, <1>5, <1>6, <1>7, <1>8, LineMoves

LEMMA LineMoveStopped == ASSUME LInv, Lined, MoveStopped PROVE LInv'
BY LineStop DEF MoveStopped, Interrupted

(* The value of a move, and the line that comes with it. *)
LEMMA ValueLine ==
  ASSUME LInv, Lined, At("searched"), ~stopSearchFlag
  PROVE  /\ value \in Int /\ result.call.ply = ply + 1
         /\ Top.move \in Legal(node)
         /\ Top.alpha < value /\ value < Top.beta => Line(Child(node, Top.move), pv[ply + 1])
         /\ Top.call.fn = "qsearch" /\ On("MDP") => Within(value, ply)
<1>1. /\ LineFrame(Top, pv[ply]) /\ Top.pc = "searched" /\ stack # <<>>
      /\ Top.call.ply = ply /\ Top.call.node = node /\ AnswerHasLine /\ ResultHasLine
  BY LineFacts
<1>2. TakesLine(Top, result.call, result.value, pv[ply + 1])
  BY <1>1 DEF AnswerHasLine
<1>3. value \in Int
  BY <1>1 DEF ResultHasLine, value
<1> QED BY <1>1, <1>2, <1>3 DEF TakesLine, LineFrame, value

LEMMA AfterMoveLine ==
  ASSUME LInv, Lined, At("searched"), ~stopSearchFlag,
         NEW f, f.call = Top.call, f.beta = Top.beta, f.staticEval = Top.staticEval,
         f.movesSearched = Top.movesSearched + 1, f.pc \in {"moves", "end"},
         f.alpha = Top.alpha \/ (f.alpha = value /\ Top.alpha < value /\ value < Top.beta),
         f.bestNodeValue = value \/ (f.bestNodeValue = Top.bestNodeValue /\ value <= Top.bestNodeValue)
  PROVE  PastEntry(f) /\ LeafBest(f)
<1>1. /\ PastEntry(Top) /\ LeafBest(Top) /\ Top.pc = "searched" /\ Top.call.ply = ply
      /\ LineFrame(Top, pv[ply])
  BY LineFacts
<1>2. ply \in Nat
  BY LineFacts, DepthFacts DEF Plies
<1>3. value \in Int /\ (Top.call.fn = "qsearch" /\ On("MDP") => Within(value, ply))
  BY ValueLine
<1> DEFINE a == Top.alpha
           b == Top.beta
           n == Top.bestNodeValue
           v == value
           p == ply
<1>4. a \in Int /\ b \in Int /\ n \in Int /\ (On("MDP") => Inside(a, b, p))
  BY <1>1 DEF PastEntry
<1>5. PastEntry(f)
  <2> DEFINE x == f.alpha
             y == f.bestNodeValue
  <2>1. x = a \/ (x = v /\ a < v /\ v < b)
    OBVIOUS
  <2>2. y = v \/ y = n
    OBVIOUS
  <2> HIDE DEF a, b, n, v, p, x, y
  <2>3. x \in Int /\ y \in Int
    BY <1>3, <1>4, <2>1, <2>2 DEF v
  <2>4. On("MDP") => Inside(x, b, p)
    <3> DEFINE lo == -VALUE_CHECKMATE + p
    <3>1. lo \in Int
      BY <1>2, ValueFacts DEF p
    <3>2. On("MDP") => lo <= a /\ a < b /\ b <= VALUE_CHECKMATE - p
      BY <1>4 DEF Inside
    <3> HIDE DEF lo
    <3>3. On("MDP") => lo <= x /\ x < b /\ b <= VALUE_CHECKMATE - p
      BY <1>3, <1>4, <2>1, <3>1, <3>2 DEF v
    <3> QED BY <3>3 DEF Inside, lo
  <2> QED BY <1>1, <1>4, <2>3, <2>4 DEF PastEntry, a, b, n, v, p, x, y
<1>6. LeafBest(f)
  <2> SUFFICES ASSUME On("MDP"), Top.call.fn = "qsearch"
               PROVE  /\ Within(f.bestNodeValue, ply) /\ f.bestNodeValue # VALUE_NONE
                      /\ Top.movesSearched + 1 \in Nat
    BY <1>1 DEF LeafBest
  <2>1. Top.movesSearched \in Nat /\ (n = VALUE_NONE \/ Within(n, p))
    BY <1>1 DEF LeafBest, Looping
  <2>2. Within(v, p)
    BY <1>3
  <2>3. f.bestNodeValue = v \/ (f.bestNodeValue = n /\ v <= n)
    OBVIOUS
  <2> DEFINE y == f.bestNodeValue
  <2>4. v \in Int /\ p \in Nat /\ n \in Int
    BY <1>2, <1>3, <1>4
  <2> HIDE DEF n, v, p, y
  <2>5. Within(v, p) => v # VALUE_NONE /\ ~(v <= VALUE_NONE)
    BY <2>4, ValueFacts DEF Within
  <2>6. Within(y, p) /\ y # VALUE_NONE
    <3>1. CASE y = v
      BY <2>2, <2>5, <3>1
    <3>2. CASE y = n /\ v <= n
      <4>1. n # VALUE_NONE
        BY <2>2, <2>5, <3>2
      <4>2. Within(n, p)
        BY <2>1, <4>1
      <4> QED BY <3>2, <4>1, <4>2
    <3> QED BY <2>3, <3>1, <3>2 DEF y
  <2> QED BY <2>1, <2>6 DEF p, y
<1> QED BY <1>5, <1>6

(* The frames after a move. *)
LEMMA UndoneFields ==
  ASSUME IsFrame(Top)
  PROVE  /\ IsFrame(Undone) /\ Undone.call = Top.call /\ Undone.pc = "moves" /\ Undone.alpha = Top.alpha
         /\ Undone.beta = Top.beta /\ Undone.staticEval = Top.staticEval
         /\ Undone.movesSearched = Top.movesSearched + 1 /\ Undone.bestNodeValue = Top.bestNodeValue
         /\ Undone.bestNodeMove = Top.bestNodeMove
BY DEF Undone, IsFrame, Fields

LEMMA BetterFields ==
  ASSUME IsFrame(Top)
  PROVE  /\ IsFrame(Better) /\ Better.call = Top.call /\ Better.pc = "moves" /\ Better.alpha = Top.alpha
         /\ Better.beta = Top.beta /\ Better.staticEval = Top.staticEval
         /\ Better.movesSearched = Top.movesSearched + 1 /\ Better.bestNodeValue = value
         /\ Better.bestNodeMove = Top.move
BY UndoneFields DEF Better, IsFrame, Fields

LEMMA LineMoveNoBetter == ASSUME LInv, Lined, MoveNoBetter PROVE LInv'
<1>1. /\ At("searched") /\ ~stopSearchFlag /\ value <= Top.bestNodeValue /\ Goto(Undone)
      /\ UNCHANGED <<setting, stopSearchFlag>> /\ result' = result /\ pv' = pv /\ tt' = tt
  BY DEF MoveNoBetter, Interrupted
<1>2. IsFrame(Top) /\ LineFrame(Top, pv[ply]) /\ Top.call.node = node
  BY <1>1, LineFacts
<1>3. /\ IsFrame(Undone) /\ Undone.call = Top.call /\ Undone.pc = "moves" /\ Undone.alpha = Top.alpha
      /\ Undone.beta = Top.beta /\ Undone.staticEval = Top.staticEval
      /\ Undone.movesSearched = Top.movesSearched + 1 /\ Undone.bestNodeValue = Top.bestNodeValue
      /\ Undone.bestNodeMove = Top.bestNodeMove
  BY <1>2, UndoneFields
<1>4. PastEntry(Undone) /\ LeafBest(Undone)
  BY <1>1, <1>3, AfterMoveLine
<1>5. Undone.bestNodeMove \in MovesOf(node)
  BY <1>2, <1>3 DEF LineFrame
<1> QED BY <1>1, <1>3, <1>4, <1>5, LineLoops DEF Looping

LEMMA LineMoveBest == ASSUME LInv, Lined, MoveBest PROVE LInv'
<1>1. /\ At("searched") /\ ~stopSearchFlag /\ Goto(Better)
      /\ UNCHANGED <<setting, stopSearchFlag>> /\ result' = result /\ pv' = pv /\ tt' = tt
  BY DEF MoveBest, Interrupted
<1>2. IsFrame(Top)
  BY <1>1, LineFacts
<1>3. /\ IsFrame(Better) /\ Better.call = Top.call /\ Better.pc = "moves" /\ Better.alpha = Top.alpha
      /\ Better.beta = Top.beta /\ Better.staticEval = Top.staticEval
      /\ Better.movesSearched = Top.movesSearched + 1 /\ Better.bestNodeValue = value
      /\ Better.bestNodeMove = Top.move
  BY <1>2, BetterFields
<1>4. PastEntry(Better) /\ LeafBest(Better)
  BY <1>1, <1>3, AfterMoveLine
<1>5. Better.bestNodeMove \in MovesOf(node)
  BY <1>1, <1>3, ValueLine DEF MovesOf
<1> QED BY <1>1, <1>3, <1>4, <1>5, LineLoops DEF Looping

LEMMA LineBetaCut == ASSUME LInv, Lined, BetaCut PROVE LInv'
<1> DEFINE g == Better
           f == [g EXCEPT !.pc = "end", !.ttType = "BETA"]
<1>1. /\ At("searched") /\ ~stopSearchFlag /\ Goto(f)
      /\ UNCHANGED <<setting, stopSearchFlag>> /\ result' = result /\ pv' = pv /\ tt' = tt
  BY DEF BetaCut, Interrupted
<1>2. IsFrame(Top)
  BY <1>1, LineFacts
<1>3. /\ IsFrame(g) /\ g.call = Top.call /\ g.alpha = Top.alpha
      /\ g.beta = Top.beta /\ g.staticEval = Top.staticEval
      /\ g.movesSearched = Top.movesSearched + 1 /\ g.bestNodeValue = value
      /\ g.bestNodeMove = Top.move
  BY <1>2, BetterFields
<1> HIDE DEF g
<1>4. /\ IsFrame(f) /\ f.call = Top.call /\ f.pc = "end" /\ f.alpha = Top.alpha
      /\ f.beta = Top.beta /\ f.staticEval = Top.staticEval
      /\ f.movesSearched = Top.movesSearched + 1 /\ f.bestNodeValue = value
      /\ f.bestNodeMove = Top.move
  BY <1>3 DEF IsFrame, Fields
<1> HIDE DEF f
<1>5. PastEntry(f) /\ LeafBest(f)
  BY <1>1, <1>4, AfterMoveLine
<1>6. f.bestNodeMove \in MovesOf(node)
  BY <1>1, <1>4, ValueLine DEF MovesOf
<1> QED BY <1>1, <1>4, <1>5, <1>6, LineLoops DEF Looping

(* savePV puts the move before the line of the position after it. *)
LEMMA LineMoveRaisesAlpha == ASSUME LInv, Lined, MoveRaisesAlpha PROVE LInv'
<1> DEFINE g == Better
           f == [g EXCEPT !.alpha = value, !.ttType = "EXACT"]
           line == <<Top.move>> \o pv[ply + 1]
<1>1. /\ At("searched") /\ ~stopSearchFlag /\ value > Top.alpha /\ ~(value >= Top.beta) /\ Goto(f)
      /\ UNCHANGED <<setting, stopSearchFlag>> /\ result' = result /\ pv' = [pv EXCEPT ![ply] = line] /\ tt' = tt
  BY DEF MoveRaisesAlpha, Interrupted, Cuts, Lined
<1>2. /\ IsFrame(Top) /\ LineFrame(Top, pv[ply]) /\ Top.call.ply = ply /\ Top.call.node = node /\ stack # <<>>
      /\ PvTyped /\ ply \in Plies /\ node \in Nodes /\ LineCall(Top.call)
  BY <1>1, LineFacts
<1>3. /\ IsFrame(g) /\ g.call = Top.call /\ g.pc = "moves"
      /\ g.beta = Top.beta /\ g.staticEval = Top.staticEval
      /\ g.movesSearched = Top.movesSearched + 1 /\ g.bestNodeValue = value
      /\ g.bestNodeMove = Top.move
  BY <1>2, BetterFields
<1> HIDE DEF g
<1>4. /\ IsFrame(f) /\ f.call = Top.call /\ f.pc = "moves" /\ f.alpha = value
      /\ f.beta = Top.beta /\ f.staticEval = Top.staticEval
      /\ f.movesSearched = Top.movesSearched + 1 /\ f.bestNodeValue = value
      /\ f.bestNodeMove = Top.move
  BY <1>3 DEF IsFrame, Fields
<1> HIDE DEF f
<1>5. Top.alpha < value /\ value < Top.beta
  <2> DEFINE a == Top.alpha
             b == Top.beta
             v == value
  <2>1. a \in Int /\ b \in Int /\ v \in Int /\ v > a /\ ~(v >= b)
    BY <1>1, WindowLine, ValueLine
  <2> HIDE DEF a, b, v
  <2>2. a < v /\ v < b
    BY <2>1
  <2> QED BY <2>2 DEF a, b, v
<1>6. PastEntry(f) /\ LeafBest(f)
  BY <1>1, <1>4, <1>5, AfterMoveLine
<1>7. f.bestNodeMove \in MovesOf(node) /\ Top.move \in Legal(node) /\ result.call.ply = ply + 1
      /\ Line(Child(node, Top.move), pv[ply + 1])
  BY <1>1, <1>4, <1>5, ValueLine DEF MovesOf
<1>8. Line(node, line)
  BY <1>2, <1>7, LongerLine
<1> HIDE DEF line
<1>9. Fixed /\ stopSearchFlag' = stopSearchFlag
  BY <1>1, Settled
<1>10. line \in Seq(AllMoves) /\ ply # MAX_DEPTH
  BY <1>1, <1>8, NextPly DEF Line
<1>11. PvTyped' /\ pv'[ply] = line /\ \A q \in Plies : q # ply => pv'[q] = pv[q]
  BY <1>1, <1>2, <1>9, <1>10, PvWritten
<1>12. LineFrame(f, pv'[ply])
  BY <1>2, <1>4, <1>6, <1>7, <1>8, <1>11 DEF LineFrame, Looping
<1>13. ply + 1 # ply
  BY <1>2, DepthFacts DEF Plies
<1>14. ResultHasLine'
  BY <1>1, <1>7, <1>9, <1>11, <1>13, AnswerKept
<1>15. TakesLine(f, result'.call, result'.value, pv'[ply + 1])
  BY <1>4 DEF TakesLine
<1>16. TableHasMoves'
  BY <1>1, <1>9, LineHeld
<1> QED BY <1>1, <1>2, <1>4, <1>9, <1>10, <1>11, <1>12, <1>14, <1>15, <1>16, LineGoes

(* A node that leaves its loop keeps the line it has. *)
LEMMA EndedLine ==
  ASSUME LInv, Lined, At("end"), NEW f, f = Ended(Top)
  PROVE  /\ f.bestNodeValue \in Int /\ f.bestNodeMove \in MovesOf(node) /\ StaticOK(node, f.staticEval)
         /\ ~stopSearchFlag => LeafValue(Top.call, f.bestNodeValue)
<1> DEFINE t == Top
<1>1. /\ IsFrame(t) /\ PastEntry(t) /\ LeafBest(t) /\ LineCall(t.call) /\ LineFrame(t, pv[ply])
      /\ t.call.ply = ply /\ t.call.node = node /\ t.pc = "end" /\ ply \in Plies
  BY LineFacts
<1>2. f = Ended(t)
  OBVIOUS
<1> HIDE DEF t
<1>3. /\ t.bestNodeValue \in Int /\ t.bestNodeMove \in MovesOf(node) /\ StaticOK(node, t.staticEval)
      /\ ply \in Nat /\ ply <= MAX_DEPTH /\ VALUE_CHECKMATE \in Nat /\ VALUE_DRAW = 0
      /\ MAX_DEPTH < 4000 /\ VALUE_CHECKMATE > 4000 + MAX_DEPTH
  BY <1>1, DepthFacts, ValueFacts DEF PastEntry, LineFrame, Plies, VALUE_CHECKMATE, VALUE_MAX
<1>4. /\ f.bestNodeMove = t.bestNodeMove
      /\ \/ f.bestNodeValue = t.bestNodeValue /\ f.staticEval = t.staticEval
            /\ (t.movesSearched > 0 \/ stopSearchFlag \/ ~HasCheck(node))
         \/ HasCheck(node) /\ f.bestNodeValue = -VALUE_CHECKMATE + ply
         \/ t.call.fn = "search" /\ f.bestNodeValue = VALUE_DRAW /\ f.staticEval = VALUE_DRAW
  BY <1>1, <1>2 DEF Ended, IsFrame, Fields
<1>5. f.bestNodeValue \in Int /\ StaticOK(node, f.staticEval)
  BY <1>3, <1>4 DEF StaticOK
<1>6. ASSUME ~stopSearchFlag, On("MDP"), t.call.fn = "qsearch"
      PROVE  -VALUE_CHECKMATE + ply <= f.bestNodeValue /\ f.bestNodeValue < VALUE_CHECKMATE - ply
  <2>1. CASE HasCheck(node) /\ f.bestNodeValue = -VALUE_CHECKMATE + ply
    <3> DEFINE p == ply
               M == VALUE_CHECKMATE
    <3>1. p \in Nat /\ p <= MAX_DEPTH /\ M \in Nat /\ MAX_DEPTH \in Nat /\ M > 4000 + MAX_DEPTH /\ MAX_DEPTH < 4000
          /\ f.bestNodeValue = -M + p
      BY <1>3, <2>1, DepthFacts
    <3> HIDE DEF p, M
    <3>2. -M + p <= f.bestNodeValue /\ f.bestNodeValue < M - p
      BY <3>1
    <3> QED BY <3>2 DEF p, M
  <2>2. CASE f.bestNodeValue = t.bestNodeValue /\ (t.movesSearched > 0 \/ stopSearchFlag \/ ~HasCheck(node))
    BY <1>1, <1>6, <2>2 DEF LeafBest, Looping, Within
  <2> QED BY <1>4, <1>6, <2>1, <2>2
<1> QED BY <1>1, <1>3, <1>4, <1>5, <1>6 DEF LeafValue, t

LEMMA LineLeave == ASSUME LInv, Lined, Leave PROVE LInv'
<1> DEFINE f == Ended(Top)
           d == IF In("search") THEN depth ELSE 1
           v == f.bestNodeValue
           m == f.bestNodeMove
           ty == f.ttType
           e == f.staticEval
<1>1. /\ At("end") /\ Return(v) /\ UNCHANGED <<setting, stopSearchFlag>> /\ pv' = pv
      /\ storeTt(d, m, v, ty, e) \/ tt' = tt
  BY DEF Leave
<1>2. /\ v \in Int /\ m \in MovesOf(node) /\ StaticOK(node, e)
      /\ ~stopSearchFlag => LeafValue(Top.call, v)
  BY <1>1, EndedLine
<1>3. stack # <<>> /\ LineFrame(Top, pv[ply]) /\ Top.pc = "end" /\ Top.call.node = node
  BY <1>1, LineFacts
<1> HIDE DEF f, d, v, m, ty, e
<1>4. HasLine(Top.call, v, pv[ply])
  BY <1>3 DEF HasLine, LineFrame, Looping
<1>5. Fixed
  BY <1>1, Settled
<1>6. TableHasMoves'
  BY <1>1, <1>2, <1>3, <1>5, LineHeld, LineStored
<1> QED BY <1>1, <1>2, <1>4, <1>6, LineBack

LEMMA LineSearchStep == ASSUME LInv, Lined, SearchStep PROVE LInv'
<1>1. ASSUME EnterStopped PROVE LInv'
  BY <1>1, LineStop DEF EnterStopped
<1>2. ASSUME Enter PROVE LInv'
  BY <1>1, <1>2, LineEnterQuiescence, LineEvaluateOnly, LineMateDistanceCut, LineTtCut,
     LineEnterSearch, LineStandPatCut, LineEnterQsearch DEF Enter
<1>3. ASSUME BeforeMoves PROVE LInv'
  BY <1>3, LineRazor, LineReverseFutilityCut, LineNullMove, LineNoNullMove, LineNullMoveCut,
     LineNullMoveFailed, LineIid, LineReductionStopped, LineStartMoves, LineStartMovesAfterIid
  DEF BeforeMoves
<1>4. ASSUME MoveLoop PROVE LInv'
  BY <1>4, LineSkipMove, LineMoveToDraw, LineMoveSearched, LineMoveProbed, LineMoveQsearched,
     LineMoveResearched, LineProbeSuffices, LineMoveStopped, LineMoveNoBetter, LineMoveBest,
     LineMoveRaisesAlpha, LineBetaCut, LineNoMoreMoves, LineLeave
  DEF MoveLoop
<1> QED BY <1>2, <1>3, <1>4 DEF SearchStep

-----------------------------------------------------------------------------
(***************************************************************************)
(* The caller, the other threads, and all steps together.                  *)
(***************************************************************************)
LEMMA NoLines ==
  ASSUME NEW p, p = [q \in Plies |-> <<>>]
  PROVE  p \in [Plies -> Seq(AllMoves)] /\ p[MAX_DEPTH] = <<>>
<1>1. MAX_DEPTH \in Plies
  BY DepthFacts DEF Plies
<1>2. <<>> \in Seq(AllMoves)
  OBVIOUS
<1> QED BY <1>1, <1>2

LEMMA NothingAnswered == ASSUME game \in Games, result = NoResult PROVE ResultHasLine
<1>1. result.value = VALUE_NONE /\ result.call.node = 0
  BY DEF NoResult, SearchCall
<1> QED BY <1>1, GameFacts, ValueFacts DEF ResultHasLine

LEMMA LineInit == ASSUME Init PROVE LInv
<1>1. stack = <<>> /\ Len(stack) = 0 /\ IsStack(stack)
  BY EmptySeq DEF Init, IsStack
<1>2. LinesOK /\ InOrder /\ AnswerHasLine
  BY <1>1 DEF LinesOK, InOrder, AnswerHasLine
<1>3. PvTyped
  BY NoLines DEF Init, PvTyped
<1>4. game \in Games /\ ResultHasLine
  BY NothingAnswered DEF Init
<1>5. TableHasMoves
  <2>1. \A n \in Nodes : tt[n] = NoEntry /\ LineEntry(n, NoEntry)
    BY ValueFacts DEF Init, LineEntry, NoEntry, MovesOf
  <2> QED BY <2>1 DEF TableHasMoves, Init
<1> QED BY <1>1, <1>2, <1>3, <1>4, <1>5 DEF LInv

LEMMA LineRootCall == ASSUME LInv, Lined, RootCall PROVE LInv'
<1>1. PICK r \in game.roots : stack' = <<Frame(SearchCall(r.node, r.depth, 1, r.alpha, r.beta, r.isPv, TRUE))>>
  BY DEF RootCall
<1>2. UNCHANGED <<game, features>> /\ stopSearchFlag' = stopSearchFlag /\ result' = result /\ tt' = tt /\ pv' = pv
  BY DEF RootCall
<1> DEFINE c == SearchCall(r.node, r.depth, 1, r.alpha, r.beta, r.isPv, TRUE)
           g == Frame(c)
<1>3. LineCall(c)
  <2>1. IsRoot(r, game)
    BY GameFacts DEF LInv
  <2>2. 1 \in Plies
    BY DepthFacts DEF Plies
  <2>3. /\ c.fn = "search" /\ c.node = r.node /\ c.depth = r.depth /\ c.ply = 1
        /\ c.alpha = r.alpha /\ c.beta = r.beta
    BY DEF SearchCall
  <2> HIDE DEF c
  <2>4. r.alpha \in Int /\ r.beta \in Int /\ r.node \in Nodes /\ r.depth \in Nat
    BY <2>1, ValueFacts, DepthFacts DEF IsRoot, Nodes
  <2> QED BY <2>2, <2>3, <2>4 DEF LineCall
<1> HIDE DEF c
<1>4. g.pc = "enter" /\ \A line : LineFrame(g, line)
  BY <1>3, FreshLine
<1>5. stack' = <<g>>
  BY <1>1 DEF c
<1>6. Fixed
  BY <1>2 DEF Fixed
<1> HIDE DEF g
<1>7. Len(stack') = 1 /\ stack'[1] = g /\ IsStack(stack') /\ stack' # <<>>
  <2> DEFINE S == {g}
  <2>1. <<g>> \in Seq(S)
    OBVIOUS
  <2> HIDE DEF S
  <2>2. IsStack(<<g>>)
    BY <2>1, OwnElements
  <2> QED BY <1>5, <2>2
<1>8. LinesOK'
  <2>1. \A line : LineFrame(g, line)'
    BY <1>4, <1>6, LinesFixed
  <2> QED BY <1>7, <2>1 DEF LinesOK
<1>9. InOrder'
  BY <1>7 DEF InOrder
<1>10. AnswerHasLine'
  <2>1. Top' = g
    BY <1>7 DEF Top
  <2> QED BY <1>4, <2>1 DEF AnswerHasLine, TakesLine
<1>11. PvTyped' /\ TableHasMoves'
  BY <1>2, <1>6, LineHeld
<1>12. ResultHasLine'
  BY <1>2, <1>6, AnswerKept
<1> QED BY <1>2, <1>7, <1>8, <1>9, <1>10, <1>11, <1>12 DEF LInv, IsStack

(* Nothing but the flag, which only rises, and the counters. *)
LEMMA LineUntouched ==
  ASSUME LInv, Lined, UNCHANGED <<game, features>>, stopSearchFlag' = stopSearchFlag \/ stopSearchFlag' = TRUE,
         stack' = stack, result' = result, tt' = tt, pv' = pv
  PROVE  LInv'
<1>1. Fixed
  BY DEF Fixed
<1>2. PvTyped' /\ TableHasMoves'
  BY <1>1, LineHeld
<1>3. LinesOK /\ InOrder /\ AnswerHasLine /\ ResultHasLine /\ IsStack(stack)
  BY DEF LInv
<1>4. LinesOK'
  BY <1>1, <1>3, LinesFixed DEF LinesOK
<1>5. InOrder'
  BY <1>1, <1>3, LinesFixed DEF InOrder, Awaits, Looping
<1>6. AnswerHasLine'
  BY <1>1, <1>3, LinesFixed DEF AnswerHasLine, Top
<1>7. ResultHasLine'
  BY <1>1, <1>3, LinesFixed DEF ResultHasLine, Plies
<1> QED BY <1>2, <1>3, <1>4, <1>5, <1>6, <1>7 DEF LInv, IsStack

(* A new search keeps the table. *)
LEMMA LineNextSearch == ASSUME LInv, Lined, NextSearch PROVE LInv'
<1>1. /\ UNCHANGED <<game, features>> /\ stack = <<>> /\ stack' = <<>> /\ tt' = tt /\ result' = NoResult
      /\ pv' = [p \in Plies |-> <<>>]
  BY DEF NextSearch
<1>2. Fixed /\ game' \in Games
  BY <1>1 DEF Fixed, LInv
<1>3. Len(stack') = 0 /\ IsStack(stack')
  BY <1>1, EmptySeq DEF IsStack
<1>4. (LinesOK /\ InOrder /\ AnswerHasLine)'
  BY <1>1, <1>3 DEF LinesOK, InOrder, AnswerHasLine
<1>5. PvTyped'
  BY <1>1, <1>2, LinesFixed, NoLines DEF PvTyped, Plies
<1>6. TableHasMoves'
  BY <1>1, <1>2, LineHeld
<1>7. ResultHasLine'
  <2>1. result'.value = VALUE_NONE /\ result'.call.node = 0
    BY <1>1 DEF NoResult, SearchCall
  <2>2. 0 \notin Nodes
    BY GameFacts DEF LInv
  <2> QED BY <1>2, <2>1, <2>2, LinesFixed, ValueFacts DEF ResultHasLine
<1> QED BY <1>2, <1>3, <1>4, <1>5, <1>6, <1>7 DEF LInv, IsStack

LEMMA LineNext == ASSUME LInv, [Next]_vars PROVE LInv'
<1>1. UNCHANGED <<game, features>>
  BY SettingSame DEF Next, Idle, NextSearch, vars
<1>2. CASE ~Lined
  BY <1>1, <1>2 DEF LInv, Lined, On
<1>3. CASE Lined
  <2>1. CASE SearchStep
    BY <1>3, <2>1, LineSearchStep
  <2>2. CASE RootCall
    BY <1>3, <2>2, LineRootCall
  <2>3. CASE NextSearch
    BY <1>3, <2>3, LineNextSearch
  <2>4. CASE RaiseStop
    BY <1>1, <1>3, <2>4, LineUntouched DEF RaiseStop
  <2>5. CASE UNCHANGED vars
    BY <1>1, <1>3, <2>5, LineUntouched DEF vars
  <2> QED BY <2>1, <2>2, <2>3, <2>4, <2>5 DEF Next, Idle
<1> QED BY <1>2, <1>3

(* What the invariant says of the property.                                *)
LEMMA LineIsPv == ASSUME LInv, On("ALPHABETA") PROVE PvPlayable
<1> DEFINE c == result.call
<1> SUFFICES ASSUME Returned, "QS_TT" \notin features, game.drawn = {}, "QUIESCENCE" \in features,
                    c.alpha < result.value, result.value < c.beta
             PROVE  Playable(c.node, pv[c.ply])
  BY DEF PvPlayable
<1>1. Lined
  BY DEF Lined, On
<1>2. game \in Games /\ ResultHasLine
  BY <1>1 DEF LInv
<1>3. c.node \in Nodes /\ HasLine(c, result.value, pv[c.ply])
  BY <1>2 DEF ResultHasLine, Returned
<1>4. Line(c.node, pv[c.ply])
  BY <1>3 DEF HasLine
<1> QED BY <1>2, <1>3, <1>4, LineIsPlayable

(* search(), savePV: the line of a node whose value lies in its window can *)
(* be played from it, although one array serves all nodes of a ply: for    *)
(* every game, every order of the moves, any number of searches with the   *)
(* table kept, any stop and every selection of switches that cuts at beta. *)
THEOREM LinesPlayable == Spec => [](On("ALPHABETA") => PvPlayable)
<1>1. Init => LInv
  BY LineInit
<1>2. LInv /\ [Next]_vars => LInv'
  BY LineNext
<1>3. LInv => (On("ALPHABETA") => PvPlayable)
  BY LineIsPv
<1> QED BY <1>1, <1>2, <1>3, PTL DEF Spec
=============================================================================
