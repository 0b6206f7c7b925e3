---------------------------- MODULE MCSearchNode ----------------------------
(* Instances of SearchNode for TLC: small games and settings. *)
EXTENDS SearchNode, TLC

Root(n, d, a, b, pvNode) == [node |-> n, depth |-> d, alpha |-> a, beta |-> b, isPv |-> pvNode]

Game(to, data) ==
  data @@ [to |-> to, illegal |-> [n \in DOMAIN to |-> {}],
           captures |-> [n \in DOMAIN to |-> {}], good |-> [n \in DOMAIN to |-> {}],
           check |-> {}, drawn |-> {}, eval |-> [n \in DOMAIN to |-> 0], gain |-> 100,
           pass |-> <<>>, middleGame |-> FALSE, calls |-> 1, searches |-> 0,
           roots |-> {Root(1, 2, -10000, 10000, TRUE)}]

None == <<>>
Only(n) == "a" :> n
Two(n, m) == "a" :> n @@ "b" :> m

(* Two plies and a transposition: 5 is reached through 2 and 3. *)
Diamond(e) ==
  Game(<<Two(2, 3), Two(4, 5), Two(5, 6), None, None, None>>,
       [eval |-> <<0, 10, 20>> \o e,
        roots |-> {Root(1, d, a, a + 1, FALSE) : d \in 1 .. 2, a \in {-50, 50}}
                  \cup {Root(1, d, -10000, 10000, TRUE) : d \in 1 .. 2},
        calls |-> 2])

Diamonds == {Diamond(<<x, y, 60>>) : x, y \in {-60, 60}}

(* Position 4 is mate in one, met two and four plies from the root. *)
Mates ==
  Game(<<Two(2, 3), Only(4), Only(7), Two(6, 9), None, None, Only(8), Only(4), None>>,
       [eval |-> <<0, 0, 0, 0, 0, 0, 0, 0, 40>>, check |-> {6},
        illegal |-> [n \in 1 .. 9 |-> IF n = 6 THEN {"c"} ELSE {}],
        roots |-> {Root(1, 6, -10000, 10000, TRUE), Root(1, 6, 9990, 9991, FALSE),
                   Root(1, 6, 9994, 9995, FALSE)},
        calls |-> 2])

(* Captures, one of them bad, a capture with check and its evasions, a mate *)
(* and a stalemate at the horizon.                                          *)
Captures(e) ==
  Game(<<Two(2, 3), Two(4, 5) @@ "c" :> 8, Two(9, 10), Only(6), None, Only(7), None, None, None, None>>,
       [eval |-> <<0, e, 30, -e, 300, 70, 20, 0, 5, 0>>, check |-> {6, 9},
        captures |-> [n \in 1 .. 10 |-> IF n \in {2, 4} THEN {"a", "b"} ELSE {}],
        good |-> [n \in 1 .. 10 |-> IF n \in {2, 4} THEN {"a"} ELSE {}],
        roots |-> {Root(1, d, -10000, 10000, TRUE) : d \in 1 .. 2}, calls |-> 2])

(* Null moves: if 2 passes it wins, for 7 has to run into a mate; if 3      *)
(* passes it is mated in 12.                                                *)
Passes(e) ==
  Game(<<Two(2, 3), Two(4, 5), Two(5, 6), Only(8), Only(8), None, Only(10), None, None,
         Only(9), Only(12), None>>,
       [eval |-> <<0, e, 30, -e, 20, 70, 20, 0, 0, 0, 0, 0>>, check |-> {9, 10, 12},
        pass |-> 2 :> 7 @@ 3 :> 11, drawn |-> {8},
        roots |-> {Root(1, 3, -10000, 10000, TRUE), Root(1, 5, 0, 1, FALSE)}, calls |-> 2])

(* A second search finds the table of the first one. *)
Again ==
  [Diamond(<<60, -60, 60>>) EXCEPT
     !.searches = 1, !.roots = {Root(1, 2, -10000, 10000, TRUE), Root(1, 2, 50, 51, FALSE)}]

UsualGames ==
  Diamonds \cup {Again, Mates}
  \cup {Captures(e) : e \in {-200, 50}} \cup {Passes(e) : e \in {-600, 0, 600}}

Plain == {"ALPHABETA", "QUIESCENCE", "STANDPAT"}
WithTable == Plain \cup {"PVS", "MDP", "TT", "TT_VALUE", "EVAL_TT", "TT_PV_MOVE_SORT", "KILLER", "IID"}
Reducing == WithTable \cup {"RAZORING", "RFP", "NMP", "FP", "QFP", "LMR", "EXTENSIONS",
                            "CHECK_EXT", "EXT_ADD_DEPTH"}
Default == Reducing \cup {"QS_TT", "LMP"}
LostDiamond == {[Diamond(<<60, 60, 60>>) EXCEPT !.eval[1] = -300]}
Futility == {WithTable \cup {"FP"}}
UsualFeatures == {Plain \ {"QUIESCENCE"}, WithTable, Reducing, Default}

Rfp == <<200, 400, 800>>
Fp == <<100, 200, 300, 500, 900, 1200>>
Lmp == [d \in 1 .. 15 |-> 2]
=============================================================================
