----------------------- MODULE MCIterativeDeepening -----------------------
(* Games of three root moves, whose values rise and fall from one depth to *)
(* the next, for IterativeDeepening.                                       *)
EXTENDS IterativeDeepening, TLC

NoClock == [timeControl |-> FALSE, moveTime |-> 0, time |-> 0, inc |-> 0, movesToGo |-> 0, phase |-> 0]
PerMove(ms) == [NoClock EXCEPT !.timeControl = TRUE, !.moveTime = ms]
Remaining(ms, n) == [NoClock EXCEPT !.timeControl = TRUE, !.time = ms, !.movesToGo = n]

Worth(x, y, z) == "a" :> x @@ "b" :> y @@ "c" :> z

Game(data) ==
  data @@ [moves |-> <<"a", "b", "c">>, drawn |-> {}, final |-> {}, draw |-> FALSE, check |-> FALSE,
           book |-> FALSE, depth |-> 0, mate |-> 0, clock |-> NoClock,
           truth |-> [d \in 1 .. DEPTH_MAX |-> Worth(0, 0, 0)]]

(* The best move falls, three times; another one rises above both windows. *)
Falling(clock) ==
  Game([clock |-> clock,
        truth |-> <<Worth(20, 10, 30), Worth(40, 40, 30), Worth(45, 50, 60),
                    Worth(-200, -190, -210), Worth(-500, -520, -500), Worth(-900, -890, -880)>>])
Rising ==
  Game([truth |-> <<Worth(0, 10, 20), Worth(10, 0, 20), Worth(20, 10, 30),
                    Worth(300, 90, 10), Worth(310, 900, 400), Worth(910, 890, 880)>>])

(* Another move rises as much as the second window allows, or loses more. *)
Crossing ==
  Game([depth |-> 4, truth |-> <<Worth(10, 0, -10), Worth(0, 10, 20), Worth(-30, 30, 0),
                                 Worth(230, -20, 60), Worth(0, 0, 0), Worth(0, 0, 0)>>])

(* Only a draw by repetition saves the game. *)
Repeating ==
  Game([drawn |-> {"b"}, final |-> {"a"}, depth |-> 4,
        truth |-> <<Worth(-100, 0, 50), Worth(-300, 0, -50), Worth(-300, 0, -350),
                    Worth(-400, 0, -350), Worth(0, 0, 0), Worth(0, 0, 0)>>])

(* A mate in two that the limits ask for, and being mated. *)
Mating ==
  Game([mate |-> 2, final |-> {"c"},
        truth |-> <<Worth(100, 0, 100), Worth(100, 200, 300), Worth(9997, 100, 200),
                    Worth(9997, 100, 9995), Worth(9997, 0, 0), Worth(9997, 0, 0)>>])
Mated ==
  Game([truth |-> [d \in 1 .. DEPTH_MAX |-> IF d < 4 THEN Worth(-100, -50, -20)
                                            ELSE Worth(-9998, -9996, -9998)]])

NoSearchNeeded ==
  {Game([draw |-> TRUE]), Game([moves |-> <<>>]), Game([moves |-> <<>>, check |-> TRUE]),
   Game([moves |-> <<"a">>])}

InBook == {Game([book |-> TRUE, clock |-> Remaining(1000, 3)]), Game([book |-> TRUE])}

UsualGames ==
  {Falling(c) : c \in {NoClock, PerMove(30), PerMove(10), Remaining(1000, 3), Remaining(150, 3),
                       [Remaining(900, 0) EXCEPT !.inc = 5, !.phase = 12]}}
  \cup {Rising, Crossing, Repeating, Mating, Mated}
  \cup NoSearchNeeded \cup InBook

OneGame == {Repeating}
=============================================================================
