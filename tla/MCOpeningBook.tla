---------------------------- MODULE MCOpeningBook ----------------------------
(* Books of two to four games for OpeningBook: games that transpose (b c a *)
(* and a c b, the same position by another order), that come back to the   *)
(* start position (knights out and back), and that end with a word that is *)
(* no move.                                                                *)
EXTENDS OpeningBook

MCMoves == {"d4", "Nf6", "Nf3", "Ng1", "Ng8"}

(* Positions of these games, named by how they are reached. *)
MCKey == {"start", "d4", "Nf3", "d4 Nf6", "Nf3 Nf6", "d4 Nf6 Nf3", "Nf3 Nf6 Ng1"}

MCAfter == [k \in MCKey |->
  CASE k = "start"       -> [d4 |-> "d4", Nf3 |-> "Nf3"]
    [] k = "d4"          -> [Nf6 |-> "d4 Nf6"]
    [] k = "Nf3"         -> [Nf6 |-> "Nf3 Nf6"]
    [] k = "d4 Nf6"      -> [Nf3 |-> "d4 Nf6 Nf3"]
    [] k = "Nf3 Nf6"     -> [d4 |-> "d4 Nf6 Nf3", Ng1 |-> "Nf3 Nf6 Ng1"]
    [] k = "Nf3 Nf6 Ng1" -> [Ng8 |-> "start"]
    [] OTHER             -> [m \in {} |-> "start"]]

Blank     == [kind |-> "blank", text |-> <<>>]
Tag       == [kind |-> "tag", text |-> <<>>]
Text(seq) == [kind |-> "text", text |-> seq]

OneOrder     == <<"d4", "Nf6", "Nf3">>
OtherOrder   == <<"Nf3", "Nf6", "d4">>
OutAndBack   == <<"Nf3", "Nf6", "Ng1", "Ng8">>
BadMove      == <<"d4", "Nf3", "junk">>
Ended(words) == words \o <<"result">>

SimpleBook == [format |-> "SIMPLE", lines |-> <<Text(OneOrder), Text(<<"junk">>), Text(OtherOrder)>>]
SanBook    == [format |-> "SAN", lines |-> <<Text(Ended(OutAndBack)), Blank, Text(OtherOrder), Text(BadMove), Text(<<"junk">>)>>]

(* A game over two lines, one without words, one of moves that fail. *)
PgnBook == [format |-> "PGN", lines |->
  <<Tag, Blank, Text(<<"d4", "Nf6">>), Text(<<"Nf3", "result">>), Blank,
    Tag, Tag, Blank, Text(<<"result">>), Blank,
    Tag, Blank, Text(Ended(OtherOrder)), Blank>>]
PgnReturns == [format |-> "PGN", lines |->
  <<Tag, Blank, Text(Ended(OutAndBack)), Blank, Tag, Blank, Text(Ended(BadMove)), Blank>>]

(* The first game has no result. *)
PgnUnended == [format |-> "PGN", lines |->
  <<Tag, Blank, Text(OneOrder), Blank, Tag, Blank, Text(Ended(OtherOrder)), Blank>>]

(* No blank line after the last game. *)
PgnNoBlank == [format |-> "PGN", lines |->
  <<Tag, Blank, Text(Ended(OneOrder)), Blank, Tag, Blank, Text(OtherOrder), Text(<<"result">>)>>]

UsualFiles == {SimpleBook, SanBook, PgnBook, PgnReturns, PgnUnended}
OddFiles == {PgnNoBlank}
=============================================================================
