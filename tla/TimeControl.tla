---------------------------- MODULE TimeControl ----------------------------
(***************************************************************************)
(* setupTimeControl() and addExtraTime(): the milliseconds that a search   *)
(* may use.  0.9 * n and the like are computed in double and cut off,      *)
(* which for the numbers of a clock is division with rest.                 *)
(*                                                                         *)
(* A clock is a record of the limits that go sets: timeControl, moveTime   *)
(* (0 when absent), the time and increment of the player to move, and      *)
(* movesToGo (0 when absent).  phase is the game phase, 0 .. 24.           *)
(***************************************************************************)
EXTENDS Integers

GAME_PHASE_MAX == 24

Clock == [timeControl : BOOLEAN, moveTime : Nat, time : Nat, inc : Nat, movesToGo : Nat,
          phase : 0 .. GAME_PHASE_MAX]

movesLeft(c) ==
  IF c.movesToGo # 0 THEN c.movesToGo ELSE 15 + (25 * c.phase) \div GAME_PHASE_MAX

TimeForMove(c) ==
  IF c.moveTime < 20 THEN c.moveTime ELSE c.moveTime - 20

Reduced(ms) == IF ms < 100 THEN (8 * ms) \div 10 ELSE (9 * ms) \div 10

ShareOfClock(c) ==
  Reduced((c.time + movesLeft(c) * c.inc) \div movesLeft(c))

setupTimeControl(c) ==
  IF c.moveTime # 0 THEN TimeForMove(c) ELSE ShareOfClock(c)

(* addExtraTime(2.0) after the book and addExtraTime(1.3) after a fail low. *)
AddsExtraTime(c) == c.timeControl /\ c.moveTime = 0
BookBonus(limit) == limit

(* Seeded fault: the whole factor is added, not what exceeds 1. *)
FailLowBonusWhole(limit) == (13 * limit) \div 10

FailLowBonus(limit) == (3 * limit) \div 10
=============================================================================
