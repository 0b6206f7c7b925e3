SPECIFICATION Spec
CONSTANTS
  Games <- UsualGames
  DEPTH_MAX = 6
  MAX_DEPTH = 128
  MOVE_NONE = "none"
INVARIANTS BestMoveIsFirst FinishedIsBest StopKeepsBest ClockHolds
