SPECIFICATION Spec
CONSTANTS
  Games <- OneGame
  DEPTH_MAX = 6
  MAX_DEPTH = 128
  MOVE_NONE = "none"
INVARIANT NoPonderOnDraw
