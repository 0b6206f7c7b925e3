SPECIFICATION FairSpec
CONSTANTS
  Limits <- OnlyInfinite
  MaxGo = 1
  PonderhitsPerGo = 0
  Options = {}
  HashSizes = {}
  QuitAnytime = TRUE
PROPERTIES
  QuitEnds
CHECK_DEADLOCK FALSE
