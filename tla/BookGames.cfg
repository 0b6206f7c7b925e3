SPECIFICATION Spec
CONSTANTS
  Workers = {1, 2}
  NumberOfThreads = 2
  MaxTasks = 5
  Key <- MCKey
  Root = "start"
  Moves <- MCMoves
  After <- MCAfter
  Files <- OddFiles
  MaxProcesses = 2
  MaxCalls = 2
INVARIANTS
  GamesAreWhole
CHECK_DEADLOCK FALSE
