SPECIFICATION FairSpec
CONSTANTS
  Workers = {1, 2}
  NumberOfThreads = 2
  MaxTasks = 5
  Key <- MCKey
  Root = "start"
  Moves <- MCMoves
  After <- MCAfter
  Files <- UsualFiles
  MaxProcesses = 2
  MaxCalls = 2
INVARIANTS
  BookExact BookIsTree TasksKept
PROPERTIES
  InitializeEnds
CHECK_DEADLOCK FALSE
