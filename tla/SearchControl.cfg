SPECIFICATION FairSpec
CONSTANTS
  Limits <- UsualLimits
  MaxGo = 3
  PonderhitsPerGo = 1
  Options = {"Ponder", "Use Hash"}
  HashSizes = {0, 64}
  QuitAnytime = FALSE
INVARIANTS
  RunAdmitted StartsFromRest TimerScoped NeverTerminated FreshResult ProbedTableSized
PROPERTIES
  StopNotLost TableSafe SessionFair HandlersReturn LimitedIsAnswered
