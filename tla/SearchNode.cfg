SPECIFICATION Spec
CONSTANTS
  Games <- UsualGames
  FeatureSets <- UsualFeatures
  RAZOR_MARGIN = 531
  RFP_MARGIN <- Rfp
  FP_MARGIN <- Fp
  QFP_MARGIN = 150
  NMP_DEPTH = 1
  NMP_REDUCTION = 1
  IID_DEPTH = 2
  IID_REDUCTION = 1
  LMR_MIN_DEPTH = 3
  LMR_MIN_MOVES = 1
  LMR_REDUCTION = 1
  LMP_MOVES <- Lmp
  MOVE_NONE = "none"
  MAX_DEPTH = 8
INVARIANTS ReturnsMinimax TableTellsTruth MatesAreReal InterruptionContained PvPlayable
