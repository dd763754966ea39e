SPECIFICATION Spec
CONSTANTS
  Size = 4
  Scores <- Levels
  Threshold = 1
  K = 2
  Wide = 3
  TopK = 2
INVARIANTS
  TypeOK
  FusionOrder
  NothingWasted
