\* The weights against the comment that names them.
SPECIFICATION ChainSpec
CONSTANTS
  Levels <- MCLevels
  Garbage <- MCGarbage
  Thresholds <- MCThresholds
INVARIANTS
  GrayIsRec709
