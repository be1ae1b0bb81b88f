\* Every chain of the three filters over a pixel of six component levels.
SPECIFICATION ChainSpec
CONSTANTS
  Levels <- MCLevels
  Garbage <- MCGarbage
  Thresholds <- MCThresholds
INVARIANTS
  ColorInv
  GrayIsStable
  BinaryIsStable
