\* Chains of both ways to turn a picture, all angles, no turn to the right
\* by image:rotation: (see RotationRight.cfg).
SPECIFICATION Spec
CONSTANTS
  Sizes <- MCSizes
  Angles <- MCAngles
  Orientations = {"up", "left", "down"}
  MaxContexts = 3
INVARIANTS
  TurnsAddUp
  NoGaps
