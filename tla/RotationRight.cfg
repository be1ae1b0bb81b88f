\* A turn to the right by image:rotation:.
SPECIFICATION Spec
CONSTANTS
  Sizes <- MCSizes
  Angles <- MCAngles
  Orientations = {"up", "left", "right", "down"}
  MaxContexts = 3
INVARIANTS
  PictureIsDrawn
