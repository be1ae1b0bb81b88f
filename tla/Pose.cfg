\* All triples of twelve angles, three lenses.
SPECIFICATION PoseSpec
CONSTANTS
  Angles <- MCAngles
  Poses <- MCPoses
  Lenses <- MCLenses
  Depths <- MCDepths
  Scales <- MCScales
INVARIANTS
  PoseInv
  Projects
PROPERTIES
  AnglesFound
