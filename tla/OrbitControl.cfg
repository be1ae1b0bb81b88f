\* Every sequence of gestures over short ranges, on a line in space; the
\* distance's range is, as in the code, no multiple of its velocity.
SPECIFICATION Spec
CONSTANTS
  PitchVelocity = 2
  PitchLimit = 4
  YawVelocity = 3
  YawLimit = 9
  Side = 6
  Rounding = 1
  DistVelocity = 3
  DistSpan = 8
  Points <- MCPoints
  NaN = NaN
  Angles <- MCAngles
  AngleOf <- MCAngleOf
  Line <- MCLine
  Base <- MCBase
INVARIANTS
  RangesKept
  Coherent
  KeepsSide
  TargetAhead
  Steady
