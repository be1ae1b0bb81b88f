\* Every chain of filters and helpers, every pattern of refusals, over the
\* screens' three scales, until three objects or contexts are left over.
SPECIFICATION HelpersSpec
CONSTANTS
  MaxLeft = 3
  Sizes <- MCSizes
  Scales = {1, 2, 3}
  Rects <- MCRects
INVARIANTS
  MemoryInv
  OnlyKnownLeaks
  OwnPicture
  StopsOnlyOnRefusal
  ReadsInside
PROPERTIES
  UprightKept
  FilteredKept
CHECK_DEADLOCK FALSE
