\* Three taps, every pattern of Metal refusals.
SPECIFICATION Spec
CONSTANT MaxTaps = 3
INVARIANTS
  ShownHasReason
PROPERTIES
  EveryTapSeen
  UsesSingletons
CHECK_DEADLOCK FALSE
