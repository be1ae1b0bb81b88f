\* Two callers, a queue with one place, every pattern of what ImageMisc lacks.
SPECIFICATION Spec
CONSTANTS
  Callers = {main, worker}
  Frames <- MCFrames
  QueueLimit = 1
INVARIANTS
  ResultCorrect
PROPERTIES
  ReadbackIsFinal
  EveryCallReturns
CHECK_DEADLOCK FALSE
