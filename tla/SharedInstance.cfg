\* Three threads, which may all be the first.
SPECIFICATION Spec
CONSTANT Callers = {c1, c2, c3}
INVARIANTS
  HandedOutIsReady
PROPERTIES
  OutcomeStands
  EveryAskReturns
