SPECIFICATION Spec
CONSTANTS
  Noises <- SpreadNoises
  Jitters <- WideJitters
  Stubs <- StubLevels
INVARIANT SignaturesReadBack
CHECK_DEADLOCK FALSE
