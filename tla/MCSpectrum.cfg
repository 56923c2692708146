SPECIFICATION Spec
CONSTANTS
  Noises <- SpreadNoises
  Jitters <- NearJitters
  Stubs <- StubLevels
INVARIANTS TypeOK SignaturesReadBack FaultsAreNeverCleared
CHECK_DEADLOCK FALSE
