SPECIFICATION Spec
CONSTANTS
  Writers = {w1, w2}
  Runs = {r1, r2, r3}
  MaxDay = 2
  Digests <- MCDigests
  Genesis <- MCGenesis
  Digest <- MCDigest
  Concurrent = FALSE
  TornWrites = TRUE
  SplitRuns = {r3}
INVARIANTS TypeOK DamageIsTheTail
CHECK_DEADLOCK FALSE
