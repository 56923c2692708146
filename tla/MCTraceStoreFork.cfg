SPECIFICATION Spec
CONSTANTS
  Writers = {w1, w2}
  Runs = {r1, r2, r3}
  MaxDay = 2
  Digests <- MCDigests
  Genesis <- MCGenesis
  Digest <- MCDigest
  Concurrent = TRUE
  TornWrites = FALSE
  SplitRuns = {}
INVARIANT UntouchedLogVerifies
CHECK_DEADLOCK FALSE
