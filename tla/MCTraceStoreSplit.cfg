SPECIFICATION Spec
CONSTANTS
  Writers = {w1, w2}
  Runs = {r1, r2, r3}
  MaxDay = 2
  Digests <- MCDigests
  Genesis <- MCGenesis
  Digest <- MCDigest
  Concurrent = FALSE
  TornWrites = FALSE
  SplitRuns = {r3}
INVARIANT NoRunIsRefused
CHECK_DEADLOCK FALSE
