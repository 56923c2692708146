SPECIFICATION MCSpec
CONSTANTS
  Classes = {"Clean", "CPD"}
  Ports = {"P1", "P2"}
  HomePort = "P1"
  Scenarios <- TwoAmps
  Alarms <- SmallAlarms
  AmpIdLists <- FirstOrBoth
  MaxTurns = 2
  MaxBatch = 2
  MaxRefs = 1
  MaxCalls = 3
  MaxRuns = 2
INVARIANT StoppingShortEscalates
