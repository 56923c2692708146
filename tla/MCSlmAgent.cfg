SPECIFICATION MCSpec
CONSTANTS
  Classes = {"Clean", "CPD"}
  Ports = {"P1", "P2"}
  HomePort = "P1"
  Scenarios <- TwoAmps
  Alarms <- SmallAlarms
  AmpIdLists <- FirstOrBoth
  MaxTurns = 3
  MaxBatch = 2
  MaxRefs = 1
  MaxCalls = 6
  MaxRuns = 2
INVARIANTS
  TypeOK
  AuditShowsEveryHandle
  EvidenceWasMeasured
  StepNumbersStayClose
PROPERTY KeepsContract
