SPECIFICATION FairSpec
CONSTANTS
  Classes = {"Clean", "CPD", "Ingress"}
  Ports = {"P1", "P2"}
  Scenarios <- SmallScenariosAndCases
  Alarms <- SmallAlarms
  MaxRemeasure = 1
  MaxRuns = 2
  ExtraAmps = 1
INVARIANTS
  TypeOK
  ChainStopsAtFailure
  RequestsAreAccepted
  LocalizedRestsOnOwnReadings
  TransientFaultIsAbsorbed
  ResultsAreAudited
  ReferenceMeetsEveryCriterion
  AnswerIsThePlantedFault
PROPERTIES
  KeepsContract
  RunsEnd
