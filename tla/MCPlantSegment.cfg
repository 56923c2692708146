SPECIFICATION FairSpec
CONSTANTS
  Documents <- AllDocuments
  Requests <- SomeRequests
INVARIANTS
  TypeOK
  RegistersTheReachable
  EveryDeviceHangsFromARoot
  ParentAndDistanceAgree
  SegmentIsBelowItsPort
  ImpairedAmpsHaveACommonPoint
PROPERTY ParsingEnds
