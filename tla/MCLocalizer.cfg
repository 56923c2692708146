SPECIFICATION Spec
CONSTANTS
  Topologies <- TreesAndPlants
  Labels = {"CPD", "Ingress"}
INVARIANTS
  TypeOK
  LocalizedIsConclusive
  RegionHoldsImpaired
  BoundaryIsLowestCommonAncestor
  PlantedFaultIsNamed
  PlantedFaultNeverExcluded
CHECK_DEADLOCK FALSE
