SPECIFICATION Spec
CONSTANTS
  Topologies <- FlatLists
  Labels = {"CPD", "Ingress"}
INVARIANT RegionHoldsImpaired
CHECK_DEADLOCK FALSE
