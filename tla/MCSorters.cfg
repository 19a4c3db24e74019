SPECIFICATION Spec
CONSTANTS
  Scalar = {"cpus"}
  Client <- MCClient
  Slave = {s1}
  Quantity <- MCQuantity
  Weighted <- MCWeighted
  MaxWeight = 2
  MaxTotal = 1
  Served <- MCServed
  MaxCount = 2
  Excluded = {}
  PathOrder <- MCPathOrder
INVARIANTS
  ChildrenAreOrdered
  AllocationsAddUp
  WeightsAreCurrent
  RelativeWeightsAreCurrent
PROPERTIES DRFIsSorter RandomIsSorter
