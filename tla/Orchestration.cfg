SPECIFICATION Spec
CONSTANTS
  Parts = {"plan", "pool", "job"}
  VMs = {"a", "b", "c"}
  Orderings <- MCOrderings
  Operations = {"start", "stop"}
  Links <- MCLinks
  PoolSize = 2
  BulkParents = {"b", "b1"}
  EnvParents = {"e", "e1", "e2"}
  KidsOf <- MCKidsOf
  Scenes <- MCScenes
  MaxTroubles = 2
INVARIANTS
  OrderRespected
  
  
  
CHECK_DEADLOCK FALSE
