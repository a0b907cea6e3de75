SPECIFICATION FairSpec
CONSTANTS
  Parts = {"pool"}
  VMs = {"a", "b", "c"}
  Orderings <- MCOrderings
  Operations = {"start", "stop"}
  Links <- MCLinks
  PoolSize = 2
  BulkParents = {"b", "b1"}
  EnvParents = {"e", "e1", "e2"}
  KidsOf <- MCKidsOf
  Scenes <- LivenessScenes
  MaxTroubles = 2
PROPERTY ParentsEnd
CHECK_DEADLOCK FALSE
