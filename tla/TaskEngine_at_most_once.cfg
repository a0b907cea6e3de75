CONSTANTS
  t1 = t1
  t2 = t2
  h1 = h1
  Tasks = {t1}
  Workers = {w1, w2}
  Hypervisors = {h1}
  NoTask = NoTask
  NoHypervisor = NoHypervisor
  HypervisorOf <- MCHypervisorOf1
  Priority <- MCPriority1
  ApiPriority <- MCApiPriority1
  MaxPriority = 2
  MaxRetries <- MCMaxRetries1
  Registered = {t1}
  MaxSlots = 1
  SlowCalls = FALSE
  MaxFailures = 1
  MaxCancels = 0
  MaxCrashes = 0
  MaxFaults = 0
SPECIFICATION Spec
SYMMETRY Symmetry
INVARIANTS AtMostOnce
CHECK_DEADLOCK FALSE
