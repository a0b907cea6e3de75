CONSTANTS
  t1 = t1
  t2 = t2
  h1 = h1
  Tasks = {t1, t2}
  Workers = {w1, w2}
  Hypervisors = {h1}
  NoTask = NoTask
  NoHypervisor = NoHypervisor
  HypervisorOf <- MCHypervisorOfOne
  Priority <- MCPriority
  ApiPriority <- MCApiPriority
  MaxPriority = 2
  MaxRetries <- MCMaxRetries
  Registered = {t1}
  MaxSlots = 1
  SlowCalls = FALSE
  MaxFailures = 1
  MaxCancels = 0
  MaxCrashes = 0
  MaxFaults = 0
SPECIFICATION FairSpec
PROPERTIES EveryTaskSettles
CHECK_DEADLOCK FALSE
