SPECIFICATION Spec
CONSTANTS
  Workers = {w1, w2}
  MaxTasks = 1
  MaxErrors = 0
PROPERTIES
  StopReturns
CHECK_DEADLOCK FALSE
