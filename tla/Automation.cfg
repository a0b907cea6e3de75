SPECIFICATION Spec
CONSTANTS
  Fires = {g1, g2}
  Edits = {e1, e2}
  Slots = {1, 3}
  Horizon = 3
  Targets = 1
  Bulk = FALSE
  MaxRunsSet = {0, 1}
  MaxEdits = 3
  MaxFaults = 1
  MinutesPerHour = 3
  HoursPerDay = 3
  DaysPerWeek = 3
  MonthsPerYear = 3
  Months = 15
  MonthStart <- MCMonthStart
  SearchLimit = 144
  Fields <- MCFields
  MaxFrom = 20
  Handlers = {g1, g2}
  Runs = {e1, e2}
  Triggers = {"task_failure"}
  ActionLists <- MCActionLists
  MaxConcurrent = {0, 1}
  MaxEvents = 2
  MaxRequests = 2
  MaxDBErrors = 1
  MaxRestarts = 1
  Rules = 1
  Dispatchers = {g1, g2}
  Filters <- MCFilters
  Channels <- MCChannels
  Throttle = 2
  Deadline = 2
  MaxAttempts = 2
  MaxBusEvents = 2
  MaxSaves = 1
  EndOfTime = 3
INVARIANTS
  SlotFiredOnce
  RunsWithinMax
  DisabledStaysQuiet
  
  EventRunsWithinMax
  RunningIsAlive
  RunTellsOutcome
  ThrottleHolds
CHECK_DEADLOCK FALSE
SYMMETRY Symmetry
