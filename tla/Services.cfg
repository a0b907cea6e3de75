SPECIFICATION Spec
CONSTANTS
  VMs = {v1, v2}
  Syncs = {s1, s2}
  MaxChanges = 2
  MaxErrors = 1
  Checks = {s1, s2}
  Afters = {a1}
  Latencies = {40, 1600}
  TaskStats <- MCTaskStats
  AuthFailures = {11}
  StaleAfter = 0
  LastHour = 1
  MaxChecks = 4
  MaxSyncs = 2
  MaxLost = 1
  PolicyIDs = {v1, v2}
  Drafts <- MCDrafts
  Patches <- MCPatches
  Targets = {"global", "h1"}
  Evaluations <- MCEvaluations
  Editors = {s1, s2}
  MaxEdits = 2
  MaxFailures = 1
  Clients = {s1, s2}
  Tokens = {t1, t2, t3}
  Roles = {v1, v2}
  MaxCalls = 5
  MaxStoreErrors = 1
  Arrivals = {s1, s2}
  Addresses = {x1}
  Layers <- MCLayers
  Limit <- MCLimit
  Window = 1
  SyncWindow = 3
  LastTick = 6
  MaxArrivals = 4
INVARIANTS
  QuietSyncMirrors
  
  LoneEditorKeeps
  FirstMatchDecides
  RevokedStaysRevoked
  SpentStaysSpent
  SyncsSpaced
SYMMETRY Symmetry
CHECK_DEADLOCK FALSE
