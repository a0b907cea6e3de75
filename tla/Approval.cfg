CONSTANTS
  r1 = r1
  NoRequest = NoRequest
  Requests = {r1}
  Configured <- MCConfigured
  Actors = {a1, a2}
  MaxFaults = 1
SPECIFICATION FairSpec
INVARIANTS ChainInOrder ApprovedIsResolved
PROPERTIES NeverPendingAgain ExpiryHappens
CHECK_DEADLOCK FALSE
