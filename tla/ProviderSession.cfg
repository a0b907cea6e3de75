CONSTANTS
  Sessions = {s1, s2}
  Hypervisors = {h1, h2}
  Kinds = {"powerOn", "powerOff", "suspend", "reboot", "delete", "sync", "console", "test"}
  None = None
  MaxDials = 4
  MaxFaults = 1
SPECIFICATION Spec
INVARIANTS QuietDisconnected LoneSession RowMatches
CONSTRAINT Contained
SYMMETRY Symmetry
