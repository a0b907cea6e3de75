CONSTANTS
  c1 = c1
  c2 = c2
  u1 = u1
  Clients = {c1, c2}
  Users = {u1}
  UserOf <- MCUserOf
  Rooms = {r1}
  ChanCap = 1
  BroadcastCap = 1
  SendCap = 1
  MaxEvents = 2
SPECIFICATION FairSpec
INVARIANTS UserConnsCover TimelyJoinsAreSafe
PROPERTIES PumpsEnd
CHECK_DEADLOCK FALSE
