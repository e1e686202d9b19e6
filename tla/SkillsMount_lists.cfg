SPECIFICATION FairSpec
CONSTANTS
  Users = {u1, u2}
  Rooms = {0, 1, 2}
  MaxVersions = 2
  MaxFaults = 1
INVARIANTS
  TypeOK
  ExitTold
PROPERTIES
  ListsConverge
  ExitsOnSignal
CHECK_DEADLOCK FALSE
