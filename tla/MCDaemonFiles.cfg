CONSTANTS
  Daemons = {d1, d2, d3}
  Supervisors = {s1}
  Ops = {"restart", "stop"}
  MaxFaults = 2
  None = None
CHECK_DEADLOCK FALSE
SPECIFICATION FairSpec
INVARIANTS
  UndisturbedIsFindable
PROPERTIES
  RestartHeals
  CommandsReturn
