CONSTANTS
  Daemons = {d1, d2}
  Supervisors = {}
  Ops = {"signal"}
  MaxFaults = 0
  None = None
CHECK_DEADLOCK FALSE
SPECIFICATION Spec
INVARIANT ServingIsFindable
