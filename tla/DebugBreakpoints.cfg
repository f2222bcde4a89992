SPECIFICATION Spec
CONSTANTS
  Requests = {q1}
  MaxStops = 1
  MaxSets = 2
  MaxFaults = 0
INVARIANTS
  LatestBreakpointsWin
CHECK_DEADLOCK FALSE
