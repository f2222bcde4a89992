SPECIFICATION Spec
CONSTANTS
  MaxDdl = 1
  MaxRequests = 1
  MaxInputs = 2
  MaxFaults = 0
  None = None
  Unknown = Unknown
INVARIANTS
  ListeningIsFresh
CHECK_DEADLOCK FALSE
