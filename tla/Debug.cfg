SPECIFICATION FairSpec
CONSTANTS
  Requests = {q1, q2}
  MaxStops = 2
  MaxSets = 2
  MaxFaults = 1
INVARIANTS
  DebugTypeOK
  OneResume
PROPERTIES
  PendingReplayed
  EndIsAnnounced
  LaunchComesToRest
  NothingOutlivesTheAdapter
CHECK_DEADLOCK FALSE
