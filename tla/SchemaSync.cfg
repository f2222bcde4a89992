SPECIFICATION FairSpec
CONSTANTS
  MaxDdl = 2
  MaxRequests = 2
  MaxInputs = 3
  MaxFaults = 1
  None = None
  Unknown = Unknown
INVARIANTS
  SyncTypeOK
  EngineHoldsRegistry
  NothingForgotten
PROPERTIES
  SnapshotsGrow
  IntentPrevails
CHECK_DEADLOCK FALSE
