SPECIFICATION FairSpec
CONSTANTS
  Rows = {r1}
  Values = {v1, v2}
  NewRows = {n1}
  None = None
  MaxMoves = 1
INVARIANTS
  HeldIsUnapplied
  HeldIsWritable
  RemovedRowsHoldNoEdits
PROPERTIES
  ClearedMeansWritten
  NoBlindUpdate
  WriteEnds
