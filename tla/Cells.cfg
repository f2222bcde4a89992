SPECIFICATION FairCellsSpec
CONSTANTS
  Scratchpads = {s1}
  Connections = {c1}
  Clients = {k1}
  Changers = {h1}
  Leases = {}
  Cells = {b1, b2}
  MaxQueue = 1
  MaxCells = 2
  Habits <- AllHabits
  None = None
INVARIANTS
  CellsTypeOK
  SequentialCommitsAreSound
  CancelledNeedsRollback
PROPERTIES
  BatchFinishes
