SPECIFICATION CellsSpec
CONSTANTS
  Scratchpads = {s1}
  Connections = {c1}
  Clients = {k1}
  Changers = {h1}
  Leases = {}
  Cells = {b1, b2}
  MaxQueue = 2
  MaxCells = 2
  Habits <- Overlapping
  None = None
INVARIANTS
  CommitMeansCommitted
SYMMETRY Symmetry
