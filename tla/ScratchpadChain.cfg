SPECIFICATION TimerSpec
CONSTANTS
  Scratchpads = {s1}
  Connections = {c1, c2}
  Clients = {k1, k2}
  Changers = {h1}
  Leases = {l1}
  Cells = {b1, b2}
  MaxQueue = 2
  None = None
INVARIANTS
  LeaseExcludesWork
  RefusalsBalance
  NoOrphanSession
  ShutdownClosesEverything
PROPERTIES
  ImplementsGate
  ShutdownEnds
  LeaseProceeds
