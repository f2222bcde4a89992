SPECIFICATION FairSpec
CONSTANTS
  Runs = {r1, r2}
  Runners = {u1, u2}
  Routines = {p1}
  None = None
PROPERTIES
  RunEnds
INVARIANTS
  NothingPersists
  OneInstrumenter
