SPECIFICATION FairSpec
CONSTANTS
  Loads = {l1, l2}
  Moves = {n1}
  Cancels = {c1}
  Texts = {t1, blank}
  Empty = blank
  None = None
CHECK_DEADLOCK FALSE
INVARIANTS
  RowsOfTheQuery
  BusyMeansWork
  WorkIsBusy
PROPERTIES
  SupersededEnds
