SPECIFICATION Spec
CONSTANTS
  Rows = {r1}
  Values = {v1, v2}
  NewRows = {n1}
  None = None
  MaxMoves = 2
PROPERTIES
  NothingDropped
