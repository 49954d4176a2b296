SPECIFICATION Spec
CONSTANTS
  Workers = {w1, w2}
  Items = {i1}
  Cap = 1
  None = none
CHECK_DEADLOCK FALSE
PROPERTY DropReturns
