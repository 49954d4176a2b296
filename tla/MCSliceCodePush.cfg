SPECIFICATION Spec
CONSTANTS
  Pages = {p1, p2}
  Thunk = thunk
  Slices = {s1, s2}
  Budget = 2
  MaxBlocks = 2
  AotCache = FALSE
PROPERTY PushStops
