SPECIFICATION FairSpec
CONSTANTS
  Pages = {p1}
  Thunk = thunk
  Slices = {s1, s2}
  Budget = 1
  MaxBlocks = 1
  AotCache = FALSE
PROPERTY RoundEnds
