SPECIFICATION Spec
CONSTANTS
  Pages = {p1, p2}
  Thunk = thunk
  Slices = {s1}
  Budget = 1
  MaxBlocks = 2
  AotCache = FALSE
INVARIANTS
  SliceStoresSeen
  InterpreterStoresSeen
