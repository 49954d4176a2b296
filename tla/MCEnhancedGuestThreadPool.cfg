SPECIFICATION Spec
CONSTANTS
  Workers = {w1, w2}
  Callers = {c1}
  Consumers = {k1, k2}
  Items = {i1}
  Timers = {1}
  MaxTime = 2
  Dues = {1}
  Periods = {0, 1}
  Cap = 2
  None = none
SYMMETRY PoolSymmetry
CHECK_DEADLOCK FALSE
INVARIANTS
  DeliveredOnce
  NobodyStranded
PROPERTY NoExpiryInThePast
