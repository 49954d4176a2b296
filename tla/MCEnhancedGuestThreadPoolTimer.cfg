SPECIFICATION Spec
CONSTANTS
  Workers = {w1}
  Callers = {c1}
  Consumers = {k1}
  Items = {}
  Timers = {1}
  MaxTime = 1
  Dues = {1}
  Periods = {0}
  Cap = 1
  None = none
CHECK_DEADLOCK FALSE
INVARIANT TimerNotSleptPast
