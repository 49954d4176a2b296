SPECIFICATION CVSpec
CONSTANTS
  Threads = {w1, s1}
  Waiters = {w1}
  Signallers = {s1}
  Pollers = {}
  Visitors = {}
  Timed = {}
  NoThread = none
  MaxDepth = 1
CHECK_DEADLOCK FALSE
INVARIANT NoLostWakeup
