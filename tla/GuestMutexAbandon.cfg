SPECIFICATION Spec
CONSTANTS
  Threads = {t1, t2, t3}
  NoThread = none
  MaxDepth = 2
CHECK_DEADLOCK FALSE
INVARIANT AbandonmentObserved
