SPECIFICATION CVFairSpec
CONSTANTS
  Threads = {w1, p1, s1, v1}
  Waiters = {w1}
  Signallers = {s1}
  Pollers = {p1}
  Visitors = {v1}
  Timed = {w1, p1}
  NoThread = none
  MaxDepth = 2
INVARIANTS
  OwnershipExact
  NoStrandedWaiter
  MonitorExclusion
  WakeReportedHonestly
PROPERTY TimedSleepReturns
