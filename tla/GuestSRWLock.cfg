CONSTANTS
  w1 = w1
  w2 = w2
  w3 = w3
  r1 = r1
  r2 = r2
  Threads = {w1, w2, w3, r1, r2}
  Writers = {w1, w2, w3}
SPECIFICATION FairSpec
INVARIANT NoStrandedWaiter
PROPERTIES ImplementsLock WriterNotStarved
