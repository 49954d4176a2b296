CONSTANTS
  Indices = {i1}
  Values = {v1}
  Auths = {empty, secret}
  EmptyAuth = empty
  Digests = {d1, d2}
  Undefined = Undefined
  Unwritten = Unwritten
  Blank = Blank
  Password = Password
  Nothing = Nothing
  MaxIndices = 1
  MaxObjects = 1
  MaxSessions = 1
  Guests <- MCGuests
  MaxExtends = 1
  MaxDraws = 2
  MaxResets = 2
  MaxFaults = 0
SYMMETRY ValueSymmetry
SPECIFICATION Spec
INVARIANTS
  SessionsUsable
CHECK_DEADLOCK FALSE
