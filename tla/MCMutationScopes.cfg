SPECIFICATION FairSpec
CONSTANTS
  None = None
  r1 = r1
  r2 = r2
  r3 = r3
  i1 = i1
  i2 = i2
  global = global
  tab = tab
  Request = {r1, r2}
  Conn = {c1}
  Key = {k1, k2}
  Input = {i1, i2}
  Scope = {global, tab}
  ScopeOf <- MCScopeOf
  TabBound = {i2}
  Stamps = {0}
  MaxRecords = 1
  Retention = 1
  FutureSkew = 0
  MaxClock = 0
  MaxRestarts = 0
CHECK_DEADLOCK FALSE
INVARIANTS SerializedPerScope
PROPERTIES EveryRequestSettles

