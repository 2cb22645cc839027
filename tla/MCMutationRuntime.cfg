SPECIFICATION Spec
CONSTANTS
  None = None
  r1 = r1
  r2 = r2
  r3 = r3
  i1 = i1
  i2 = i2
  global = global
  tab = tab
  Request = {r1, r2}
  Conn = {c1}
  Key = {k1}
  Input = {i1}
  Scope = {global}
  ScopeOf <- OneScope
  TabBound = {}
  Stamps = {0, 1}
  MaxRecords = 2
  Retention = 1
  FutureSkew = 0
  MaxClock = 3
  MaxRestarts = 1
SYMMETRY RequestSymmetry
CHECK_DEADLOCK FALSE
INVARIANTS TypeOK AtMostOnce HostInventsNoDenial DurableBeforeAcknowledged
PROPERTIES PromiseKept
