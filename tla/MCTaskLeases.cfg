SPECIFICATION Spec
CONSTANTS
  None = None
  Task = {t1}
  Capability = {p1, p2, p3}
  Conn = {c1, c2}
  IdleRetention = 0
  ClosedRetention = 0
  TombstoneRetention = 1
  MaxClock = 2
  MaxCrashes = 1
SYMMETRY LeaseSymmetry
CHECK_DEADLOCK FALSE
INVARIANTS StoredIsRecognised OldCapabilityIsDead LeasesCounted
PROPERTIES NeverAbandoned
