CONSTANTS
    t1 = t1  k1 = k1  k2 = k2  r1 = r1  r2 = r2
    Token = {t1}
    CommitKey = {k1, k2}
    Request = {r1, r2}
    None = None
    StageLife = 1
    MaxClock = 1
    MaxRevision = 1
    MaxLosses = 1
SPECIFICATION Spec
SYMMETRY Symmetry
CHECK_DEADLOCK FALSE
INVARIANTS TypeOK OneUse ExecutedWasApproved HostDeniesNoCommit ConsumedKeyJournaled
