CONSTANTS
    t1 = t1  t2 = t2  k1 = k1  k2 = k2  o1 = o1  o2 = o2  o3 = o3
    Tab = {t1, t2}
    Task = {k1, k2}
    Op = {o1, o2}
    None = None
    MaxGroups = 2
    MaxTouches = 2
    MaxCommands = 2
    MaxFaults = 1
SPECIFICATION Spec
SYMMETRY Symmetry
CHECK_DEADLOCK FALSE
INVARIANTS UserTabsSurvive RecordsAgree NothingLeftBehind
PROPERTIES EndedStaysEnded
