CONSTANTS
    Op = {o1, o2, o3}
    Tab = {b1, b2}
    Task = {a1}
    None = None
    MaxStops = 0
    MaxInvalidations = 0
    Invocation = {c1, c2}
    Listed = {c1, c2}
    KeyCacheEntries = 1
    MaxClients = 2
    MaxTries = 2
    MaxEnds = 1
    MaxBreaks = 1
SPECIFICATION QueuesSpec
CHECK_DEADLOCK FALSE
INVARIANTS RunsAsDeclared CallsAccounted
PROPERTIES EveryCallEnds
