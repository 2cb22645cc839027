CONSTANTS
    o1 = o1  o2 = o2  o3 = o3  o4 = o4  b1 = b1  b2 = b2  a1 = a1  a2 = a2
    Op = {o1, o2}
    Tab = {b1, b2}
    Task = {a1}
    None = None
    MaxStops = 2
    MaxInvalidations = 1
SPECIFICATION Spec
SYMMETRY Symmetry
CHECK_DEADLOCK FALSE
INVARIANTS AdmissionKept
