SPECIFICATION Spec
CONSTANTS
    Procs = {p1, p2}
    p1 = p1
    p2 = p2
    None = None
    MaxChanges = 1
    MaxFailures = 1
INVARIANTS TypeOK
PROPERTIES RoutesStay Converges
CHECK_DEADLOCK FALSE
