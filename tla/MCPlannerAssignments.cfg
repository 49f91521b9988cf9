CONSTANTS
    Names <- MCNames
    Default = "_default"
    NoVersion = NoVersion
    Unsolved = Unsolved
    None = None
    p1 = p1
    p2 = p2
    r1 = r1
    r2 = r2
    a1 = a1
    i1 = i1
    Sources <- MCSources
    Requests <- MCRequests
SPECIFICATION Spec
CHECK_DEADLOCK FALSE
INVARIANT AssignmentsKept
