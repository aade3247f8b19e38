SPECIFICATION GuardSpec
CONSTANTS
    p1 = p1
    p2 = p2
    p3 = p3
    p4 = p4
    Processes <- Four
    NoProcess = NoProcess
INVARIANT AtMostOneOnUnix
SYMMETRY Symmetric
CHECK_DEADLOCK FALSE
