CONSTANTS
    q1 = q1
    q2 = q2
    Requests <- TwoRequests
    x1 = x1
    x2 = x2
    Terminals <- TwoTerminals
    NoTerminal = NoTerminal
    MaxCrashes = 1
SPECIFICATION Spec
CHECK_DEADLOCK FALSE
INVARIANT ResumedRunIsReachable
