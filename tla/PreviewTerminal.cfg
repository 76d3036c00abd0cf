CONSTANTS
    q1 = q1
    q2 = q2
    Requests <- TwoRequests
    x1 = x1
    x2 = x2
    Terminals <- TwoTerminals
    NoTerminal = NoTerminal
    MaxCrashes = 1
SPECIFICATION FairSpec
CHECK_DEADLOCK FALSE
INVARIANT EntryIsLive
INVARIANT LiveRunIsReachable
PROPERTY EndedStaysEnded
PROPERTY ExitIsShown
PROPERTY TerminateSettles
