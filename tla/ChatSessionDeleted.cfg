CONSTANTS
    d = d
    s = s
    b = b
    Turns <- OneTurn
    StreamTurns <- NoStream
    Backfills <- NoBackfill
    NoTurn = NoTurn
    MaxSteps = 0
    MaxCrashes = 1
    Absent = Absent
    Torn = Torn
SPECIFICATION Spec
CHECK_DEADLOCK FALSE
INVARIANT DeletedStaysDeleted
