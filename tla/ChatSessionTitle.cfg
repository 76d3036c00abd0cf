CONSTANTS
    d = d
    s = s
    b = b
    Turns <- OneTurn
    StreamTurns <- NoStream
    Backfills <- OneBackfill
    NoTurn = NoTurn
    MaxSteps = 0
    MaxCrashes = 0
    Absent = Absent
    Torn = Torn
SPECIFICATION Spec
CHECK_DEADLOCK FALSE
PROPERTY UserTitleKept
