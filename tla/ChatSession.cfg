CONSTANTS
    d = d
    s = s
    b = b
    Turns <- TwoTurns
    StreamTurns <- Streams
    Backfills <- OneBackfill
    NoTurn = NoTurn
    MaxSteps = 1
    MaxCrashes = 1
    Absent = Absent
    Torn = Torn
    MaxEvents = 2
SPECIFICATION PartsSpec
CHECK_DEADLOCK FALSE
INVARIANT OneTurnAtATime
INVARIANT TurnInFlightIsShown
INVARIANT ManifestIsCurrent
INVARIANT RunningHasTask
PROPERTY ErrorsAreExplained
PROPERTY ShownRunEnds
PROPERTY TurnSettles
PROPERTY EventsArriveInOrder
PROPERTY StreamCompletes
