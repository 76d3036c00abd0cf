CONSTANTS
    r1 = r1
    Runs <- OneRun
    TimedRuns <- OneRun
    Api = Api
    MaxRetries = 1
    MaxCrashes = 2
    Absent = Absent
    Empty = Empty
    Garbled = Garbled
SPECIFICATION LiveSpec
CHECK_DEADLOCK FALSE
INVARIANT TypeOK
INVARIANT CompletedHasOutput
INVARIANT AtMostOneLateStart
INVARIANT ControlledRunEnds
INVARIANT RestoredRunsEnded
INVARIANT FailureIsExplained
PROPERTY ControlIsFinal
PROPERTY RunsWithinBudget
PROPERTY StoppedWorkerLeaves
PROPERTY StartedRunSettles
