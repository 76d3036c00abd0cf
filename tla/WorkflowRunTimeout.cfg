CONSTANTS
    r1 = r1
    Runs <- OneRun
    TimedRuns <- OneRun
    Api = Api
    MaxRetries = 0
    MaxCrashes = 0
    Absent = Absent
    Empty = Empty
    Garbled = Garbled
SPECIFICATION FairSpec
CHECK_DEADLOCK FALSE
PROPERTY TimeoutEndsAttempt
