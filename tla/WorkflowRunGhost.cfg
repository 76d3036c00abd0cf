CONSTANTS
    r1 = r1
    Runs <- OneRun
    TimedRuns <- NoRun
    Api = Api
    MaxRetries = 0
    MaxCrashes = 0
    Absent = Absent
    Empty = Empty
    Garbled = Garbled
SPECIFICATION Spec
CHECK_DEADLOCK FALSE
INVARIANT NeverRunningForever
