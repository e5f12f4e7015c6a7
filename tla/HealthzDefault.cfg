SPECIFICATION Spec
CONSTANTS
    Singleton = FALSE
    Interval = 12
    EtcdCycle = 1
    MaxSync = 1
    gracePeriod = 12
    Boot = 30
    Failures = 3
    MaxTime = 70
    MaxHangs = 1
CHECK_DEADLOCK FALSE
INVARIANT ProbeSparesLeader
