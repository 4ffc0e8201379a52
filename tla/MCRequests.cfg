SPECIFICATION Spec
CONSTANTS
    r1 = r1
    r2 = r2
    r3 = r3
    Request = {r1, r2, r3}
    HourLimit = 2
    SecondLimit = 1
    HourLength = 2
    MaxTime = 3
    MaxPolls = 3
    MaxFaults = 1
SYMMETRY MCSymmetry
INVARIANTS
    TypeOK
    AdmittedPerHour
    RefusedOnlyAtTheLimit
    RetryAfterLeavesTheHour
    CountersExpire
    CallsPerSecond
    WaitsOnlyForOthers
CHECK_DEADLOCK FALSE
