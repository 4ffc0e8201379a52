SPECIFICATION Spec
CONSTANTS
    None = None
    q = q
    s = s
    t = t
    Rest = {q}
    Socket = {s}
    Trigger = {t}
    PoolSize = 2
    Life = 2
    Buffer = 1
    RunTime = 1
    CacheTtl = 1
    MaxRequests = 3
    MaxGrants = 2
    MaxFaults = 1
INVARIANTS
    TypeOK
    QueriesNeverWaitInACircle
    NoCallbackIsLost
    CredentialsOutlastTheRun
PROPERTIES
    EveryRequestEnds
    BadClassificationHeals
