SPECIFICATION Spec
CONSTANTS
    w1 = w1
    w2 = w2
    Worker = {w1, w2}
    Pool = {w1}
    Users <- MCUsers
    Services <- MCServices
    Gathered <- MCGathered
    Triggers = {"ann"}
    Crowded = {}
    Edited <- MCEdited
    MaxEdits = 0
    MaxFaults = 1
INVARIANTS
    FailedAttemptIsReported
