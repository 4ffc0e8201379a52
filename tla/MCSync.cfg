SPECIFICATION FairSpec
CONSTANTS
    w1 = w1
    w2 = w2
    Worker = {w1, w2}
    Pool = {w1}
    Users <- MCUsers
    Services <- MCServices
    Gathered <- MCGathered
    Triggers = {"ann"}
    Crowded <- MCEdited
    Edited <- MCEdited
    MaxEdits = 1
    MaxFaults = 1
INVARIANTS
    TypeOK
    IdleMeansStored
    ReturnedMeansReported
PROPERTIES
    OthersEventuallyFresh
