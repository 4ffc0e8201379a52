SPECIFICATION FairSpec
CONSTANTS
    w1 = w1
    Worker = {w1}
    Pool = {w1}
    Users <- MCUsers
    Services <- MCServices
    Gathered <- MCGathered
    Triggers = {"ann"}
    Crowded = {}
    Edited <- MCEditedFirst
    MaxEdits = 1
    MaxFaults = 0
PROPERTIES
    EventuallyFresh
