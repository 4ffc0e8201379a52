SPECIFICATION Spec
CONSTANTS
    ServiceLists <- MCServiceLists
    MaxAttempts = 1
INVARIANTS
    NodeFailureLeavesAnAnswer
CHECK_DEADLOCK FALSE
