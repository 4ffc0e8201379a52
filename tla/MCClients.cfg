SPECIFICATION Spec
CONSTANTS
    c1 = c1
    c2 = c2
    Call = {c1, c2}
    MaxAttempts = 2
    MaxFaults = 3
INVARIANTS
    RepeatedOnlyWhenLost
PROPERTIES
    ImplementsWorkspace
CHECK_DEADLOCK FALSE
