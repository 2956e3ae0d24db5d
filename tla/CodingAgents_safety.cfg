SPECIFICATION Spec
CONSTANTS
    Branches = {b1}
    MaxAttempt = 2
    Followups = {f1}
    MaxFaults = 3
CHECK_DEADLOCK FALSE
INVARIANTS
    NothingTwice
    AcceptedRunsAreReal
