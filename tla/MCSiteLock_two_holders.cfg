\* Expected to fail: a live request outlives the threshold.
SPECIFICATION Spec
CONSTANTS
    Requests = {r1, r2, r3}
    None = None
    MaxAge = 1
    MaxClock = 3
    Faults = FALSE
INVARIANTS
    AtMostOneInProgress
CHECK_DEADLOCK FALSE
