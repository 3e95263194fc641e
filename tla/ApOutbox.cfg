SPECIFICATION Spec
CONSTANTS
    Slots = {s1, s2}
    Capacity = 2
    MaxRequests = 3
    MaxEnqueues = 3
INVARIANTS
    DoneIsWhole
    NothingLeaks
CHECK_DEADLOCK FALSE
