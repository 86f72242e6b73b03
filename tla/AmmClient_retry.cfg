SPECIFICATION Safety
CONSTANTS
    Calls = {u1, u2}
    Create = create
    InitSlot = 0
    MaxSlot = 2
INVARIANT RetriedUpdateIsFresh
CHECK_DEADLOCK FALSE
