SPECIFICATION Spec
CONSTANTS
    Calls = {u1, u2}
    Create = create
    InitSlot = 0
    MaxSlot = 1
PROPERTY EveryCallSettles
\* Every call may have settled with the slot at its bound: the object is then at rest.
CHECK_DEADLOCK FALSE
