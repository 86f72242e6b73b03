SPECIFICATION Safety
CONSTANTS
    Calls = {u1, u2}
    Create = create
    InitSlot = 1
    MaxSlot = 3
SYMMETRY CallSymmetry
INVARIANTS TypeOK FreshUnlessOverlapped CoherentWhenQuiet
PROPERTY OlderOnlyByOverlap
\* Every call may have settled with the slot at its bound: the object is then at rest.
CHECK_DEADLOCK FALSE
