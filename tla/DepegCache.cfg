SPECIFICATION Spec
CONSTANTS
    Expire = 2
    MaxTime = 7
    Create = 1
INVARIANTS TypeOK RecentUnlessTorn StampsAreHonest
\* The clock of the chain is bounded.
CHECK_DEADLOCK FALSE
