SPECIFICATION Spec
CONSTANTS
    Expire = 2
    MaxTime = 7
    Create = 1
INVARIANT RestedQuoteIsRecent
CHECK_DEADLOCK FALSE
