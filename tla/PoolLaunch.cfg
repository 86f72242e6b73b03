SPECIFICATION Spec
CONSTANTS
    Clients = {c1, c2}
    Options <- MCOptions
    Deposit = 2
    SwapIn = 1
    Balances <- MCBalances
    MaxAttempts = 3
SYMMETRY ClientSymmetry
INVARIANTS TypeOK UndisturbedAttemptRuns UndisturbedAttemptIsExact LockedFromBirth
PROPERTIES SingleLaunchLeavesNothing
\* The attempts of the payers are bounded: a behaviour may end.
CHECK_DEADLOCK FALSE
