SPECIFICATION Spec
CONSTANTS
    Amp = 2
    MaxIters = 20
    FeeNumerator = 0
    FeeDenominator = 1
    Kinds <- EqualKinds
    StartReserves <- EqualStart
    Prices = {1}
    Precision = 1
    SwapAmounts = {2, 12}
    DepositAmounts <- NoDeposits
    LpAmounts = {}
    MinReserve = 5
    MaxReserve = 100
    MaxSteps = 4
INVARIANT ImpactNotNegative
\* The number of operations is bounded.
CHECK_DEADLOCK FALSE
