SPECIFICATION Spec
CONSTANTS
    Amp = 2
    MaxIters = 20
    FeeNumerator = 1
    FeeDenominator = 6
    Kinds <- MCKinds
    StartReserves <- MCStart
    Prices = {3, 4}
    Precision = 3
    SwapAmounts = {1, 4, 14}
    DepositAmounts <- MCDeposits
    LpAmounts = {2, 6}
    MinReserve = 8
    MaxReserve = 120
    MaxSteps = 4
INVARIANTS TypeOK NewtonIsExact RoundTripGainsAtMostOne DetourSavesNoFee InAmountBuysAsked
PROPERTY SwapsKeepInvariant
\* The number of operations is bounded.
CHECK_DEADLOCK FALSE
