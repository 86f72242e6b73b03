SPECIFICATION LiquiditySpec
CONSTANTS
    Degradation = 2
    DegDenominator = 3
    TradeNum = 1
    TradeDen = 4
    ProtocolNum = 1
    ProtocolDen = 2
    ActivationPoint = 0
    MaxTime = 2
    MaxSteps = 3
    Amounts <- MCAmounts
    Profits <- MCProfits
    Totals <- MCTotals
    LpSupply = 20
    PoolShare = 13
    InitReserve = 20
    LaunchDeposits <- MCLaunchDeposits
    DepositAmounts <- MCDepositAmounts
    LpAmounts <- MCLpAmounts
    InitLpSupplies <- MCInitLpSupplies
INVARIANTS BooksOK DepositThenWithdrawNeverGains SplitWithdrawalNeverGains
PROPERTIES ClaimableFallsByRoundingOnly WithdrawalLeavesOthersWhole
\* The numbers of steps and of clock ticks are bounded: a behaviour may end.
CHECK_DEADLOCK FALSE
