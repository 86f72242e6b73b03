SPECIFICATION Spec
CONSTANTS
    Degradation = 2
    DegDenominator = 3
    TradeNum = 1
    TradeDen = 4
    ProtocolNum = 1
    ProtocolDen = 2
    ActivationPoint = 1
    MaxTime = 3
    MaxSteps = 3
    Amounts <- MCAmounts
    Profits <- MCProfits
    Totals <- MCTotals
    LpSupply = 20
    PoolShare = 13
    InitReserve = 9
    LaunchDeposits <- MCLaunchDeposits
INVARIANTS TypeOK RustNeverAboveTs RoundTripNeverGains LaunchQuoteIsExact
PROPERTIES PoolProductNeverFalls VaultSharesNeverDiluted
\* The numbers of steps and of clock ticks are bounded: a behaviour may end.
CHECK_DEADLOCK FALSE
