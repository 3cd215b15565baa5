\* Three baskets are prepared at every price and rebalanced from every drift.
SPECIFICATION FairSpec
CONSTANTS
    usdc = usdc  weth = weth  wbtc = wbtc  dai = dai
    Tokens <- FourTokens  BudgetToken = usdc  Intents <- Baskets  Prices <- Quoter
    Values <- SmallValues  Thresholds <- LowAndHigh
INVARIANTS TypeOK CapsCoverSnapshot NeverCrossesTarget OnlyCapsBlock
PROPERTIES TickReturns
\* A prepare that failed and a finished tick are the end.
CHECK_DEADLOCK FALSE
