\* Liquidation in both modes and across them, with deposits in the stability pool.
CONSTANTS
    A = A  B = B  C = C
    NULL = NULL
    Accounts <- ThreeAccounts
    DecayFactor <- Halving
    DECIMAL_PRECISION = 100
    NICR_PRECISION = 1000
    MAX_UINT = 1000000
    MCR = 110
    CCR = 150
    MIN_NET_DEBT = 8
    PERCENT_DIVISOR = 10
    FEE_FLOOR = 10
    MAX_BORROWING_FEE = 20
    BETA = 2
    BOOTSTRAP_PERIOD = 0
    Prices = {50, 60, 63, 100}
    Wallet = 64
    OpenColls = {20, 64}
    OpenSIM = {10, 20}
    AdjustColls = {}
    AdjustSIM = {}
    TransferAmounts = {}
    DepositAmounts = {20}
    RedeemAmounts = {}
    MaxFees = {100}
    BatchLengths = {2}
    Counts = {1, 3}
    MaxTime = 0
    MaxTx = 6
SPECIFICATION Spec
SYMMETRY AccountSymmetry
INVARIANTS TypeOK Books
PROPERTIES HealthyTrovesProtected LiquidationNotUndone TransactionsEnd
CHECK_DEADLOCK TRUE
