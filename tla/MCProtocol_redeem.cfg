\* Redemptions: whole, partial and cancelled, with rewards pending.
CONSTANTS
    A = A  B = B  C = C
    NULL = NULL
    Accounts <- ThreeAccounts
    DecayFactor <- Halving
    DECIMAL_PRECISION = 100
    NICR_PRECISION = 1000
    MAX_UINT = 1000000
    MCR = 110
    CCR = 150
    MIN_NET_DEBT = 8
    PERCENT_DIVISOR = 10
    FEE_FLOOR = 10
    MAX_BORROWING_FEE = 20
    BETA = 2
    BOOTSTRAP_PERIOD = 0
    Prices = {50, 100}
    Wallet = 60
    OpenColls = {20, 60}
    OpenSIM = {10, 20}
    AdjustColls = {}
    AdjustSIM = {}
    TransferAmounts = {}
    DepositAmounts = {}
    RedeemAmounts = {5, 16}
    MaxFees = {20, 100}
    BatchLengths = {1}
    Counts = {0, 1}
    MaxTime = 1
    MaxTx = 5
SPECIFICATION Spec
SYMMETRY AccountSymmetry
INVARIANTS Books NoDustTroves
PROPERTIES RedemptionKeepsRatios TransactionsEnd
CHECK_DEADLOCK TRUE
