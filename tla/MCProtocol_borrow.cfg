\* Borrower operations across price moves, recovery mode and redistributions.
CONSTANTS
    A = A  B = B  C = C
    NULL = NULL
    Accounts <- ThreeAccounts
    DecayFactor <- Halving
    DECIMAL_PRECISION = 100
    NICR_PRECISION = 1000
    MAX_UINT = 1000000
    MCR = 110
    CCR = 150
    MIN_NET_DEBT = 8
    PERCENT_DIVISOR = 10
    FEE_FLOOR = 10
    MAX_BORROWING_FEE = 20
    BETA = 2
    BOOTSTRAP_PERIOD = 0
    Prices = {60, 100}
    Wallet = 64
    OpenColls = {20, 60}
    OpenSIM = {10}
    AdjustColls = {25}
    AdjustSIM = {3, 12}
    TransferAmounts = {1, 10}
    DepositAmounts = {}
    RedeemAmounts = {}
    MaxFees = {100}
    BatchLengths = {1}
    Counts = {}
    MaxTime = 0
    MaxTx = 6
SPECIFICATION Spec
SYMMETRY AccountSymmetry
INVARIANTS RewardsAccounted OwnersAgree
PROPERTIES BorrowersKeepTCR SystemNeverEmpties
CHECK_DEADLOCK TRUE
