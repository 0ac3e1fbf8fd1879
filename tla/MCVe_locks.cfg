\* Four calls of two users and governance; locks of one or both tokens, changed until they end.
CONSTANTS
    A = A  B = B  NULL = NULL
    SHADY = SHADY  LP = LP
    Accounts <- TwoAccounts
    StakingTokens <- BothTokens
    InitialTokens <- OneOrBoth
    tokenWeights <- Weights
    TokenUnit <- Units
    WAD = 2
    WEIGHT_DENOMINATOR = 4
    WEEK = 2
    MAX_TIME = 4
    CHECKPOINT_WEEKS = 255
    GOV_ACTION_TIME_LOCK = 1
    Values = {9}
    Durations = {2, 4}
    Percents = {1}
    Kinds = {"lock", "checkpoint", "nft", "governance"}
    MaxIds = 2
    StartTime = 3
    MaxTime = 7
    MaxCalls = 4
    LastCall = 7
    DISTRIBUTOR_WEEKS = 3
    CLAIM_STEPS = 3
    Rewards = {}
    MaxReceived = 0
    MaxInitTime = 0
SPECIFICATION Spec
SYMMETRY AccountSymmetry
INVARIANTS SupplyIsSum LocksBacked
PROPERTIES LockedStaysLocked
