\* Tokens may arrive, and be spread, also in the first second of a week.
CONSTANTS
    A = A  B = B  NULL = NULL
    SHADY = SHADY  LP = LP
    Accounts <- OneAccount
    StakingTokens <- OneToken
    InitialTokens <- OnlySHADY
    tokenWeights <- Weights
    TokenUnit <- Units
    WAD = 2
    WEIGHT_DENOMINATOR = 4
    WEEK = 2
    MAX_TIME = 4
    CHECKPOINT_WEEKS = 255
    GOV_ACTION_TIME_LOCK = 1
    Values = {9}
    Durations = {4}
    Percents = {1}
    Kinds = {"lock"}
    MaxIds = 2
    StartTime = 3
    MaxTime = 7
    MaxCalls = 1
    LastCall = 3
    DISTRIBUTOR_WEEKS = 3
    CLAIM_STEPS = 3
    Rewards = {6}
    MaxReceived = 11
    MaxInitTime = 3
SPECIFICATION Spec
PROPERTIES SpreadOnce
