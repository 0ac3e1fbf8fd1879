\* Locks are made and changed in two weeks, tokens arrive and are claimed in three, and the
\* distributor is called in any second of them.
CONSTANTS
    A = A  B = B  NULL = NULL
    SHADY = SHADY  LP = LP
    Accounts <- OneAccount
    StakingTokens <- OneToken
    InitialTokens <- OnlySHADY
    tokenWeights <- Weights
    TokenUnit <- Units
    WAD = 2
    WEIGHT_DENOMINATOR = 4
    WEEK = 2
    MAX_TIME = 4
    CHECKPOINT_WEEKS = 255
    GOV_ACTION_TIME_LOCK = 1
    Values = {9}
    Durations = {4}
    Percents = {}
    Kinds = {"lock"}
    MaxIds = 2
    StartTime = 5
    MaxTime = 9
    MaxCalls = 3
    LastCall = 6
    DISTRIBUTOR_WEEKS = 2
    CLAIM_STEPS = 3
    Rewards = {6}
    MaxReceived = 11
    MaxInitTime = 5
SPECIFICATION Spec
INVARIANTS ClaimsCovered
