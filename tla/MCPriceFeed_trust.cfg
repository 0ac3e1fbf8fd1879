\* Both oracles breaking, freezing and disagreeing in any order.
CONSTANTS
    TIMEOUT = 1
    MAX_PRICE_DIFFERENCE_BETWEEN_ORACLES = 5
    DECIMAL_PRECISION = 100
    TARGET_DIGITS = 1
    API3Values <- SomeValues
    PythPrices = {2, 20}
    Expos <- SomeExpos
    Rates = {100, 120}
    MaxTime = 3
SPECIFICATION FairSpec
INVARIANTS BrokenOracleRemembered LiveOracleIsFollowed
PROPERTIES PriceOnlyFromTrustedOracle TrustReturns
CHECK_DEADLOCK TRUE
