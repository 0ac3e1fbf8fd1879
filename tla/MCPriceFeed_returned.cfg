\* The price returned against the price stored.
CONSTANTS
    TIMEOUT = 1
    MAX_PRICE_DIFFERENCE_BETWEEN_ORACLES = 5
    DECIMAL_PRECISION = 100
    TARGET_DIGITS = 1
    API3Values = {20, 40}
    PythPrices = {20}
    Expos <- SomeExpos
    Rates = {100, 120}
    MaxTime = 2
SPECIFICATION Spec
INVARIANT ReturnsStoredPrice
CHECK_DEADLOCK TRUE
