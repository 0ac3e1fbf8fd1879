\* Offsets across scales and epochs, and SHADY issued over time, with a precision above the amounts.
CONSTANTS
    d1 = d1
    d2 = d2
    Depositors <- TwoDepositors
    DECIMAL_PRECISION = 64
    SCALE_FACTOR = 8
    ISSUANCE_FACTOR = 48
    SHADYSupplyCap = 8
    Amounts = {2}
    Colls = {4}
    MaxDeposits = 4
    MaxOffsets = 3
    MaxTime = 2
SYMMETRY Symmetry
SPECIFICATION Spec
INVARIANTS DepositsBacked PayoutsBacked OffsetNeverReverts
PROPERTIES OffsetIsShared
CHECK_DEADLOCK TRUE
