\* List of at most three of four troves, ratios moving arbitrarily; no symmetry for the liveness.
CONSTANTS
    A = A  B = B  C = C  D = D
    NULL = NULL
    Ids <- FourIds
    NICRs <- ThreeRatios
    NoNICR <- Infinite
    MaxSize = 3
SPECIFICATION FairSpec
INVARIANTS ListIntact FoundPositionIsValid
PROPERTIES NodesRemainSorted ImplementsSortedList OperationsEnd
CHECK_DEADLOCK TRUE
