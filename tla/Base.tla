-------------------------------- MODULE Base --------------------------------
(***************************************************************************)
(* Base.sol, BaseMath.sol and the ratio arithmetic of LiquityMath.sol: the *)
(* system constants and the pure operators every contract computes with.   *)
(* Solidity's integer division is \div; a ratio of 100% is                 *)
(* DECIMAL_PRECISION.                                                      *)
(***************************************************************************)
EXTENDS LiquityMath

CONSTANTS NICR_PRECISION,       \* 1e20 in the contracts
          MAX_UINT,             \* 2**256 - 1, the ratio of a trove without debt
          MCR, CCR,             \* minimum and critical collateral ratio
          MIN_NET_DEBT,         \* least debt of an open trove
          PERCENT_DIVISOR,      \* 1/PERCENT_DIVISOR of the collateral pays the liquidator
          FEE_FLOOR,            \* BORROWING_FEE_FLOOR and REDEMPTION_FEE_FLOOR
          MAX_BORROWING_FEE,
          BETA                  \* divisor of the redeemed fraction in the base rate

ASSUME PrecisionAssumption ==
    /\ DECIMAL_PRECISION \in Nat \ {0}
    /\ NICR_PRECISION \in Nat \ {0}
    /\ MAX_UINT \in Nat
ASSUME RatioAssumption ==
    /\ MCR \in Nat /\ CCR \in Nat
    /\ DECIMAL_PRECISION < MCR /\ MCR < CCR /\ CCR < MAX_UINT
ASSUME FeeAssumption ==
    /\ MIN_NET_DEBT \in Nat \ {0}
    /\ PERCENT_DIVISOR \in Nat \ {0, 1}
    /\ FEE_FLOOR \in Nat /\ MAX_BORROWING_FEE \in Nat
    /\ FEE_FLOOR <= MAX_BORROWING_FEE /\ MAX_BORROWING_FEE <= DECIMAL_PRECISION
    /\ BETA \in Nat \ {0}

_computeNominalCR(coll, debt) ==
    IF debt > 0 THEN (coll * NICR_PRECISION) \div debt ELSE MAX_UINT

_computeCR(coll, debt, price) ==
    IF debt > 0 THEN (coll * price) \div debt ELSE MAX_UINT

_checkPotentialRecoveryMode(coll, debt, price) == _computeCR(coll, debt, price) < CCR

_getCollGasCompensation(coll) == coll \div PERCENT_DIVISOR

_userAcceptsFee(fee, amount, maxFeePercentage) ==
    amount > 0 /\ (fee * DECIMAL_PRECISION) \div amount <= maxFeePercentage

_validMaxFeePercentage(maxFee, isRecoveryMode) ==
    maxFee <= DECIMAL_PRECISION /\ (~isRecoveryMode => maxFee >= FEE_FLOOR)

_calcBorrowingFee(rate, SIMDebt) ==
    (_min(FEE_FLOOR + rate, MAX_BORROWING_FEE) * SIMDebt) \div DECIMAL_PRECISION

_calcRedemptionFee(rate, WSTETHDrawn) ==
    (_min(FEE_FLOOR + rate, DECIMAL_PRECISION) * WSTETHDrawn) \div DECIMAL_PRECISION
=============================================================================
