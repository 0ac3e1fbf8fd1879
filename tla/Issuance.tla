------------------------------ MODULE Issuance ------------------------------
(***************************************************************************)
(* dependencies/Issuance.sol, the contract that CommunityIssuance and      *)
(* LiquidityRewardsIssuance are: a supply of SHADY released along the      *)
(* curve 1 - f^t, issued and sent at the request of one issuer.            *)
(***************************************************************************)
EXTENDS LiquityMath

CONSTANTS ISSUANCE_FACTOR,      \* f, a decimal below 1
          SHADYSupplyCap        \* the contract's entitlement

VARIABLES now,                  \* minutes since deployment
          totalSHADYIssued,
          SHADYBalance          \* of this contract, in SHADYToken

issuanceVars == <<now, totalSHADYIssued, SHADYBalance>>

_getCumulativeIssuanceFraction == DECIMAL_PRECISION - _decPow(ISSUANCE_FACTOR, now)

latestTotalSHADYIssued ==
    (SHADYSupplyCap * _getCumulativeIssuanceFraction) \div DECIMAL_PRECISION

\* What a call of issueSHADY returns.
issuance == latestTotalSHADYIssued - totalSHADYIssued

\* Both subtractions are checked: a curve that fell would make every caller revert.
issueSHADY ==
    /\ 0 <= _getCumulativeIssuanceFraction
    /\ 0 <= issuance
    /\ totalSHADYIssued' = latestTotalSHADYIssued

\* Sent after issueSHADY in the same transaction: only issued SHADY leaves.
sendSHADY(amount) ==
    /\ SHADYSupplyCap - totalSHADYIssued' + amount <= SHADYBalance
    /\ SHADYBalance' = SHADYBalance - amount

IssuanceInit ==
    /\ now = 0
    /\ totalSHADYIssued = 0
    /\ SHADYBalance = SHADYSupplyCap
=============================================================================
