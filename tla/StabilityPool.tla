---------------------------- MODULE StabilityPool ---------------------------
(***************************************************************************)
(* StabilityPool.sol: deposits of SIM that offset the debt of liquidated   *)
(* troves and earn their collateral, and SHADY, in proportion.             *)
(*                                                                         *)
(* No loop visits the depositors.  A running product P (with a scale, and  *)
(* an epoch that ends when the pool is emptied) says what a deposit has    *)
(* shrunk to since its snapshot; running sums of collateral and of SHADY   *)
(* per unit say what it has earned.  All three are rounded, and their      *)
(* rounding errors are fed back into the next offset.                      *)
(*                                                                         *)
(* The troves are outside: TroveManager may offset any debt up to the      *)
(* deposits, and the two requirements about troves (no withdrawal while    *)
(* one can be liquidated, a trove to move a gain to) may hold or not at    *)
(* any time; module Protocol has them.                                     *)
(***************************************************************************)
EXTENDS Issuance, FiniteSetsExt

CONSTANTS Depositors,
          SCALE_FACTOR,         \* 1e9 in the contract, the square root of the precision
          Amounts,              \* SIM of one deposit or withdrawal
          Colls,                \* collateral of one offset
          MaxDeposits,          \* bound: SIM in the pool
          MaxOffsets,           \* bound: offsets
          MaxTime               \* bound: minutes

ASSUME PoolAssumption ==
    /\ DECIMAL_PRECISION \in Nat \ {0} /\ SCALE_FACTOR \in 1..DECIMAL_PRECISION
    /\ DECIMAL_PRECISION <= SCALE_FACTOR * SCALE_FACTOR
    /\ MaxDeposits \in Nat \ {0} /\ MaxOffsets \in Nat /\ MaxTime \in Nat
    /\ Amounts \subseteq Nat /\ Colls \subseteq Nat
    /\ ISSUANCE_FACTOR \in 0..DECIMAL_PRECISION /\ SHADYSupplyCap \in Nat

VARIABLES P, currentScale, currentEpoch,
          epochToScaleToSum, epochToScaleToG,
          lastSHADYError, lastWSTETHError_Offset, lastSIMLossError_Offset,
          deposits,             \* initialValue of every depositor
          depositSnapshots,
          totalSIMDeposits, WSTETH,
          offsets               \* how many there were, for the bound

productVars == <<P, currentScale, currentEpoch, epochToScaleToSum,
                 lastWSTETHError_Offset, lastSIMLossError_Offset>>
vars == <<productVars, epochToScaleToG, lastSHADYError, deposits, depositSnapshots,
          totalSIMDeposits, WSTETH, offsets, issuanceVars>>

\* Keys of the two nested mappings.  The scale after the current one is read too.
Places == (0..MaxOffsets) \X (0..(MaxOffsets + 1))
here == <<currentEpoch, currentScale>>

noSnapshot == [S |-> 0, P |-> 0, G |-> 0, scale |-> 0, epoch |-> 0]

-----------------------------------------------------------------------------
(* What a depositor has.                                                   *)

\* Variant: the epoch in which the deposit was made is not looked at.
getCompoundedSIMDeposit_anyEpoch(d) ==
    IF deposits[d] = 0 THEN 0 ELSE (deposits[d] * P) \div depositSnapshots[d].P

\* getCompoundedSIMDeposit and _getCompoundedStakeFromSnapshots.  The billionth below
\* which a deposit counts as nothing is the contract's SCALE_FACTOR.
getCompoundedSIMDeposit(d) ==
    LET snapshot == depositSnapshots[d]
        atScale == (deposits[d] * P) \div snapshot.P
        scaleDiff == currentScale - snapshot.scale
        compounded == IF scaleDiff = 0 THEN atScale ELSE atScale \div SCALE_FACTOR
    IN  IF \/ deposits[d] = 0
           \/ snapshot.epoch < currentEpoch
           \/ scaleDiff > 1
           \/ compounded < deposits[d] \div SCALE_FACTOR
        THEN 0 ELSE compounded

\* A deposit's part of a sum since its snapshot, which may span one change of scale.
_gainFromSnapshots(d, sums, sumSnapshot) ==
    LET snapshot == depositSnapshots[d]
        firstPortion == sums[<<snapshot.epoch, snapshot.scale>>] - sumSnapshot
        secondPortion == sums[<<snapshot.epoch, snapshot.scale + 1>>] \div SCALE_FACTOR
    IN  IF deposits[d] = 0 THEN 0
        ELSE ((deposits[d] * (firstPortion + secondPortion)) \div snapshot.P)
                 \div DECIMAL_PRECISION

getDepositorWSTETHGain(d) ==
    _gainFromSnapshots(d, epochToScaleToSum, depositSnapshots[d].S)

\* Under given sums: an operation issues SHADY before it pays out.
getDepositorSHADYGain(d, G) == _gainFromSnapshots(d, G, depositSnapshots[d].G)

-----------------------------------------------------------------------------
(* SHADY issuance, at the start of every operation.                        *)

_SHADYNumerator == issuance * DECIMAL_PRECISION + lastSHADYError

\* With no deposits what was issued is lost to depositors.
_triggerSHADYIssuance ==
    /\ issueSHADY
    /\ IF totalSIMDeposits = 0 \/ issuance = 0
       THEN UNCHANGED <<epochToScaleToG, lastSHADYError>>
       ELSE /\ epochToScaleToG' = [epochToScaleToG EXCEPT
                    ![here] = @ + (_SHADYNumerator \div totalSIMDeposits) * P]
            /\ lastSHADYError' = _SHADYNumerator % totalSIMDeposits

_payOutSHADYGains(d) == sendSHADY(getDepositorSHADYGain(d, epochToScaleToG'))

-----------------------------------------------------------------------------
(* Depositors' operations.                                                 *)

\* Variant: the sum of collateral keeps the depositor's old snapshot.
_updateDepositAndSnapshots_staleS(d, newValue) ==
    /\ deposits' = [deposits EXCEPT ![d] = newValue]
    /\ depositSnapshots' = [depositSnapshots EXCEPT ![d] =
            IF newValue = 0 THEN noSnapshot
            ELSE [S |-> depositSnapshots[d].S, P |-> P, G |-> epochToScaleToG'[here],
                  scale |-> currentScale, epoch |-> currentEpoch]]

_updateDepositAndSnapshots(d, newValue) ==
    /\ deposits' = [deposits EXCEPT ![d] = newValue]
    /\ depositSnapshots' = [depositSnapshots EXCEPT ![d] =
            IF newValue = 0 THEN noSnapshot
            ELSE [S |-> epochToScaleToSum[here], P |-> P, G |-> epochToScaleToG'[here],
                  scale |-> currentScale, epoch |-> currentEpoch]]

\* To the depositor, or through BorrowerOperations to the depositor's trove.
_sendWSTETHGain(d) ==
    /\ getDepositorWSTETHGain(d) <= WSTETH
    /\ WSTETH' = WSTETH - getDepositorWSTETHGain(d)

\* The loss is only logged, but its subtraction is checked.
_SIMLossComputable(d) == getCompoundedSIMDeposit(d) <= deposits[d]

provideToSP(d, amount) ==
    /\ amount > 0
    /\ totalSIMDeposits + amount <= MaxDeposits
    /\ _SIMLossComputable(d)
    /\ _triggerSHADYIssuance
    /\ _payOutSHADYGains(d)
    /\ totalSIMDeposits' = totalSIMDeposits + amount
    /\ _updateDepositAndSnapshots(d, getCompoundedSIMDeposit(d) + amount)
    /\ _sendWSTETHGain(d)
    /\ UNCHANGED <<productVars, offsets, now>>

withdrawFromSP(d, amount) ==
    LET SIMtoWithdraw == _min(amount, getCompoundedSIMDeposit(d))
    IN  /\ deposits[d] > 0
        /\ _SIMLossComputable(d)
        /\ SIMtoWithdraw <= totalSIMDeposits
        /\ _triggerSHADYIssuance
        /\ _payOutSHADYGains(d)
        /\ totalSIMDeposits' = totalSIMDeposits - SIMtoWithdraw
        /\ _updateDepositAndSnapshots(d, getCompoundedSIMDeposit(d) - SIMtoWithdraw)
        /\ _sendWSTETHGain(d)
        /\ UNCHANGED <<productVars, offsets, now>>

withdrawWSTETHGainToTrove(d) ==
    /\ deposits[d] > 0
    /\ getDepositorWSTETHGain(d) > 0
    /\ _SIMLossComputable(d)
    /\ _triggerSHADYIssuance
    /\ _payOutSHADYGains(d)
    /\ _updateDepositAndSnapshots(d, getCompoundedSIMDeposit(d))
    /\ _sendWSTETHGain(d)
    /\ UNCHANGED <<productVars, totalSIMDeposits, offsets, now>>

-----------------------------------------------------------------------------
(* Offsets.                                                                *)

\* Loss and gain per unit of deposit, and the rounding errors carried over.
_SIMLossNumerator(debt) == debt * DECIMAL_PRECISION - lastSIMLossError_Offset

\* Variant: emptying the pool is no case of its own.
_SIMLossPerUnitStaked_noCase(debt) == _SIMLossNumerator(debt) \div totalSIMDeposits + 1

\* One is added so that deposits lose slightly too much.
_SIMLossPerUnitStaked(debt) ==
    IF debt = totalSIMDeposits THEN DECIMAL_PRECISION
    ELSE _SIMLossNumerator(debt) \div totalSIMDeposits + 1

_SIMLossError(debt) ==
    IF debt = totalSIMDeposits THEN 0
    ELSE _SIMLossPerUnitStaked(debt) * totalSIMDeposits - _SIMLossNumerator(debt)

_WSTETHNumerator(coll) == coll * DECIMAL_PRECISION + lastWSTETHError_Offset

newProductFactor(debt) == DECIMAL_PRECISION - _SIMLossPerUnitStaked(debt)

_multipliedP(debt) == (P * newProductFactor(debt)) \div DECIMAL_PRECISION

newP(debt) ==
    IF newProductFactor(debt) = 0 THEN DECIMAL_PRECISION
    ELSE IF _multipliedP(debt) < SCALE_FACTOR
         THEN (P * newProductFactor(debt) * SCALE_FACTOR) \div DECIMAL_PRECISION
         ELSE _multipliedP(debt)

\* The checked subtractions and the assertions an offset of debt runs into.
_offsetGoesThrough(debt) ==
    /\ debt # totalSIMDeposits => 0 <= _SIMLossNumerator(debt)
    /\ _SIMLossPerUnitStaked(debt) <= DECIMAL_PRECISION
    /\ newP(debt) > 0

\* Variant: the sum is updated with the new product.
_updateRewardSumAndProduct_productFirst(debt, coll) ==
    /\ epochToScaleToSum' = [epochToScaleToSum EXCEPT
            ![here] = @ + (_WSTETHNumerator(coll) \div totalSIMDeposits) * newP(debt)]
    /\ P' = newP(debt)
    /\ currentEpoch' = currentEpoch + (IF newProductFactor(debt) = 0 THEN 1 ELSE 0)
    /\ currentScale' = IF newProductFactor(debt) = 0 THEN 0
                       ELSE IF _multipliedP(debt) < SCALE_FACTOR THEN currentScale + 1
                       ELSE currentScale

_updateRewardSumAndProduct(debt, coll) ==
    /\ epochToScaleToSum' = [epochToScaleToSum EXCEPT
            ![here] = @ + (_WSTETHNumerator(coll) \div totalSIMDeposits) * P]
    /\ P' = newP(debt)
    /\ currentEpoch' = currentEpoch + (IF newProductFactor(debt) = 0 THEN 1 ELSE 0)
    /\ currentScale' = IF newProductFactor(debt) = 0 THEN 0
                       ELSE IF _multipliedP(debt) < SCALE_FACTOR THEN currentScale + 1
                       ELSE currentScale

\* Called by TroveManager.  An offset of nothing, or by an empty pool, returns at once.
offset(debt, coll) ==
    /\ offsets < MaxOffsets
    /\ 0 < debt /\ debt <= totalSIMDeposits
    /\ _offsetGoesThrough(debt)
    /\ _triggerSHADYIssuance
    /\ lastSIMLossError_Offset' = _SIMLossError(debt)
    /\ lastWSTETHError_Offset' = _WSTETHNumerator(coll) % totalSIMDeposits
    /\ _updateRewardSumAndProduct(debt, coll)
    /\ totalSIMDeposits' = totalSIMDeposits - debt
    /\ WSTETH' = WSTETH + coll
    /\ offsets' = offsets + 1
    /\ UNCHANGED <<deposits, depositSnapshots, SHADYBalance, now>>

TimePasses ==
    /\ now < MaxTime
    /\ now' = now + 1
    /\ UNCHANGED <<productVars, epochToScaleToG, lastSHADYError, deposits, depositSnapshots,
                   totalSIMDeposits, WSTETH, offsets, totalSHADYIssued, SHADYBalance>>

-----------------------------------------------------------------------------
Init ==
    /\ P = DECIMAL_PRECISION /\ currentScale = 0 /\ currentEpoch = 0
    /\ epochToScaleToSum = [p \in Places |-> 0]
    /\ epochToScaleToG = [p \in Places |-> 0]
    /\ lastSHADYError = 0 /\ lastWSTETHError_Offset = 0 /\ lastSIMLossError_Offset = 0
    /\ deposits = [d \in Depositors |-> 0]
    /\ depositSnapshots = [d \in Depositors |-> noSnapshot]
    /\ totalSIMDeposits = 0 /\ WSTETH = 0 /\ offsets = 0
    /\ IssuanceInit

Next ==
    \/ \E d \in Depositors, amount \in Amounts : provideToSP(d, amount)
    \/ \E d \in Depositors, amount \in Amounts \cup {0} : withdrawFromSP(d, amount)
    \/ \E d \in Depositors : withdrawWSTETHGainToTrove(d)
    \/ \E debt \in 1..MaxDeposits, coll \in Colls : offset(debt, coll)
    \/ TimePasses

Spec == Init /\ [][Next]_vars

-----------------------------------------------------------------------------
Snapshots == [S : Nat, P : Nat, G : Nat, scale : 0..MaxOffsets, epoch : 0..MaxOffsets]

\* Everything is in range: no checked subtraction went below zero, P is a positive
\* decimal of at most 1, and whoever has a deposit has a snapshot to divide by.
TypeOK ==
    /\ P \in 1..DECIMAL_PRECISION
    /\ currentScale \in 0..MaxOffsets /\ currentEpoch \in 0..MaxOffsets
    /\ epochToScaleToSum \in [Places -> Nat] /\ epochToScaleToG \in [Places -> Nat]
    /\ lastSHADYError \in Nat /\ lastWSTETHError_Offset \in Nat
    /\ lastSIMLossError_Offset \in Nat
    /\ deposits \in [Depositors -> 0..MaxDeposits]
    /\ depositSnapshots \in [Depositors -> Snapshots]
    /\ \A d \in Depositors : deposits[d] > 0 => depositSnapshots[d].P > 0
    /\ totalSIMDeposits \in 0..MaxDeposits
    /\ WSTETH \in Nat /\ offsets \in 0..MaxOffsets
    /\ now \in 0..MaxTime /\ totalSHADYIssued \in 0..SHADYSupplyCap
    /\ SHADYBalance \in 0..SHADYSupplyCap

_sumOver(f(_)) == MapThenSumSet(f, Depositors)

\* The depositors can all withdraw, in any order: what the product says of their
\* deposits (getCompoundedSIMDeposit) is in the pool, up to the error of a loss, which
\* is less than one unit of SIM for every DECIMAL_PRECISION units the pool ever held.
DepositsBacked ==
    _sumOver(getCompoundedSIMDeposit)
        <= totalSIMDeposits + (MaxDeposits - 1) \div DECIMAL_PRECISION

\* The collateral the sums promise to depositors (getDepositorWSTETHGain) is in the
\* pool, across scales and epochs: no payment makes a deposit or withdrawal revert.
GainsBacked == _sumOver(getDepositorWSTETHGain) <= WSTETH

\* The SHADY promised to depositors was issued and has not left: sendSHADY's
\* requirement never stops an operation.
SHADYBacked ==
    LET gain(d) == getDepositorSHADYGain(d, epochToScaleToG)
    IN  _sumOver(gain) <= SHADYBalance - (SHADYSupplyCap - totalSHADYIssued)

\* The debt of a trove, which has a minimum, is more than the pool can hold once it is multiplied
\* by the precision.
_sizeable(debt) == MaxDeposits <= debt * DECIMAL_PRECISION

\* No liquidation is stopped by the pool's own arithmetic as long as the product P has not fallen
\* below the scale factor: whatever part of the deposits is offset next, the loss carried over
\* from the last offset does not underflow and no assertion of offset fails.  Below the scale factor
\* one change of scale need not be enough, and assert(newP > 0) can fail.
OffsetNeverReverts ==
    P >= SCALE_FACTOR => \A debt \in 1..totalSIMDeposits : _sizeable(debt) => _offsetGoesThrough(debt)

\* The rounded powers of _decPow fall with time, so that issueSHADY never underflows.
IssuanceAdvances == issuance >= 0

\* Whatever the pool promises to pay out is there, and the state stays in its types (no amount
\* underflows).
PayoutsBacked == TypeOK /\ GainsBacked /\ SHADYBacked /\ IssuanceAdvances

\* An offset is shared out: a deposit loses its part of the debt and earns its part of
\* the collateral, both as if computed at once for its value before the offset, up to
\* the rounding of that value and of the result.
OffsetIsShared ==
    [][offsets' # offsets =>
        \A d \in Depositors :
            LET debt == totalSIMDeposits - totalSIMDeposits'
                coll == WSTETH' - WSTETH
                before == getCompoundedSIMDeposit(d)
                loss == before - getCompoundedSIMDeposit(d)'
                gain == getDepositorWSTETHGain(d)' - getDepositorWSTETHGain(d)
            IN  /\ debt * before - totalSIMDeposits <= totalSIMDeposits * loss
                /\ totalSIMDeposits * loss <= debt * before + totalSIMDeposits
                /\ coll * before - totalSIMDeposits <= totalSIMDeposits * gain
                /\ totalSIMDeposits * gain <= coll * (before + 1) + totalSIMDeposits]_vars
=============================================================================
