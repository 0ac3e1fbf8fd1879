---------------------------- MODULE TroveManager ----------------------------
(***************************************************************************)
(* TroveManager.sol: the troves, the rewards that redistribution leaves    *)
(* pending on them, liquidation and redemption.                            *)
(*                                                                         *)
(* A transaction runs alone.  Operations without a loop are one step; the  *)
(* liquidation and redemption loops take one step per trove and one to     *)
(* settle, with the local variables of the Solidity functions in tx, so    *)
(* that what each iteration sees of the ones before it is explicit.  A     *)
(* require that fails after such a transaction has changed state rolls it  *)
(* back (Revert); one that fails before is a guard.                        *)
(*                                                                         *)
(* The list of SortedTroves is the sequence its specification SortedList   *)
(* promises: sortedTroves[1] has the largest ratio, and an insertion may   *)
(* land at any position whose neighbours bracket the new ratio.            *)
(***************************************************************************)
EXTENDS Pools, Sequences, SequencesExt

CONSTANTS NULL,                 \* address(0)
          DecayFactor(_),       \* _decPow(MINUTE_DECAY_FACTOR, minutes)
          BOOTSTRAP_PERIOD      \* minutes after deployment, at time 0

VARIABLES Troves, rewardSnapshots, TroveOwners, sortedTroves,
          totalStakes, totalStakesSnapshot, totalCollateralSnapshot,
          L,                    \* L_WSTETH and L_SIMDebt
          lastError,            \* last*Error_Redistribution
          baseRate, lastFeeOperationTime,
          price,                \* what priceFeed.fetchPrice returns
          now,                  \* block.timestamp, in minutes
          tx                    \* the running liquidation or redemption

ledgerVars == <<totalStakesSnapshot, totalCollateralSnapshot, L, lastError>>
rateVars == <<baseRate, lastFeeOperationTime>>
troveVars == <<Troves, rewardSnapshots, TroveOwners, sortedTroves, totalStakes>>

Statuses == {"nonExistent", "active", "closedByOwner", "closedByLiquidation",
             "closedByRedemption"}
zeroPair == [WSTETH |-> 0, SIMDebt |-> 0]
idle == [at |-> "idle"]

isActive(b) == Troves[b].status = "active"

-----------------------------------------------------------------------------
(* Pending rewards and ratios.                                             *)

_pendingReward(b, asset) ==
    IF isActive(b)
    THEN (Troves[b].stake * (L[asset] - rewardSnapshots[b][asset])) \div DECIMAL_PRECISION
    ELSE 0

hasPendingRewards(b) == isActive(b) /\ rewardSnapshots[b].WSTETH < L.WSTETH

getEntireDebtAndColl(b) ==
    [debt |-> Troves[b].debt + _pendingReward(b, "SIMDebt"),
     coll |-> Troves[b].coll + _pendingReward(b, "WSTETH")]

getNominalICR(b) ==
    _computeNominalCR(getEntireDebtAndColl(b).coll, getEntireDebtAndColl(b).debt)

getCurrentICR(b) ==
    _computeCR(getEntireDebtAndColl(b).coll, getEntireDebtAndColl(b).debt, price)

\* What _applyPendingRewards adds to the trove; nothing unless hasPendingRewards.
_appliedReward(b, asset) == IF hasPendingRewards(b) THEN _pendingReward(b, asset) ELSE 0

\* Variant: _updateTroveRewardSnapshots is forgotten.
_snapshotsAfterApply_stale(b) == rewardSnapshots

_snapshotsAfterApply(b) ==
    IF hasPendingRewards(b) THEN [rewardSnapshots EXCEPT ![b] = L] ELSE rewardSnapshots

\* Variant: only one of the two pools hears of the move.
_debtAfterMove_oneSided(SIM) == changeSIMDebt(SIMDebt, "defaultPool", -SIM)

\* _movePendingTroveRewardsToActivePool, on the debt and on the collateral side.
_debtAfterMove(SIM) ==
    changeSIMDebt(changeSIMDebt(SIMDebt, "defaultPool", -SIM), "activePool", SIM)
_fundsAfterMove(WSTETH) == sendWSTETHToActivePool(funds, WSTETH)

-----------------------------------------------------------------------------
(* Stakes, owners and the sorted list.                                     *)

_computeNewStake(coll) ==
    IF totalCollateralSnapshot > 0
    THEN (coll * totalStakesSnapshot) \div totalCollateralSnapshot
    ELSE coll

\* The assertion in _computeNewStake.
_stakeComputable == totalCollateralSnapshot > 0 => totalStakesSnapshot > 0

\* The lists an insertion with ratio NICR and some hint can lead to; none if the
\* ratio is zero.
_inserted(list, id, NICR) ==
    {InsertAt(list, k + 1, id) : k \in
        {k \in 0..Len(list) : /\ NICR > 0
                              /\ k >= 1 => getNominalICR(list[k]) >= NICR
                              /\ k < Len(list) => NICR >= getNominalICR(list[k + 1])}}

\* The neighbour on the side of the larger ratios.
_getPrev(b) ==
    LET k == CHOOSE k \in DOMAIN sortedTroves : sortedTroves[k] = b
    IN IF k = 1 THEN NULL ELSE sortedTroves[k - 1]

\* Variant: the index of the owner that moved is not corrected.
_closed_keepsIndex(b, status) ==
    [Troves EXCEPT ![b] = [debt |-> 0, coll |-> 0, stake |-> 0, status |-> status,
                           arrayIndex |-> Troves[b].arrayIndex]]

\* The troves after _removeStake and _closeTrove; _removeTroveOwner moves the last
\* owner into the freed place of the array and corrects its index.
_closed(b, status) ==
    LET moved == Last(TroveOwners)
        index == Troves[b].arrayIndex
        t == [Troves EXCEPT ![b] = [debt |-> 0, coll |-> 0, stake |-> 0,
                                    status |-> status, arrayIndex |-> index]]
    IN [t EXCEPT ![moved].arrayIndex = index]

_closeTrove(b, status) ==
    /\ Troves' = _closed(b, status)
    /\ TroveOwners' = Front([TroveOwners EXCEPT ![Troves[b].arrayIndex + 1] = Last(TroveOwners)])
    /\ totalStakes' = totalStakes - Troves[b].stake
    /\ rewardSnapshots' = [rewardSnapshots EXCEPT ![b] = zeroPair]
    /\ sortedTroves' = RemoveFirst(sortedTroves, b)

\* Variant: off by one.
_moreThanOneTroveInSystem_orOne == Len(TroveOwners) >= 1 /\ Len(sortedTroves) >= 1

_moreThanOneTroveInSystem == Len(TroveOwners) > 1 /\ Len(sortedTroves) > 1

-----------------------------------------------------------------------------
(* The base rate.                                                          *)

_calcDecayedBaseRate ==
    (baseRate * DecayFactor(now - lastFeeOperationTime)) \div DECIMAL_PRECISION

_updateBaseRate(rate) ==
    /\ baseRate' = rate
    /\ lastFeeOperationTime' = now      \* same minute: no change

-----------------------------------------------------------------------------
(* Liquidation values of one trove.                                        *)

zeroVals == [debt |-> 0, coll |-> 0, gas |-> 0, debtToOffset |-> 0, collToSendToSP |-> 0,
             debtToRedistribute |-> 0, collToRedistribute |-> 0, collSurplus |-> 0]

\* _getOffsetAndRedistributionVals: SIM of the stability pool offsets what it can.
_offsetAndRedistribute(e, SIMInStabPool) ==
    LET gas == _getCollGasCompensation(e.coll)
        coll == e.coll - gas
        offset == _min(e.debt, SIMInStabPool)
        toSP == IF SIMInStabPool > 0 THEN (coll * offset) \div e.debt ELSE 0
    IN [zeroVals EXCEPT !.debt = e.debt, !.coll = e.coll, !.gas = gas,
            !.debtToOffset = offset, !.collToSendToSP = toSP,
            !.debtToRedistribute = e.debt - offset, !.collToRedistribute = coll - toSP]

\* Variant: the pool takes 150% of the debt.
_cappedOffset_CCR(e) ==
    LET capped == (e.debt * CCR) \div price
        gas == _getCollGasCompensation(capped)
    IN [zeroVals EXCEPT !.debt = e.debt, !.coll = e.coll, !.gas = gas,
            !.debtToOffset = e.debt, !.collToSendToSP = capped - gas,
            !.collSurplus = e.coll - capped]

\* _getCappedOffsetVals: the pool takes 110% of the debt, the rest is the owner's.
_cappedOffset(e) ==
    LET capped == (e.debt * MCR) \div price
        gas == _getCollGasCompensation(capped)
    IN [zeroVals EXCEPT !.debt = e.debt, !.coll = e.coll, !.gas = gas,
            !.debtToOffset = e.debt, !.collToSendToSP = capped - gas,
            !.collSurplus = e.coll - capped]

_normalModeVals(b, SIMInStabPool) == _offsetAndRedistribute(getEntireDebtAndColl(b), SIMInStabPool)

_recoveryModeVals(b, SIMInStabPool, TCR) ==
    LET e == getEntireDebtAndColl(b)
        ICR == getCurrentICR(b)
    IN CASE Len(TroveOwners) <= 1 -> zeroVals
         [] Len(TroveOwners) > 1 /\ ICR <= DECIMAL_PRECISION -> _offsetAndRedistribute(e, 0)
         [] Len(TroveOwners) > 1 /\ DECIMAL_PRECISION < ICR /\ ICR < MCR ->
                _offsetAndRedistribute(e, SIMInStabPool)
         [] Len(TroveOwners) > 1 /\ ICR >= MCR /\ ICR < TCR /\ e.debt <= SIMInStabPool ->
                _cappedOffset(e)
         [] OTHER -> zeroVals

_addLiquidationValuesToTotals(t, v) ==
    [debt |-> t.debt + v.debt, coll |-> t.coll + v.coll, gas |-> t.gas + v.gas,
     debtToOffset |-> t.debtToOffset + v.debtToOffset,
     collToSendToSP |-> t.collToSendToSP + v.collToSendToSP,
     debtToRedistribute |-> t.debtToRedistribute + v.debtToRedistribute,
     collToRedistribute |-> t.collToRedistribute + v.collToRedistribute,
     collSurplus |-> t.collSurplus + v.collSurplus]

-----------------------------------------------------------------------------
(* The liquidation loops.                                                  *)

\* What a failing require restores; nothing else changes before a transaction settles.
Checkpoint == [Troves |-> Troves, rewardSnapshots |-> rewardSnapshots,
               TroveOwners |-> TroveOwners, sortedTroves |-> sortedTroves,
               totalStakes |-> totalStakes, funds |-> funds, SIMDebt |-> SIMDebt,
               surplus |-> surplus]

Revert ==
    /\ Troves' = tx.pre.Troves
    /\ rewardSnapshots' = tx.pre.rewardSnapshots
    /\ TroveOwners' = tx.pre.TroveOwners
    /\ sortedTroves' = tx.pre.sortedTroves
    /\ totalStakes' = tx.pre.totalStakes
    /\ funds' = tx.pre.funds
    /\ SIMDebt' = tx.pre.SIMDebt
    /\ surplus' = tx.pre.surplus
    /\ tx' = idle
    /\ UNCHANGED <<totalSIMDeposits, simToken, ledgerVars, rateVars, price, now>>

getLast == IF sortedTroves = << >> THEN NULL ELSE Last(sortedTroves)
getFirst == IF sortedTroves = << >> THEN NULL ELSE Head(sortedTroves)

_startLiquidation(caller, loop, troveArray, n) ==
    /\ tx = idle
    /\ tx' = [at |-> loop, caller |-> caller, troveArray |-> troveArray, n |-> n,
              user |-> getLast, firstUser |-> getFirst,
              remainingSIM |-> totalSIMDeposits, entireSystemDebt |-> getEntireSystemDebt,
              entireSystemColl |-> getEntireSystemColl, backToNormalMode |-> FALSE,
              totals |-> zeroVals, pre |-> Checkpoint]
    /\ UNCHANGED <<poolVars, troveVars, ledgerVars, rateVars, price, now>>

liquidateTroves(caller, n) ==
    _startLiquidation(caller,
        IF _checkRecoveryMode(price) THEN "sequenceRecovery" ELSE "sequenceNormal", << >>, n)

\* Variant: the mode of the system is not looked at.
batchLiquidateTroves_normal(caller, troveArray) ==
    troveArray # << >> /\ _startLiquidation(caller, "batchNormal", troveArray, 0)

batchLiquidateTroves(caller, troveArray) ==
    /\ troveArray # << >>
    /\ _startLiquidation(caller,
           IF _checkRecoveryMode(price) THEN "batchRecovery" ELSE "batchNormal", troveArray, 0)

liquidate(caller, b) == isActive(b) /\ batchLiquidateTroves(caller, <<b>>)

\* Close trove b for the values v it was liquidated for and add them to the totals;
\* advance is the loop's own bookkeeping on the frame.
_liquidateTrove(b, v, advance) ==
    IF _moreThanOneTroveInSystem
    THEN /\ _closeTrove(b, "closedByLiquidation")
         /\ SIMDebt' = _debtAfterMove(_pendingReward(b, "SIMDebt"))
         /\ funds' = _fundsAfterMove(_pendingReward(b, "WSTETH"))
         /\ surplus' = [surplus EXCEPT ![b] = @ + v.collSurplus]
         /\ tx' = [advance EXCEPT !.remainingSIM = @ - v.debtToOffset,
                                  !.totals = _addLiquidationValuesToTotals(@, v)]
         /\ UNCHANGED <<totalSIMDeposits, simToken, ledgerVars, rateVars, price, now>>
    ELSE Revert

_goOn(frame) ==
    /\ tx' = frame
    /\ UNCHANGED <<poolVars, troveVars, ledgerVars, rateVars, price, now>>

\* An iteration in normal mode: no check for the last trove before _closeTrove's.
_iterateNormal(b, advance) ==
    _liquidateTrove(b, _normalModeVals(b, tx.remainingSIM), advance)

\* An iteration in recovery mode; the running system totals say when it is over.
_iterateRecovery(b, advance) ==
    LET TCR == _computeCR(tx.entireSystemColl, tx.entireSystemDebt, price)
        v == _recoveryModeVals(b, tx.remainingSIM, TCR)
        debt == tx.entireSystemDebt - v.debtToOffset
        coll == tx.entireSystemColl - v.collToSendToSP - v.gas - v.collSurplus
        frame == [advance EXCEPT !.entireSystemDebt = debt, !.entireSystemColl = coll,
                      !.backToNormalMode = ~_checkPotentialRecoveryMode(coll, debt, price)]
    IN IF v = zeroVals THEN _goOn(frame) ELSE _liquidateTrove(b, v, frame)

\* Variant: the loop does not end.
_break_never == _goOn(tx)

_break == _goOn([tx EXCEPT !.at = "settle"])

\* One iteration of _getTotalsFromLiquidateTrovesSequence_NormalMode.
SequenceNormalMode ==
    /\ tx.at = "sequenceNormal"
    /\ IF tx.n > 0 /\ getLast # NULL /\ getCurrentICR(getLast) < MCR
       THEN _iterateNormal(getLast, [tx EXCEPT !.n = @ - 1])
       ELSE _break

\* One iteration of _getTotalsFromLiquidateTrovesSequence_RecoveryMode.
SequenceRecoveryMode ==
    /\ tx.at = "sequenceRecovery"
    /\ IF tx.n > 0 /\ tx.user # tx.firstUser
       THEN LET ICR == getCurrentICR(tx.user)
                advance == [tx EXCEPT !.n = @ - 1, !.user = _getPrev(tx.user)]
            IN CASE ~tx.backToNormalMode /\ ~(ICR >= MCR /\ tx.remainingSIM = 0) ->
                        _iterateRecovery(tx.user, advance)
                 [] tx.backToNormalMode /\ ICR < MCR -> _iterateNormal(tx.user, advance)
                 [] OTHER -> _break
       ELSE _break

\* One iteration of _getTotalsFromBatchLiquidate_NormalMode.
BatchNormalMode ==
    /\ tx.at = "batchNormal"
    /\ IF tx.troveArray # << >>
       THEN LET b == Head(tx.troveArray)
                advance == [tx EXCEPT !.troveArray = Tail(@)]
            IN IF getCurrentICR(b) < MCR THEN _iterateNormal(b, advance) ELSE _goOn(advance)
       ELSE _break

\* One iteration of _getTotalFromBatchLiquidate_RecoveryMode.
BatchRecoveryMode ==
    /\ tx.at = "batchRecovery"
    /\ IF tx.troveArray # << >>
       THEN LET b == Head(tx.troveArray)
                ICR == getCurrentICR(b)
                advance == [tx EXCEPT !.troveArray = Tail(@)]
            IN CASE /\ isActive(b) /\ ~tx.backToNormalMode
                    /\ ~(ICR >= MCR /\ tx.remainingSIM = 0) -> _iterateRecovery(b, advance)
                 [] isActive(b) /\ tx.backToNormalMode /\ ICR < MCR -> _iterateNormal(b, advance)
                 [] OTHER -> _goOn(advance)
       ELSE _break

-----------------------------------------------------------------------------
(* The end of a liquidation: pools, redistribution, snapshots, gas.        *)

\* StabilityPool.offset does nothing with an empty pool or nothing to offset.
_offsets == totalSIMDeposits > 0 /\ tx.totals.debtToOffset > 0

_fundsAfterOffset ==
    IF _offsets THEN sendWSTETH(funds, "stabilityPool", tx.totals.collToSendToSP) ELSE funds
_fundsAfterRedistribution ==
    IF tx.totals.debtToRedistribute > 0
    THEN sendWSTETH(_fundsAfterOffset, "defaultPool", tx.totals.collToRedistribute)
    ELSE _fundsAfterOffset
\* Variant: the surplus stays in the active pool.
_fundsAfterSurplus_unsent == _fundsAfterRedistribution

_fundsAfterSurplus ==
    sendWSTETH(_fundsAfterRedistribution, "collSurplusPool", tx.totals.collSurplus)

_offsetDebt == IF _offsets THEN tx.totals.debtToOffset ELSE 0
_debtAfterSettling ==
    changeSIMDebt(changeSIMDebt(SIMDebt, "activePool",
                                -_offsetDebt - tx.totals.debtToRedistribute),
                  "defaultPool", tx.totals.debtToRedistribute)

\* The error of the last division is fed back into the numerators of this one.
_redistributeDebtAndColl ==
    LET WSTETH == tx.totals.collToRedistribute * DECIMAL_PRECISION + lastError.WSTETH
        SIM == tx.totals.debtToRedistribute * DECIMAL_PRECISION + lastError.SIMDebt
    IN IF tx.totals.debtToRedistribute > 0
       THEN /\ L' = [WSTETH |-> L.WSTETH + WSTETH \div totalStakes,
                     SIMDebt |-> L.SIMDebt + SIM \div totalStakes]
            /\ lastError' = [WSTETH |-> WSTETH % totalStakes, SIMDebt |-> SIM % totalStakes]
       ELSE UNCHANGED <<L, lastError>>

_updateSystemSnapshots_excludeCollRemainder ==
    /\ totalStakesSnapshot' = totalStakes
    /\ totalCollateralSnapshot' = _fundsAfterSurplus.counter["activePool"] - tx.totals.gas
                                    + _fundsAfterSurplus.counter["defaultPool"]

LiquidationSettles ==
    /\ tx.at = "settle"
    /\ IF tx.totals.debt > 0 /\ (tx.totals.debtToRedistribute > 0 => totalStakes > 0)
       THEN /\ totalSIMDeposits' = totalSIMDeposits - _offsetDebt
            /\ simToken' = burn(simToken, "stabilityPool", _offsetDebt)
            /\ SIMDebt' = _debtAfterSettling
            /\ funds' = sendWSTETH(_fundsAfterSurplus, tx.caller, tx.totals.gas)
            /\ _redistributeDebtAndColl
            /\ _updateSystemSnapshots_excludeCollRemainder
            /\ tx' = idle
            /\ UNCHANGED <<surplus, troveVars, rateVars, price, now>>
       ELSE Revert

-----------------------------------------------------------------------------
(* Redemption.                                                             *)

\* Variant: a hint below MCR is accepted.
_isValidFirstRedemptionHint_any(hint) ==
    \E k \in DOMAIN sortedTroves :
        /\ sortedTroves[k] = hint
        /\ k < Len(sortedTroves) => getCurrentICR(sortedTroves[k + 1]) < MCR

_isValidFirstRedemptionHint(hint) ==
    \E k \in DOMAIN sortedTroves :
        /\ sortedTroves[k] = hint
        /\ getCurrentICR(hint) >= MCR
        /\ k < Len(sortedTroves) => getCurrentICR(sortedTroves[k + 1]) < MCR

\* The first trove from the end of the list with ICR >= MCR.
_firstRedeemable ==
    LET isFirst(k) == /\ getCurrentICR(sortedTroves[k]) >= MCR
                      /\ \A j \in k + 1..Len(sortedTroves) : getCurrentICR(sortedTroves[j]) < MCR
    IN IF \E k \in DOMAIN sortedTroves : isFirst(k)
       THEN sortedTroves[CHOOSE k \in DOMAIN sortedTroves : isFirst(k)]
       ELSE NULL

redeemCollateral(caller, SIMamount, hint, maxIterations, maxFeePercentage) ==
    /\ tx = idle
    /\ _validMaxFeePercentage(maxFeePercentage, FALSE)
    /\ now >= BOOTSTRAP_PERIOD
    /\ _getTCR(price) >= MCR
    /\ SIMamount > 0
    /\ simToken.balances[caller] >= SIMamount
    /\ tx' = [at |-> "redeem", caller |-> caller, maxFee |-> maxFeePercentage,
              n |-> IF maxIterations = 0 THEN MAX_UINT ELSE maxIterations,
              user |-> IF _isValidFirstRedemptionHint(hint) THEN hint ELSE _firstRedeemable,
              totalSIMSupplyAtStart |-> getEntireSystemDebt, remainingSIM |-> SIMamount,
              SIMToRedeem |-> 0, WSTETHDrawn |-> 0, pre |-> Checkpoint]
    /\ UNCHANGED <<poolVars, troveVars, ledgerVars, rateVars, price, now>>

_redeems == tx.at = "redeem" /\ tx.user # NULL /\ tx.remainingSIM > 0 /\ tx.n > 0

_debtNow(b) == Troves[b].debt + _appliedReward(b, "SIMDebt")
_collNow(b) == Troves[b].coll + _appliedReward(b, "WSTETH")
_SIMLot == _min(tx.remainingSIM, _debtNow(tx.user))
_WSTETHLot == (_SIMLot * DECIMAL_PRECISION) \div price

\* Variant: what is left to redeem does not fall.
_drawn_again(next) ==
    [tx EXCEPT !.n = @ - 1, !.user = next, !.SIMToRedeem = @ + _SIMLot,
               !.WSTETHDrawn = @ + _WSTETHLot]

_drawn(next) ==
    [tx EXCEPT !.n = @ - 1, !.user = next, !.remainingSIM = @ - _SIMLot,
               !.SIMToRedeem = @ + _SIMLot, !.WSTETHDrawn = @ + _WSTETHLot]

\* The trove's whole debt is redeemed: it closes and the rest of its collateral is
\* the owner's to claim.
RedeemWholeTrove ==
    /\ _redeems
    /\ _SIMLot = _debtNow(tx.user)
    /\ LET left == _collNow(tx.user) - _WSTETHLot
       IN IF left >= 0 /\ _moreThanOneTroveInSystem
          THEN /\ _closeTrove(tx.user, "closedByRedemption")
               /\ SIMDebt' = _debtAfterMove(_appliedReward(tx.user, "SIMDebt"))
               /\ funds' = sendWSTETH(_fundsAfterMove(_appliedReward(tx.user, "WSTETH")),
                                      "collSurplusPool", left)
               /\ surplus' = [surplus EXCEPT ![tx.user] = @ + left]
               /\ tx' = _drawn(_getPrev(tx.user))
               /\ UNCHANGED <<totalSIMDeposits, simToken, ledgerVars, rateVars, price, now>>
          ELSE Revert

\* Variant: only the hint is looked at.
_cancelledPartial_hintOnly(hintIsCurrent, newDebt) == ~hintIsCurrent

\* The hint is stale, or the trove would be left with too little debt.
_cancelledPartial(hintIsCurrent, newDebt) == ~hintIsCurrent \/ newDebt < MIN_NET_DEBT

\* Part of the debt is redeemed.  The caller's _partialRedemptionHintNICR may or may
\* not be the trove's new ratio; if not, or if too little debt would be left, the
\* loop ends here, with the pending rewards applied.
RedeemPartOfTrove(hintIsCurrent) ==
    LET b == tx.user
        newDebt == _debtNow(b) - _SIMLot
        newColl == _collNow(b) - _WSTETHLot
        newNICR == _computeNominalCR(newColl, newDebt)
        cancelled == _cancelledPartial(hintIsCurrent, newDebt)
        stake == _computeNewStake(newColl)
    IN /\ _redeems
       /\ _SIMLot < _debtNow(b)
       /\ IF newColl >= 0 /\ (cancelled \/ newNICR > 0)
          THEN /\ SIMDebt' = _debtAfterMove(_appliedReward(b, "SIMDebt"))
               /\ funds' = _fundsAfterMove(_appliedReward(b, "WSTETH"))
               /\ rewardSnapshots' = _snapshotsAfterApply(b)
               /\ IF cancelled
                  THEN /\ Troves' = [Troves EXCEPT ![b].debt = _debtNow(b), ![b].coll = _collNow(b)]
                       /\ tx' = [tx EXCEPT !.at = "redeemed"]
                       /\ UNCHANGED <<sortedTroves, totalStakes>>
                  ELSE /\ sortedTroves' \in _inserted(RemoveFirst(sortedTroves, b), b, newNICR)
                       /\ Troves' = [Troves EXCEPT ![b].debt = newDebt, ![b].coll = newColl,
                                                   ![b].stake = stake]
                       /\ totalStakes' = totalStakes - Troves[b].stake + stake
                       /\ tx' = _drawn(_getPrev(b))
               /\ UNCHANGED <<TroveOwners, totalSIMDeposits, simToken, surplus,
                              ledgerVars, rateVars, price, now>>
          ELSE Revert

RedemptionLoopEnds ==
    /\ tx.at = "redeem"
    /\ ~_redeems
    /\ _goOn([tx EXCEPT !.at = "redeemed"])

\* _updateBaseRateFromRedemption.
_rateAfterRedemption ==
    _min(_calcDecayedBaseRate
            + ((tx.WSTETHDrawn * price) \div tx.totalSIMSupplyAtStart) \div BETA,
         DECIMAL_PRECISION)

RedemptionSettles ==
    LET fee == _calcRedemptionFee(_rateAfterRedemption, tx.WSTETHDrawn)
    IN /\ tx.at = "redeemed"
       /\ IF /\ tx.WSTETHDrawn > 0
             /\ tx.totalSIMSupplyAtStart > 0
             /\ _rateAfterRedemption > 0
             /\ fee < tx.WSTETHDrawn
             /\ _userAcceptsFee(fee, tx.WSTETHDrawn, tx.maxFee)
          THEN /\ _updateBaseRate(_rateAfterRedemption)
               /\ funds' = sendWSTETH(sendWSTETH(funds, "wstETHVeDistributor", fee),
                                      tx.caller, tx.WSTETHDrawn - fee)
               /\ simToken' = burn(simToken, tx.caller, tx.SIMToRedeem)
               /\ SIMDebt' = changeSIMDebt(SIMDebt, "activePool", -tx.SIMToRedeem)
               /\ tx' = idle
               /\ UNCHANGED <<surplus, totalSIMDeposits, troveVars, ledgerVars, price, now>>
          ELSE Revert

-----------------------------------------------------------------------------
TroveManagerInit ==
    /\ Troves = [b \in Accounts |-> [debt |-> 0, coll |-> 0, stake |-> 0,
                                     status |-> "nonExistent", arrayIndex |-> 0]]
    /\ rewardSnapshots = [b \in Accounts |-> zeroPair]
    /\ TroveOwners = << >>
    /\ sortedTroves = << >>
    /\ totalStakes = 0
    /\ totalStakesSnapshot = 0
    /\ totalCollateralSnapshot = 0
    /\ L = zeroPair
    /\ lastError = zeroPair
    /\ baseRate = 0
    /\ lastFeeOperationTime = 0
    /\ now = 0
    /\ tx = idle

\* The steps of a transaction under way.
Step ==
    \/ SequenceNormalMode
    \/ SequenceRecoveryMode
    \/ BatchNormalMode
    \/ BatchRecoveryMode
    \/ LiquidationSettles
    \/ RedeemWholeTrove
    \/ \E hintIsCurrent \in BOOLEAN : RedeemPartOfTrove(hintIsCurrent)
    \/ RedemptionLoopEnds
    \/ RedemptionSettles
=============================================================================
