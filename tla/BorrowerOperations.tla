------------------------- MODULE BorrowerOperations -------------------------
(***************************************************************************)
(* BorrowerOperations.sol: opening, adjusting and closing troves, and the  *)
(* depositor's side of StabilityPool.sol as far as it moves SIM and wstETH *)
(* (how a deposit is diluted and which gain it earns is not in this        *)
(* module: the gain is any amount the pool holds).                         *)
(***************************************************************************)
EXTENDS TroveManager

\* _triggerBorrowingFee: the base rate decays first; half of the fee is minted to the
\* VeDistributor, the rest to the fee receiver.
_borrowingFee(SIMAmount) == _calcBorrowingFee(_calcDecayedBaseRate, SIMAmount)

_mintFee(s, fee) ==
    mint(mint(s, "simVeDistributor", fee \div 2), "feeReceiver", fee - fee \div 2)

_chargeFee(charged) ==
    IF charged THEN _updateBaseRate(_calcDecayedBaseRate) ELSE UNCHANGED rateVars

\* _getNewTCRFromTroveChange.
_newTCR(collChange, debtChange) ==
    _computeCR(getEntireSystemColl + collChange, getEntireSystemDebt + debtChange, price)

-----------------------------------------------------------------------------
openTrove(b, amount, maxFeePercentage, SIMAmount) ==
    LET isRecoveryMode == _checkRecoveryMode(price)
        fee == IF isRecoveryMode THEN 0 ELSE _borrowingFee(SIMAmount)
        netDebt == SIMAmount + fee
        ICR == _computeCR(amount, netDebt, price)
        coll == Troves[b].coll + amount
        stake == _computeNewStake(coll)
    IN /\ tx = idle
       /\ funds.balance[b] >= amount
       /\ _validMaxFeePercentage(maxFeePercentage, isRecoveryMode)
       /\ ~isActive(b)
       /\ ~isRecoveryMode => _userAcceptsFee(fee, SIMAmount, maxFeePercentage)
       /\ netDebt >= MIN_NET_DEBT
       /\ IF isRecoveryMode THEN ICR >= CCR
                            ELSE ICR >= MCR /\ _newTCR(amount, netDebt) >= CCR
       /\ _stakeComputable
       /\ Troves' = [Troves EXCEPT ![b] =
                        [debt |-> Troves[b].debt + netDebt, coll |-> coll, stake |-> stake,
                         status |-> "active", arrayIndex |-> Len(TroveOwners)]]
       /\ rewardSnapshots' = [rewardSnapshots EXCEPT ![b] = L]
       /\ totalStakes' = totalStakes - Troves[b].stake + stake
       /\ sortedTroves' \in _inserted(sortedTroves, b, _computeNominalCR(amount, netDebt))
       /\ TroveOwners' = Append(TroveOwners, b)
       /\ funds' = _activePoolAddColl(funds, b, amount)
       /\ SIMDebt' = changeSIMDebt(SIMDebt, "activePool", netDebt)
       /\ simToken' = mint(_mintFee(simToken, fee), b, SIMAmount)
       /\ _chargeFee(~isRecoveryMode)
       /\ UNCHANGED <<surplus, totalSIMDeposits, ledgerVars, price, now, tx>>

\* Variant: in normal mode the total ratio is not looked at.
_validAdjustment_ICROnly(isRecoveryMode, collWithdrawal, isDebtIncrease, oldICR, newICR, newTCR) ==
    IF isRecoveryMode
    THEN /\ collWithdrawal = 0
         /\ isDebtIncrease => newICR >= CCR /\ newICR >= oldICR
    ELSE newICR >= MCR

\* _requireValidAdjustmentInCurrentMode.
_validAdjustmentInCurrentMode(isRecoveryMode, collWithdrawal, isDebtIncrease, oldICR, newICR, newTCR) ==
    IF isRecoveryMode
    THEN /\ collWithdrawal = 0
         /\ isDebtIncrease => newICR >= CCR /\ newICR >= oldICR
    ELSE newICR >= MCR /\ newTCR >= CCR

\* _requireAtLeastMinNetDebt and _requireSufficientSIMBalance of a repayment.
_validRepayment(b, newDebt, SIMChange) ==
    newDebt >= MIN_NET_DEBT /\ simToken.balances[b] >= SIMChange

\* collReceived came in from source: the borrower, or the stability pool moving a
\* depositor's gain, in which case its counter has fallen already (f).
_adjustTrove(b, f, source, collReceived, collWithdrawal, SIMChange, isDebtIncrease, maxFeePercentage) ==
    LET isRecoveryMode == _checkRecoveryMode(price)
        charged == isDebtIncrease /\ ~isRecoveryMode
        fee == IF charged THEN _borrowingFee(SIMChange) ELSE 0
        debtChange == IF isDebtIncrease THEN SIMChange + fee ELSE -SIMChange
        collChange == IF collReceived # 0 THEN collReceived ELSE -collWithdrawal
        newColl == _collNow(b) + collChange
        newDebt == _debtNow(b) + debtChange
        stake == _computeNewStake(newColl)
        moved == sendWSTETHToActivePool(f, _appliedReward(b, "WSTETH"))
    IN /\ tx = idle
       /\ isDebtIncrease => _validMaxFeePercentage(maxFeePercentage, isRecoveryMode) /\ SIMChange > 0
       /\ collReceived = 0 \/ collWithdrawal = 0
       /\ collReceived # 0 \/ collWithdrawal # 0 \/ SIMChange # 0
       /\ isActive(b)
       /\ charged => _userAcceptsFee(fee, SIMChange, maxFeePercentage)
       /\ newColl >= 0 /\ newDebt >= 0
       /\ _validAdjustmentInCurrentMode(isRecoveryMode, collWithdrawal, isDebtIncrease,
              _computeCR(_collNow(b), _debtNow(b), price), _computeCR(newColl, newDebt, price),
              _newTCR(collChange, debtChange))
       /\ ~isDebtIncrease /\ SIMChange > 0 => _validRepayment(b, newDebt, SIMChange)
       /\ _stakeComputable
       /\ Troves' = [Troves EXCEPT ![b].coll = newColl, ![b].debt = newDebt, ![b].stake = stake]
       /\ rewardSnapshots' = _snapshotsAfterApply(b)
       /\ totalStakes' = totalStakes - Troves[b].stake + stake
       /\ sortedTroves' \in _inserted(RemoveFirst(sortedTroves, b), b,
                                      _computeNominalCR(newColl, newDebt))
       /\ funds' = IF collReceived # 0 THEN _activePoolAddColl(moved, source, collReceived)
                                       ELSE sendWSTETH(moved, b, collWithdrawal)
       /\ SIMDebt' = changeSIMDebt(_debtAfterMove(_appliedReward(b, "SIMDebt")),
                                   "activePool", debtChange)
       /\ simToken' = IF isDebtIncrease THEN mint(_mintFee(simToken, fee), b, SIMChange)
                                        ELSE burn(simToken, b, SIMChange)
       /\ _chargeFee(charged)
       /\ UNCHANGED <<surplus, TroveOwners, ledgerVars, price, now, tx>>

addColl(b, amount) ==
    /\ funds.balance[b] >= amount
    /\ _adjustTrove(b, funds, b, amount, 0, 0, FALSE, 0)
    /\ UNCHANGED totalSIMDeposits

withdrawColl(b, amount) ==
    _adjustTrove(b, funds, b, 0, amount, 0, FALSE, 0) /\ UNCHANGED totalSIMDeposits

withdrawSIM(b, maxFeePercentage, SIMAmount) ==
    _adjustTrove(b, funds, b, 0, 0, SIMAmount, TRUE, maxFeePercentage) /\ UNCHANGED totalSIMDeposits

repaySIM(b, SIMAmount) ==
    _adjustTrove(b, funds, b, 0, 0, SIMAmount, FALSE, 0) /\ UNCHANGED totalSIMDeposits

adjustTrove(b, addColAmount, maxFeePercentage, collWithdrawal, SIMChange, isDebtIncrease) ==
    /\ funds.balance[b] >= addColAmount
    /\ _adjustTrove(b, funds, b, addColAmount, collWithdrawal, SIMChange, isDebtIncrease,
                    maxFeePercentage)
    /\ UNCHANGED totalSIMDeposits

closeTrove(b) ==
    LET coll == _collNow(b)
        debt == _debtNow(b)
    IN /\ tx = idle
       /\ isActive(b)
       /\ ~_checkRecoveryMode(price)
       /\ simToken.balances[b] >= debt
       /\ _newTCR(-coll, -debt) >= CCR
       /\ _moreThanOneTroveInSystem
       /\ _closeTrove(b, "closedByOwner")
       /\ SIMDebt' = changeSIMDebt(_debtAfterMove(_appliedReward(b, "SIMDebt")), "activePool", -debt)
       /\ simToken' = burn(simToken, b, debt)
       /\ funds' = sendWSTETH(_fundsAfterMove(_appliedReward(b, "WSTETH")), b, coll)
       /\ UNCHANGED <<surplus, totalSIMDeposits, ledgerVars, rateVars, price, now, tx>>

claimCollateral(b) ==
    /\ tx = idle
    /\ claimColl(b)
    /\ UNCHANGED <<SIMDebt, totalSIMDeposits, simToken, troveVars, ledgerVars, rateVars,
                   price, now, tx>>

-----------------------------------------------------------------------------
(* StabilityPool.                                                          *)

_depositVars == <<SIMDebt, surplus, troveVars, ledgerVars, rateVars, price, now, tx>>

SentSIM(s, from, to, amount) == [s EXCEPT !.balances = Transferred(@, from, to, amount)]

provideToSP(a, amount, gain) ==
    /\ tx = idle
    /\ amount > 0
    /\ simToken.balances[a] >= amount
    /\ gain <= funds.counter["stabilityPool"]
    /\ simToken' = SentSIM(simToken, a, "stabilityPool", amount)
    /\ totalSIMDeposits' = totalSIMDeposits + amount
    /\ funds' = _payGain(funds, a, gain)
    /\ UNCHANGED _depositVars

\* No withdrawal of SIM while the last trove of the list can be liquidated.
withdrawFromSP(a, amount, gain) ==
    /\ tx = idle
    /\ amount # 0 /\ getLast # NULL => getCurrentICR(getLast) >= MCR
    /\ amount <= totalSIMDeposits
    /\ gain <= funds.counter["stabilityPool"]
    /\ simToken' = SentSIM(simToken, "stabilityPool", a, amount)
    /\ totalSIMDeposits' = totalSIMDeposits - amount
    /\ funds' = _payGain(funds, a, gain)
    /\ UNCHANGED _depositVars

\* The gain goes to the depositor's trove: out of the pool's counter, then through
\* moveWSTETHGainToTrove.  The token moves once, from the pool to the active pool.
withdrawWSTETHGainToTrove(b, gain) ==
    /\ 0 < gain /\ gain <= funds.counter["stabilityPool"]
    /\ _adjustTrove(b, [funds EXCEPT !.counter["stabilityPool"] = @ - gain], "stabilityPool",
                    gain, 0, 0, FALSE, 0)
    /\ UNCHANGED totalSIMDeposits
=============================================================================
