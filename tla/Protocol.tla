------------------------------ MODULE Protocol ------------------------------
(***************************************************************************)
(* The lending protocol: borrowers, depositors, redeemers, liquidators and *)
(* a moving price drive TroveManager, BorrowerOperations, the pools and    *)
(* the tokens.  One transaction runs at a time; a liquidation or           *)
(* redemption takes several steps but nothing interleaves with it.         *)
(***************************************************************************)
EXTENDS BorrowerOperations, FiniteSets

CONSTANTS Prices,               \* prices priceFeed.fetchPrice may return
          Wallet,               \* wstETH every account starts with
          OpenColls, OpenSIM,   \* amounts passed to openTrove
          AdjustColls, AdjustSIM,   \* amounts passed to the adjustments
          TransferAmounts,      \* SIM moved between accounts
          DepositAmounts,       \* SIM provided to and withdrawn from the stability pool
          RedeemAmounts,        \* SIM redeemed
          MaxFees,              \* _maxFeePercentage of callers
          BatchLengths,         \* lengths of the array given to batchLiquidateTroves
          Counts,               \* _n of liquidateTroves, _maxIterations of redeemCollateral
          MaxTime,              \* bound on the clock, in minutes
          MaxTx                 \* bound on the number of transactions

ASSUME FiniteAccountsAssumption == IsFiniteSet(Accounts)    \* addresses have 160 bits
ASSUME PricesAssumption == Prices \subseteq Nat \ {0} /\ Prices # {}
ASSUME AmountsAssumption ==
    /\ Wallet \in Nat
    /\ UNION {OpenColls, OpenSIM, AdjustColls, AdjustSIM, TransferAmounts, DepositAmounts,
              RedeemAmounts, MaxFees, Counts, BatchLengths} \subseteq Nat
    /\ MaxTime \in Nat /\ MaxTx \in Nat
ASSUME DecayAssumption ==
    \A m \in 0..MaxTime : DecayFactor(m) \in 0..DECIMAL_PRECISION

VARIABLES txCount               \* transactions begun so far

vars == <<poolVars, troveVars, ledgerVars, rateVars, price, now, tx, txCount>>

Init ==
    /\ PoolsInit(Wallet)
    /\ TroveManagerInit
    /\ price \in Prices
    /\ txCount = 0

-----------------------------------------------------------------------------
(* Transactions.                                                           *)

Opening ==
    \E b \in Accounts, c \in OpenColls, m \in OpenSIM, fee \in MaxFees : openTrove(b, c, fee, m)

Adjusting ==
    \E b \in Accounts :
        \/ \E c \in AdjustColls : addColl(b, c)
        \/ \E c \in AdjustColls : withdrawColl(b, c)
        \/ \E m \in AdjustSIM, fee \in MaxFees : withdrawSIM(b, fee, m)
        \/ \E m \in AdjustSIM : repaySIM(b, m)
        \/ \E c \in AdjustColls, m \in AdjustSIM, fee \in MaxFees, up \in BOOLEAN :
              \/ adjustTrove(b, c, fee, 0, m, up)
              \/ adjustTrove(b, 0, fee, c, m, up)

Closing == \E b \in Accounts : closeTrove(b) \/ claimCollateral(b)

Depositing ==
    \E a \in Accounts, gain \in 0..funds.counter["stabilityPool"] :
        \/ \E m \in DepositAmounts : provideToSP(a, m, gain)
        \/ \E m \in DepositAmounts : withdrawFromSP(a, m, gain)
        \/ withdrawWSTETHGainToTrove(a, gain)

Liquidating ==
    \E caller \in Accounts :
        \/ \E n \in Counts : n > 0 /\ liquidateTroves(caller, n)
        \/ \E b \in Accounts : liquidate(caller, b)
        \/ \E n \in BatchLengths : \E array \in [1..n -> Accounts] :
              batchLiquidateTroves(caller, array)

Redeeming ==
    \E caller \in Accounts, m \in RedeemAmounts, hint \in Accounts \cup {NULL},
       n \in Counts, fee \in MaxFees : redeemCollateral(caller, m, hint, n, fee)

\* SIM is an ERC20: holders trade it, and the receivers of fees pay them out.
TransferSIM ==
    \E a \in SIMHolders \ {"stabilityPool"}, b \in Accounts, m \in TransferAmounts :
        /\ tx = idle
        /\ a # b
        /\ simToken.balances[a] >= m
        /\ simToken' = SentSIM(simToken, a, b, m)
        /\ UNCHANGED <<funds, SIMDebt, surplus, totalSIMDeposits, troveVars, ledgerVars,
                       rateVars, price, now, tx>>

Transaction ==
    /\ txCount < MaxTx
    /\ txCount' = txCount + 1
    /\ \/ Opening \/ Adjusting \/ Closing \/ Depositing \/ Liquidating \/ Redeeming
       \/ TransferSIM

-----------------------------------------------------------------------------
(* The environment, between transactions.                                  *)

PriceMoves ==
    /\ tx = idle
    /\ price' \in Prices \ {price}
    /\ UNCHANGED <<poolVars, troveVars, ledgerVars, rateVars, now, tx, txCount>>

TimePasses ==
    /\ tx = idle
    /\ now < MaxTime
    /\ now' = now + 1
    /\ UNCHANGED <<poolVars, troveVars, ledgerVars, rateVars, price, tx, txCount>>

Continue == Step /\ UNCHANGED txCount

Next == Transaction \/ Continue \/ PriceMoves \/ TimePasses

Spec == Init /\ [][Next]_vars

-----------------------------------------------------------------------------
(* Properties.                                                             *)

TypeOK ==
    /\ PoolsTypeOK
    /\ Troves \in [Accounts -> [debt : Nat, coll : Nat, stake : Nat, status : Statuses,
                                arrayIndex : Nat]]
    /\ rewardSnapshots \in [Accounts -> [WSTETH : Nat, SIMDebt : Nat]]
    /\ TroveOwners \in Seq(Accounts)
    /\ sortedTroves \in Seq(Accounts)
    /\ totalStakes \in Nat
    /\ totalStakesSnapshot \in Nat
    /\ totalCollateralSnapshot \in Nat
    /\ L \in [WSTETH : Nat, SIMDebt : Nat]
    /\ lastError \in [WSTETH : Nat, SIMDebt : Nat]
    /\ baseRate \in 0..DECIMAL_PRECISION
    /\ lastFeeOperationTime \in 0..now
    /\ price \in Prices
    /\ now \in 0..MaxTime
    /\ tx = idle \/ tx.at \in {"sequenceNormal", "sequenceRecovery", "batchNormal",
                               "batchRecovery", "settle", "redeem", "redeemed"}
    /\ txCount \in 0..MaxTx

Liquidates == tx.at \in {"sequenceNormal", "sequenceRecovery", "batchNormal", "batchRecovery", "settle"}
Redeems == tx.at \in {"redeem", "redeemed"}
Total(f) == SumFunctionOnSet(f, Accounts)

\* Every SIM in circulation is owed by somebody: the supply is the debt recorded by
\* the two pools, in the middle of a liquidation or redemption too.  Fees are minted
\* as debt, and debt is cancelled only against SIM that is burnt.
SupplyIsDebt == simToken.totalSupply = getEntireSystemDebt

\* Each pool's counter is the balance the token keeps for it: whoever moves wstETH
\* tells the pools at both ends.
CountersMatchBalances == \A p \in PoolNames : funds.counter[p] = funds.balance[p]

\* The token ledgers are closed: balances add up to the supply (SIM) or to what was
\* brought in (wstETH), and the stability pool holds exactly its depositors' SIM.
LedgersClosed ==
    /\ simToken.totalSupply = SumFunctionOnSet(simToken.balances, SIMHolders)
    /\ Cardinality(Accounts) * Wallet = SumFunctionOnSet(funds.balance, Holders)
    /\ totalSIMDeposits = simToken.balances["stabilityPool"]

\* The active pool holds what the troves hold, plus what a transaction under way has
\* taken from troves and not yet settled; totalStakes is the sum of the stakes.
PoolsMatchTroves ==
    /\ SIMDebt["activePool"] =
          Total([b \in Accounts |-> Troves[b].debt]) + (IF Liquidates THEN tx.totals.debt ELSE 0)
                                           + (IF Redeems THEN tx.SIMToRedeem ELSE 0)
    /\ funds.counter["activePool"] =
          Total([b \in Accounts |-> Troves[b].coll]) + (IF Liquidates THEN tx.totals.coll ELSE 0)
                                           + (IF Redeems THEN tx.WSTETHDrawn ELSE 0)
    /\ totalStakes = Total([b \in Accounts |-> Troves[b].stake])

\* The default pool can pay every pending reward, whatever the rounding of
\* redistributions, their carried-over errors and changes of stake in between.
PendingRewardsCovered ==
    /\ Total([b \in Accounts |-> _pendingReward(b, "WSTETH")]) <= funds.counter["defaultPool"]
    /\ Total([b \in Accounts |-> _pendingReward(b, "SIMDebt")]) <= SIMDebt["defaultPool"]

\* What the default pool holds does reach the troves: but for less than one unit per
\* trove and transaction, lost to rounding, everything in it is pending for somebody.
RewardsNotStranded ==
    LET dust == Cardinality(Accounts) + txCount
    IN /\ funds.counter["defaultPool"] <= Total([b \in Accounts |-> _pendingReward(b, "WSTETH")]) + dust
       /\ SIMDebt["defaultPool"] <= Total([b \in Accounts |-> _pendingReward(b, "SIMDebt")]) + dust

\* The surplus pool holds what borrowers may claim, but for what the running
\* liquidation has accounted and will send when it settles.
SurplusCovered ==
    Total(surplus) =
        funds.counter["collSurplusPool"] + (IF Liquidates THEN tx.totals.collSurplus ELSE 0)

\* TroveOwners, arrayIndex, status and the sorted list tell the same story about who
\* has a trove, and a trove that is not active has nothing in it.
OwnersAgree ==
    /\ \A b \in Accounts : isActive(b) =>
          /\ Troves[b].arrayIndex < Len(TroveOwners)
          /\ TroveOwners[Troves[b].arrayIndex + 1] = b
    /\ \A i \in DOMAIN TroveOwners :
          isActive(TroveOwners[i]) /\ Troves[TroveOwners[i]].arrayIndex = i - 1
    /\ ToSet(sortedTroves) = ToSet(TroveOwners)
    /\ Len(sortedTroves) = Len(TroveOwners)
    /\ \A b \in Accounts : ~isActive(b) =>
          Troves[b].debt = 0 /\ Troves[b].coll = 0 /\ Troves[b].stake = 0

\* No trove is left with less than the minimum debt, by repayment or by redemption.
NoDustTroves == \A b \in Accounts : isActive(b) => Troves[b].debt >= MIN_NET_DEBT

\* What the assertion in _computeNewStake relies on ("The system always contains >= 1
\* trove"): once snapshots exist a stake can be computed, and after a liquidation
\* somebody is left to take what is redistributed.
StakeComputable ==
    /\ _stakeComputable
    /\ totalCollateralSnapshot > 0 => TroveOwners # << >>
    /\ tx.at = "settle" /\ tx.totals.debtToRedistribute > 0 => totalStakes > 0

\* The books of the protocol balance after every step, in the middle of a transaction too.
Books == SupplyIsDebt /\ CountersMatchBalances /\ LedgersClosed /\ PoolsMatchTroves /\ SurplusCovered

\* Redistributed collateral and debt are neither promised twice nor lost, and somebody is there to
\* take them.
RewardsAccounted == PendingRewardsCovered /\ RewardsNotStranded /\ StakeComputable

\* A borrower's or depositor's own transaction cannot push the system into recovery
\* mode, and in recovery mode cannot lower the total collateral ratio.
BorrowersKeepTCR ==
    [][tx = idle /\ tx' = idle /\ price' = price =>
          IF _checkRecoveryMode(price) THEN _getTCR(price)' >= _getTCR(price)
                                       ELSE ~_checkRecoveryMode(price)']_vars

\* Collateral and debt of the system once the running liquidation has settled.
_collAfter == getEntireSystemColl - tx.totals.collToSendToSP - tx.totals.gas - tx.totals.collSurplus
_debtAfter == getEntireSystemDebt - tx.totals.debtToOffset

\* A trove at or above MCR is liquidated only while the system, the liquidations so
\* far counted in, is in recovery mode, only below its total ratio and only against
\* deposits that cover it whole; the owner keeps all but 110% of the debt.
HealthyTrovesProtected ==
    [][\A b \in Accounts :
          isActive(b) /\ Troves'[b].status = "closedByLiquidation" /\ getCurrentICR(b) >= MCR =>
              /\ _checkPotentialRecoveryMode(_collAfter, _debtAfter, price)
              /\ getCurrentICR(b) < _computeCR(_collAfter, _debtAfter, price)
              /\ tx.totals.debtToOffset + getEntireDebtAndColl(b).debt <= totalSIMDeposits
              /\ surplus'[b] - surplus[b] = getEntireDebtAndColl(b).coll
                     - (getEntireDebtAndColl(b).debt * MCR) \div price]_vars

\* A liquidation that has closed a trove is not rolled back: the normal-mode loops,
\* which do not look whether a trove is the last one, never come to the last one, and
\* the settlement neither divides by zero nor underflows.
LiquidationNotUndone ==
    [][Liquidates /\ tx' = idle /\ tx.totals.debt > 0 => UNCHANGED troveVars]_vars

\* A redemption does not lower the collateral ratio of a trove it draws on or passes
\* by, whatever the hints.
RedemptionKeepsRatios ==
    [][Redeems /\ tx'.at # "idle" =>
          \A b \in Accounts : isActive(b) /\ isActive(b)' => getCurrentICR(b)' >= getCurrentICR(b)]_vars

\* Once a trove has been opened the system is never without one.
SystemNeverEmpties == [][TroveOwners # << >> => TroveOwners' # << >>]_vars

\* What is left of the running transaction: troves still to be looked at in the array or in the
\* n of a sequence, SIM still to be redeemed; then the settlement.
_leftToDo ==
    CASE tx.at = "idle" -> 0
      [] tx.at \in {"settle", "redeemed"} -> 1
      [] tx.at \in {"batchNormal", "batchRecovery"} -> 2 + Len(tx.troveArray)
      [] tx.at \in {"sequenceNormal", "sequenceRecovery"} -> 2 + tx.n
      [] tx.at = "redeem" -> 2 + tx.remainingSIM

\* Every liquidation and redemption comes to its end, although it walks a list that it changes:
\* there is always a next step, and each leaves less to do.
TransactionsEnd ==
    /\ [](tx # idle => ENABLED <<Continue>>_vars)
    /\ [][tx # idle => _leftToDo' < _leftToDo]_vars
=============================================================================
