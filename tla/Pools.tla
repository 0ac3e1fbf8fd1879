------------------------------- MODULE Pools --------------------------------
(***************************************************************************)
(* ActivePool.sol, DefaultPool.sol, CollSurplusPool.sol, the balances of   *)
(* StabilityPool.sol, and the two tokens the contracts move.               *)
(*                                                                         *)
(* Every pool keeps its own count of the collateral it holds (getWSTETH)   *)
(* beside the balance the token keeps for it: funds holds both, and every  *)
(* operator below moves both the way the contracts do.  The operators take *)
(* the state they start from, so that a handler is the composition of the  *)
(* calls it makes.  Arithmetic is not guarded where the code relies on an  *)
(* invariant: an underflow would leave the naturals and break TypeOK.      *)
(***************************************************************************)
EXTENDS Base

CONSTANTS Accounts      \* users: borrowers, depositors, redeemers, liquidators

\* Contracts that hold wstETH, and those that count what they hold.
PoolNames == {"activePool", "defaultPool", "stabilityPool", "collSurplusPool"}
Contracts == PoolNames \cup {"wstETHVeDistributor"}
Holders == Accounts \cup Contracts
SIMContracts == {"stabilityPool", "simVeDistributor", "feeReceiver"}
SIMHolders == Accounts \cup SIMContracts

ASSUME AccountsAssumption == Accounts \cap (Contracts \cup SIMContracts) = {}

VARIABLES funds,        \* wstETH: the pools' counters and the token's balances
          SIMDebt,      \* SIMDebt of the active and of the default pool
          surplus,      \* CollSurplusPool.balances
          totalSIMDeposits,     \* of the stability pool
          simToken      \* SIM: total supply and balances

poolVars == <<funds, SIMDebt, surplus, totalSIMDeposits, simToken>>

-----------------------------------------------------------------------------
(* wstETH.                                                                 *)

\* ERC20 transfer.
Transferred(balance, from, to, amount) ==
    [h \in DOMAIN balance |->
        balance[h] - (IF h = from THEN amount ELSE 0) + (IF h = to THEN amount ELSE 0)]

\* A pool's receiveWSTETH.
receiveWSTETH(counter, pool, amount) ==
    [p \in DOMAIN counter |-> counter[p] + (IF p = pool THEN amount ELSE 0)]

\* ActivePool.sendWSTETH: its counter falls, the token moves, and a receiving pool
\* is told.  An account or the VeDistributor keeps no counter.
sendWSTETH(f, to, amount) ==
    [counter |-> receiveWSTETH([f.counter EXCEPT !["activePool"] = @ - amount], to, amount),
     balance |-> Transferred(f.balance, "activePool", to, amount)]

\* DefaultPool.sendWSTETHToActivePool.
sendWSTETHToActivePool(f, amount) ==
    [counter |-> receiveWSTETH([f.counter EXCEPT !["defaultPool"] = @ - amount],
                               "activePool", amount),
     balance |-> Transferred(f.balance, "defaultPool", "activePool", amount)]

\* BorrowerOperations pulls the collateral in and hands it to the active pool
\* (_activePoolAddColl) in the same transaction.
_activePoolAddColl(f, from, amount) ==
    [counter |-> receiveWSTETH(f.counter, "activePool", amount),
     balance |-> Transferred(f.balance, from, "activePool", amount)]

\* StabilityPool pays a depositor's gain out, to the depositor or on to a trove.
_payGain(f, to, amount) ==
    [counter |-> [f.counter EXCEPT !["stabilityPool"] = @ - amount],
     balance |-> Transferred(f.balance, "stabilityPool", to, amount)]

getEntireSystemColl == funds.counter["activePool"] + funds.counter["defaultPool"]
getEntireSystemDebt == SIMDebt["activePool"] + SIMDebt["defaultPool"]
_getTCR(price) == _computeCR(getEntireSystemColl, getEntireSystemDebt, price)
_checkRecoveryMode(price) == _getTCR(price) < CCR

-----------------------------------------------------------------------------
(* SIM.                                                                    *)

mint(s, to, amount) ==
    [totalSupply |-> s.totalSupply + amount,
     balances |-> [s.balances EXCEPT ![to] = @ + amount]]

burn(s, from, amount) ==
    [totalSupply |-> s.totalSupply - amount,
     balances |-> [s.balances EXCEPT ![from] = @ - amount]]

\* increaseSIMDebt (amount > 0) and decreaseSIMDebt (amount < 0) of a pool.
changeSIMDebt(d, pool, amount) == [d EXCEPT ![pool] = @ + amount]

-----------------------------------------------------------------------------
(* Claims on CollSurplusPool.                                              *)

claimColl(a) ==
    /\ surplus[a] > 0
    /\ surplus' = [surplus EXCEPT ![a] = 0]
    /\ funds' = [counter |-> [funds.counter EXCEPT !["collSurplusPool"] = @ - surplus[a]],
                 balance |-> Transferred(funds.balance, "collSurplusPool", a, surplus[a])]

PoolsInit(wallet) ==
    /\ funds = [counter |-> [p \in PoolNames |-> 0],
                balance |-> [h \in Holders |-> IF h \in Accounts THEN wallet ELSE 0]]
    /\ SIMDebt = [p \in {"activePool", "defaultPool"} |-> 0]
    /\ surplus = [a \in Accounts |-> 0]
    /\ totalSIMDeposits = 0
    /\ simToken = [totalSupply |-> 0, balances |-> [h \in SIMHolders |-> 0]]

PoolsTypeOK ==
    /\ funds \in [counter : [PoolNames -> Nat], balance : [Holders -> Nat]]
    /\ SIMDebt \in [{"activePool", "defaultPool"} -> Nat]
    /\ surplus \in [Accounts -> Nat]
    /\ totalSIMDeposits \in Nat
    /\ simToken \in [totalSupply : Nat, balances : [SIMHolders -> Nat]]
=============================================================================
