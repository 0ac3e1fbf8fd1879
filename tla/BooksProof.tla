----------------------------- MODULE BooksProof -----------------------------
(***************************************************************************)
(* The books of the protocol balance: supply and debt, pools and troves,   *)
(* counters and token balances, in every state and for any number of       *)
(* accounts, in the middle of a liquidation or redemption too.             *)
(*                                                                         *)
(* The proof carries with the books what a revert would restore, and why a *)
(* settlement sends all that a liquidation took: the totals of the loop    *)
(* add up, and what they offset was in the stability pool.                 *)
(*                                                                         *)
(* From the same facts: no trove owes dust, and liquidations spare healthy *)
(* troves.                                                                 *)
(***************************************************************************)
EXTENDS ProtocolProof

Debts(t) == Total([b \in Accounts |-> t[b].debt])
Colls(t) == Total([b \in Accounts |-> t[b].coll])
Stakes(t) == Total([b \in Accounts |-> t[b].stake])

\* What a transaction with frame f has taken from troves and not yet settled.
Open(f) ==
    [debt |-> IF f.at \in LoopNames THEN f.totals.debt
              ELSE IF f.at \in {"redeem", "redeemed"} THEN f.SIMToRedeem ELSE 0,
     coll |-> IF f.at \in LoopNames THEN f.totals.coll
              ELSE IF f.at \in {"redeem", "redeemed"} THEN f.WSTETHDrawn ELSE 0,
     surplus |-> IF f.at \in LoopNames THEN f.totals.collSurplus ELSE 0]

\* Every pool counts what the token says it has, but for a gain on its way out of the stability
\* pool, and no wstETH is made or lost.
FundsOff(f, gain) ==
    /\ \A p \in PoolNames : f.counter[p] = f.balance[p] - (IF p = "stabilityPool" THEN gain ELSE 0)
    /\ SumFunctionOnSet(f.balance, Holders) = Cardinality(Accounts) * Wallet

\* Troves t, their stakes, funds f, debts d and surplus sur agree with each other and with the
\* supply of SIM, when a transaction has taken open and not settled it.
Balanced(t, stakes, f, d, sur, supply, open) ==
    /\ FundsOff(f, 0)
    /\ supply = d["activePool"] + d["defaultPool"]
    /\ d["activePool"] = Debts(t) + open.debt
    /\ f.counter["activePool"] = Colls(t) + open.coll
    /\ stakes = Stakes(t)
    /\ Total(sur) = f.counter["collSurplusPool"] + open.surplus

SIMClosed(s) == s.totalSupply = SumFunctionOnSet(s.balances, SIMHolders)

\* No amount of a trove is negative, an active one has debt enough, and it has not seen more of
\* the redistributions than there were.
TroveOK(t, snapshots, l) ==
    \A b \in Accounts :
        /\ t[b].debt >= 0 /\ t[b].coll >= 0 /\ t[b].stake >= 0
        /\ t[b].status = "active" =>
              /\ t[b].debt >= MIN_NET_DEBT
              /\ snapshots[b].WSTETH <= l.WSTETH /\ snapshots[b].SIMDebt <= l.SIMDebt

RatesOK ==
    /\ lastError.WSTETH >= 0 /\ lastError.SIMDebt >= 0
    /\ totalStakesSnapshot >= 0
    /\ baseRate >= 0

\* The values of a liquidation, of one trove or in total, add up; nothing is sent to the stability
\* pool unless debt is offset, nor redistributed without debt.
ValsOK(v) ==
    /\ v.debt = v.debtToOffset + v.debtToRedistribute
    /\ v.coll = v.gas + v.collToSendToSP + v.collToRedistribute + v.collSurplus
    /\ v.debtToOffset >= 0 /\ v.debtToRedistribute >= 0 /\ v.collToRedistribute >= 0
    /\ v.debtToOffset = 0 => v.collToSendToSP = 0
    /\ v.debtToRedistribute = 0 => v.collToRedistribute = 0

\* The frame f of a transaction: what it would revert to is in order, and a liquidation has
\* offset no more than the deposits of the stability pool.
FrameBooks(f, supply, l, deposits) ==
    /\ Balanced(f.pre.Troves, f.pre.totalStakes, f.pre.funds, f.pre.SIMDebt, f.pre.surplus,
                supply, Open(idle))
    /\ TroveOK(f.pre.Troves, f.pre.rewardSnapshots, l)
    /\ f.at \in LoopNames => /\ ValsOK(f.totals)
                             /\ f.remainingSIM = deposits - f.totals.debtToOffset
                             /\ f.remainingSIM >= 0

BInv ==
    /\ Balanced(Troves, totalStakes, funds, SIMDebt, surplus, simToken.totalSupply, Open(tx))
    /\ SIMClosed(simToken)
    /\ totalSIMDeposits = simToken.balances["stabilityPool"] /\ totalSIMDeposits >= 0
    /\ TroveOK(Troves, rewardSnapshots, L)
    /\ RatesOK
    /\ tx # idle => FrameBooks(tx, simToken.totalSupply, L, totalSIMDeposits)

-----------------------------------------------------------------------------
(* Arithmetic.                                                             *)

\* Products and quotients of amounts are amounts.
LEMMA NonNegative ==
    /\ \A x, y \in Int : x >= 0 /\ y >= 0 => x * y \in Int /\ x * y >= 0
    /\ \A x, y \in Int : x >= 0 /\ y > 0 => x \div y \in Int /\ x \div y >= 0 /\ x \div y <= x
<1>1. \A x, y \in Int : x >= 0 /\ y >= 0 => x * y \in Int /\ x * y >= 0
      OBVIOUS
<1>2. \A x, y \in Int : x >= 0 /\ y > 0 => x \div y \in Int /\ x \div y >= 0 /\ x \div y <= x
      OBVIOUS
<1> QED BY <1>1, <1>2

\* A share of an amount is at most the amount, and the share of the whole is all of it.
LEMMA ShareBounded ==
    ASSUME NEW x \in Int, NEW y \in Int, NEW z \in Int, 0 <= x, 0 <= y, y <= z, z > 0
    PROVE  /\ (x * y) \div z \in Int /\ 0 <= (x * y) \div z /\ (x * y) \div z <= x
           /\ y = z => (x * y) \div z = x
<1>1. x * y \in Int /\ x * y >= 0 /\ x * z \in Int /\ x * y <= x * z
      OBVIOUS
<1>2. (x * z) \div z = x
      OBVIOUS
<1>3. (x * y) \div z \in Int /\ (x * y) \div z >= 0
      BY <1>1, NonNegative
<1>4. (x * y) \div z <= (x * z) \div z
      <2> DEFINE m == x * y
                 n == x * z
      <2>1. m \in Int /\ n \in Int /\ m <= n
            BY <1>1
      <2> HIDE DEF m, n
      <2>2. m \div z <= n \div z
            BY <2>1
      <2> QED BY <2>2 DEF m, n
<1> QED BY <1>2, <1>3, <1>4

-----------------------------------------------------------------------------
(* Sums over troves and holders.                                           *)

\* There are finitely many holders of each token.
LEMMA HoldersFinite == IsFiniteSet(Holders) /\ IsFiniteSet(SIMHolders)
<1>1. \A x : IsFiniteSet({x})
      BY FS_Singleton
<1>2. \A A, B : IsFiniteSet(A) /\ IsFiniteSet(B) => IsFiniteSet(A \cup B)
      BY FS_Union
<1>3. IsFiniteSet(((({"activePool"} \cup {"defaultPool"}) \cup {"stabilityPool"})
                      \cup {"collSurplusPool"}) \cup {"wstETHVeDistributor"})
      BY <1>1, <1>2, Zenon
<1>4. IsFiniteSet(({"stabilityPool"} \cup {"simVeDistributor"}) \cup {"feeReceiver"})
      BY <1>1, <1>2, Zenon
<1>5. /\ Contracts = ((({"activePool"} \cup {"defaultPool"}) \cup {"stabilityPool"})
                      \cup {"collSurplusPool"}) \cup {"wstETHVeDistributor"}
      /\ SIMContracts = ({"stabilityPool"} \cup {"simVeDistributor"}) \cup {"feeReceiver"}
      BY DEF Contracts, PoolNames, SIMContracts
<1>6. IsFiniteSet(Contracts) /\ IsFiniteSet(SIMContracts)
      BY <1>3, <1>4, <1>5
<1> QED BY <1>2, <1>6, FiniteAccountsAssumption, Zenon DEF Holders, SIMHolders

\* When one trove changes, the totals change by what it changes.
LEMMA OneTroveChanges ==
    ASSUME NEW t \in TrovesT, NEW u \in TrovesT, NEW b \in Accounts,
           \A x \in Accounts : x # b =>
              u[x].debt = t[x].debt /\ u[x].coll = t[x].coll /\ u[x].stake = t[x].stake
    PROVE  /\ Debts(t) \in Int /\ Debts(u) = Debts(t) - t[b].debt + u[b].debt
           /\ Colls(t) \in Int /\ Colls(u) = Colls(t) - t[b].coll + u[b].coll
           /\ Stakes(t) \in Int /\ Stakes(u) = Stakes(t) - t[b].stake + u[b].stake
<1>1. \A x \in Accounts : /\ t[x].debt \in Int /\ t[x].coll \in Int /\ t[x].stake \in Int
                          /\ u[x].debt \in Int /\ u[x].coll \in Int /\ u[x].stake \in Int
      BY DEF TrovesT, TroveT
<1>2. Debts(t) \in Int /\ Debts(u) = Debts(t) - t[b].debt + u[b].debt
      <2> DEFINE f == [x \in Accounts |-> t[x].debt]
                 g == [x \in Accounts |-> u[x].debt]
      <2>1. f \in [Accounts -> Int] /\ g \in [Accounts -> Int]
            BY <1>1
      <2>2. \A x \in Accounts : x # b => f[x] = g[x]
            BY <1>1
      <2>3. f[b] = t[b].debt /\ g[b] = u[b].debt
            OBVIOUS
      <2> HIDE DEF f, g
      <2>4. /\ SumFunctionOnSet(f, Accounts) \in Int
            /\ SumFunctionOnSet(g, Accounts) = SumFunctionOnSet(f, Accounts) - f[b] + g[b]
            BY <2>1, <2>2, SumChange, FiniteAccountsAssumption
      <2> QED BY <2>3, <2>4 DEF f, g, Debts, Total
<1>3. Colls(t) \in Int /\ Colls(u) = Colls(t) - t[b].coll + u[b].coll
      <2> DEFINE f == [x \in Accounts |-> t[x].coll]
                 g == [x \in Accounts |-> u[x].coll]
      <2>1. f \in [Accounts -> Int] /\ g \in [Accounts -> Int]
            BY <1>1
      <2>2. \A x \in Accounts : x # b => f[x] = g[x]
            BY <1>1
      <2>3. f[b] = t[b].coll /\ g[b] = u[b].coll
            OBVIOUS
      <2> HIDE DEF f, g
      <2>4. /\ SumFunctionOnSet(f, Accounts) \in Int
            /\ SumFunctionOnSet(g, Accounts) = SumFunctionOnSet(f, Accounts) - f[b] + g[b]
            BY <2>1, <2>2, SumChange, FiniteAccountsAssumption
      <2> QED BY <2>3, <2>4 DEF f, g, Colls, Total
<1>4. Stakes(t) \in Int /\ Stakes(u) = Stakes(t) - t[b].stake + u[b].stake
      <2> DEFINE f == [x \in Accounts |-> t[x].stake]
                 g == [x \in Accounts |-> u[x].stake]
      <2>1. f \in [Accounts -> Int] /\ g \in [Accounts -> Int]
            BY <1>1
      <2>2. \A x \in Accounts : x # b => f[x] = g[x]
            BY <1>1
      <2>3. f[b] = t[b].stake /\ g[b] = u[b].stake
            OBVIOUS
      <2> HIDE DEF f, g
      <2>4. /\ SumFunctionOnSet(f, Accounts) \in Int
            /\ SumFunctionOnSet(g, Accounts) = SumFunctionOnSet(f, Accounts) - f[b] + g[b]
            BY <2>1, <2>2, SumChange, FiniteAccountsAssumption
      <2> QED BY <2>3, <2>4 DEF f, g, Stakes, Total
<1> QED BY <1>2, <1>3, <1>4

\* The totals of the troves are integers, and the stakes add up to no negative number.
LEMMA TotalsAreInt ==
    ASSUME NEW t \in TrovesT
    PROVE  /\ Debts(t) \in Int /\ Colls(t) \in Int /\ Stakes(t) \in Int
           /\ (\A b \in Accounts : t[b].stake >= 0) => Stakes(t) >= 0
<1>1. \A x \in Accounts : t[x].debt \in Int /\ t[x].coll \in Int /\ t[x].stake \in Int
      BY DEF TrovesT, TroveT
<1>2. Debts(t) \in Int /\ Colls(t) \in Int /\ Stakes(t) \in Int
      BY <1>1, SumType, FiniteAccountsAssumption DEF Debts, Colls, Stakes, Total
<1>3. ASSUME \A b \in Accounts : t[b].stake >= 0
      PROVE  Stakes(t) >= 0
      BY <1>1, <1>3, SumNonNegative, FiniteAccountsAssumption DEF Stakes, Total
<1> QED BY <1>2, <1>3

\* What borrowers may claim is an integer in total, and changes with one of them.
LEMMA SurplusChanges ==
    ASSUME NEW s \in SurplusT, NEW b \in Accounts, NEW x \in Int
    PROVE  Total(s) \in Int /\ Total([s EXCEPT ![b] = x]) = Total(s) - s[b] + x
<1> DEFINE u == [s EXCEPT ![b] = x]
<1>1. s \in [Accounts -> Int] /\ u \in [Accounts -> Int]
      BY DEF SurplusT
<1>2. \A y \in Accounts : y # b => s[y] = u[y]
      BY <1>1
<1>3. u[b] = x
      BY <1>1
<1> HIDE DEF u
<1>4. Total(s) \in Int /\ Total(u) = Total(s) - s[b] + u[b]
      BY <1>1, <1>2, SumChange, FiniteAccountsAssumption DEF Total
<1> QED BY <1>3, <1>4 DEF u

\* An ERC20 transfer leaves the sum of the balances alone.
LEMMA TransferKeepsSum ==
    ASSUME NEW S, IsFiniteSet(S), NEW m \in [S -> Int], NEW x \in S, NEW y \in S, NEW d \in Int
    PROVE  /\ Transferred(m, x, y, d) \in [S -> Int]
           /\ SumFunctionOnSet(Transferred(m, x, y, d), S) = SumFunctionOnSet(m, S)
<1> DEFINE w == [h \in S |-> m[h] - (IF h = x THEN d ELSE 0)]
           t == Transferred(m, x, y, d)
<1>1. /\ w \in [S -> Int] /\ t \in [S -> Int]
      /\ w[x] = m[x] - d /\ t[y] = w[y] + d
      BY DEF Transferred
<1>2. /\ \A h \in S : h # x => m[h] = w[h]
      /\ \A h \in S : h # y => w[h] = t[h]
      BY DEF Transferred
<1> HIDE DEF w, t
<1>3. /\ SumFunctionOnSet(m, S) \in Int
      /\ SumFunctionOnSet(w, S) = SumFunctionOnSet(m, S) - m[x] + w[x]
      BY <1>1, <1>2, SumChange
<1>4. /\ SumFunctionOnSet(w, S) \in Int
      /\ SumFunctionOnSet(t, S) = SumFunctionOnSet(w, S) - w[y] + t[y]
      BY <1>1, <1>2, SumChange
<1>5. SumFunctionOnSet(t, S) = SumFunctionOnSet(m, S)
      BY <1>1, <1>3, <1>4
<1> QED BY <1>1, <1>5 DEF t

-----------------------------------------------------------------------------
(* Moves of wstETH and SIM.                                                *)

\* Pools are no accounts.
LEMMA PoolsApart ==
    /\ PoolNames \subseteq Holders /\ "wstETHVeDistributor" \in Holders /\ Accounts \subseteq Holders
    /\ \A a \in Accounts : a \notin PoolNames
    /\ Accounts \subseteq SIMHolders /\ SIMContracts \subseteq SIMHolders
    /\ \A a \in Accounts : a \notin SIMContracts
    /\ "wstETHVeDistributor" \notin PoolNames
BY AccountsAssumption DEF PoolNames, Holders, Contracts, SIMHolders, SIMContracts

\* ActivePool.sendWSTETH moves counters and balances alike.
LEMMA SendKeepsFunds ==
    ASSUME NEW f \in FundsT, FundsOff(f, 0), NEW to \in Holders, to # "activePool", NEW x \in Int
    PROVE  /\ sendWSTETH(f, to, x) \in FundsT /\ FundsOff(sendWSTETH(f, to, x), 0)
           /\ sendWSTETH(f, to, x).counter["activePool"] = f.counter["activePool"] - x
           /\ to # "collSurplusPool" =>
                 sendWSTETH(f, to, x).counter["collSurplusPool"] = f.counter["collSurplusPool"]
           /\ to = "collSurplusPool" =>
                 sendWSTETH(f, to, x).counter["collSurplusPool"] = f.counter["collSurplusPool"] + x
<1> DEFINE s == sendWSTETH(f, to, x)
<1>1. s.balance = Transferred(f.balance, "activePool", to, x) /\ f.balance \in [Holders -> Int]
      BY DEF sendWSTETH, FundsT
<1>2. \A p \in PoolNames : s.counter[p] =
         f.counter[p] - (IF p = "activePool" THEN x ELSE 0) + (IF p = to THEN x ELSE 0)
      BY DEF sendWSTETH, receiveWSTETH, FundsT, PoolNames
<1>3. \A p \in PoolNames : s.balance[p] =
         f.balance[p] - (IF p = "activePool" THEN x ELSE 0) + (IF p = to THEN x ELSE 0)
      BY <1>1, PoolsApart DEF Transferred
<1>4. SumFunctionOnSet(s.balance, Holders) = SumFunctionOnSet(f.balance, Holders)
      BY <1>1, TransferKeepsSum, HoldersFinite, PoolsApart DEF PoolNames
<1>5. \A p \in PoolNames : f.counter[p] \in Int /\ f.balance[p] \in Int
      BY PoolsApart DEF FundsT
<1>6. s \in FundsT
      BY FundsTyped
<1> HIDE DEF s
<1>7. FundsOff(s, 0)
      BY <1>2, <1>3, <1>4, <1>5 DEF FundsOff
<1>8. /\ s.counter["activePool"] = f.counter["activePool"] - x
      /\ to # "collSurplusPool" => s.counter["collSurplusPool"] = f.counter["collSurplusPool"]
      /\ to = "collSurplusPool" => s.counter["collSurplusPool"] = f.counter["collSurplusPool"] + x
      BY <1>2, <1>5 DEF PoolNames
<1> QED BY <1>6, <1>7, <1>8 DEF s

\* DefaultPool.sendWSTETHToActivePool does.
LEMMA ToActiveKeepsFunds ==
    ASSUME NEW f \in FundsT, NEW g \in Int, FundsOff(f, g), NEW x \in Int
    PROVE  /\ FundsOff(sendWSTETHToActivePool(f, x), g)
           /\ sendWSTETHToActivePool(f, x).counter["activePool"] = f.counter["activePool"] + x
           /\ sendWSTETHToActivePool(f, x).counter["defaultPool"] = f.counter["defaultPool"] - x
           /\ sendWSTETHToActivePool(f, x).counter["collSurplusPool"] = f.counter["collSurplusPool"]
           /\ sendWSTETHToActivePool(f, x).counter["stabilityPool"] = f.counter["stabilityPool"]
<1> DEFINE s == sendWSTETHToActivePool(f, x)
<1>1. /\ s.balance = Transferred(f.balance, "defaultPool", "activePool", x)
      /\ f.balance \in [Holders -> Int]
      BY DEF sendWSTETHToActivePool, FundsT
<1>2. \A p \in PoolNames : s.counter[p] =
         f.counter[p] - (IF p = "defaultPool" THEN x ELSE 0) + (IF p = "activePool" THEN x ELSE 0)
      BY DEF sendWSTETHToActivePool, receiveWSTETH, FundsT, PoolNames
<1>3. \A p \in PoolNames : s.balance[p] =
         f.balance[p] - (IF p = "defaultPool" THEN x ELSE 0) + (IF p = "activePool" THEN x ELSE 0)
      BY <1>1, PoolsApart DEF Transferred
<1>4. SumFunctionOnSet(s.balance, Holders) = SumFunctionOnSet(f.balance, Holders)
      BY <1>1, TransferKeepsSum, HoldersFinite, PoolsApart DEF PoolNames
<1>5. \A p \in PoolNames : f.counter[p] \in Int /\ f.balance[p] \in Int
      BY PoolsApart DEF FundsT
<1> HIDE DEF s
<1>6. FundsOff(s, g)
      BY <1>2, <1>3, <1>4, <1>5 DEF FundsOff
<1>7. /\ s.counter["activePool"] = f.counter["activePool"] + x
      /\ s.counter["defaultPool"] = f.counter["defaultPool"] - x
      /\ s.counter["collSurplusPool"] = f.counter["collSurplusPool"]
      /\ s.counter["stabilityPool"] = f.counter["stabilityPool"]
      BY <1>2, <1>5 DEF PoolNames
<1> QED BY <1>6, <1>7 DEF s

\* Collateral handed to the active pool comes from an account, or is the gain the stability
\* pool has already taken off its counter.
LEMMA AddCollKeepsFunds ==
    ASSUME NEW f \in FundsT, NEW x \in Int, NEW from \in Accounts \cup {"stabilityPool"},
           FundsOff(f, IF from = "stabilityPool" THEN x ELSE 0)
    PROVE  /\ FundsOff(_activePoolAddColl(f, from, x), 0)
           /\ \A p \in PoolNames : _activePoolAddColl(f, from, x).counter[p] =
                 f.counter[p] + (IF p = "activePool" THEN x ELSE 0)
<1> DEFINE s == _activePoolAddColl(f, from, x)
<1>1. s.balance = Transferred(f.balance, from, "activePool", x) /\ f.balance \in [Holders -> Int]
      BY DEF _activePoolAddColl, FundsT
<1>2. \A p \in PoolNames : s.counter[p] = f.counter[p] + (IF p = "activePool" THEN x ELSE 0)
      BY DEF _activePoolAddColl, receiveWSTETH, FundsT, PoolNames
<1>3. \A p \in PoolNames : s.balance[p] =
         f.balance[p] - (IF p = from THEN x ELSE 0) + (IF p = "activePool" THEN x ELSE 0)
      BY <1>1, PoolsApart DEF Transferred
<1>4. from \in Holders /\ "activePool" \in Holders
      BY PoolsApart DEF PoolNames
<1>5. SumFunctionOnSet(s.balance, Holders) = SumFunctionOnSet(f.balance, Holders)
      BY <1>1, <1>4, TransferKeepsSum, HoldersFinite
<1>6. \A p \in PoolNames : f.counter[p] \in Int /\ f.balance[p] \in Int
      BY PoolsApart DEF FundsT
<1>7. from \in PoolNames => from = "stabilityPool"
      BY PoolsApart
<1> HIDE DEF s
<1>8. FundsOff(s, 0)
      BY <1>2, <1>3, <1>5, <1>6, <1>7 DEF FundsOff
<1> QED BY <1>2, <1>8 DEF s

\* A pool pays an account.
PaidOut(f, pool, a, x) ==
    [counter |-> [f.counter EXCEPT ![pool] = @ - x],
     balance |-> Transferred(f.balance, pool, a, x)]

\* A gain paid to a depositor, and a surplus claimed, leave a pool's counter and its balance.
LEMMA PayingKeepsFunds ==
    ASSUME NEW f \in FundsT, FundsOff(f, 0), NEW pool \in PoolNames, NEW a \in Accounts,
           NEW x \in Int
    PROVE  /\ FundsOff(PaidOut(f, pool, a, x), 0)
           /\ PaidOut(f, pool, a, x).counter[pool] = f.counter[pool] - x
           /\ \A p \in PoolNames : p # pool => PaidOut(f, pool, a, x).counter[p] = f.counter[p]
<1> DEFINE s == PaidOut(f, pool, a, x)
<1>1. s.balance = Transferred(f.balance, pool, a, x) /\ f.balance \in [Holders -> Int]
      BY DEF FundsT, PaidOut
<1>2. \A p \in PoolNames : s.counter[p] = f.counter[p] - (IF p = pool THEN x ELSE 0)
      BY DEF FundsT, PaidOut
<1>3. \A p \in PoolNames : s.balance[p] = f.balance[p] - (IF p = pool THEN x ELSE 0)
      BY <1>1, PoolsApart DEF Transferred
<1>4. SumFunctionOnSet(s.balance, Holders) = SumFunctionOnSet(f.balance, Holders)
      BY <1>1, TransferKeepsSum, HoldersFinite, PoolsApart
<1>5. \A p \in PoolNames : f.counter[p] \in Int /\ f.balance[p] \in Int
      BY PoolsApart DEF FundsT
<1> HIDE DEF s
<1>6. FundsOff(s, 0)
      BY <1>2, <1>3, <1>4, <1>5 DEF FundsOff
<1>7. s.counter[pool] = f.counter[pool] - x /\ \A p \in PoolNames : p # pool => s.counter[p] = f.counter[p]
      BY <1>2, <1>5
<1> QED BY <1>6, <1>7 DEF s

\* Minting and burning change the supply with the balances.
LEMMA MintKeepsSum ==
    ASSUME NEW s \in SIMT, SIMClosed(s), NEW h \in SIMHolders, NEW x \in Int
    PROVE  /\ mint(s, h, x) \in SIMT /\ SIMClosed(mint(s, h, x))
           /\ mint(s, h, x).totalSupply = s.totalSupply + x
           /\ h # "stabilityPool" =>
                 mint(s, h, x).balances["stabilityPool"] = s.balances["stabilityPool"]
<1> DEFINE b == s.balances
           c == [s.balances EXCEPT ![h] = @ + x]
<1>1. b \in [SIMHolders -> Int] /\ c \in [SIMHolders -> Int] /\ c[h] = b[h] + x
      BY DEF SIMT
<1>2. \A y \in SIMHolders : y # h => b[y] = c[y]
      BY <1>1
<1>3. mint(s, h, x).balances = c /\ mint(s, h, x).totalSupply = s.totalSupply + x
      BY DEF mint
<1>4. SumFunctionOnSet(b, SIMHolders) = s.totalSupply /\ s.totalSupply \in Int
      BY DEF SIMClosed, SIMT
<1>5. "stabilityPool" \in SIMHolders
      BY PoolsApart DEF SIMContracts
<1> HIDE DEF b, c
<1>6. SumFunctionOnSet(c, SIMHolders) = SumFunctionOnSet(b, SIMHolders) - b[h] + c[h]
      BY <1>1, <1>2, SumChange, HoldersFinite
<1>7. SumFunctionOnSet(c, SIMHolders) = s.totalSupply + x
      BY <1>1, <1>4, <1>6
<1>8. h # "stabilityPool" => c["stabilityPool"] = b["stabilityPool"]
      BY <1>2, <1>5
<1> QED BY <1>3, <1>7, <1>8, SIMTyped DEF SIMClosed, b

\* Burning is minting a negative amount.
LEMMA BurnKeepsSum ==
    ASSUME NEW s \in SIMT, SIMClosed(s), NEW h \in SIMHolders, NEW x \in Int
    PROVE  /\ SIMClosed(burn(s, h, x))
           /\ burn(s, h, x).totalSupply = s.totalSupply - x
           /\ burn(s, h, x).balances["stabilityPool"] =
                 s.balances["stabilityPool"] - (IF h = "stabilityPool" THEN x ELSE 0)
<1> DEFINE m == mint(s, h, -x)
<1>0. -x \in Int
      OBVIOUS
<1>1. burn(s, h, x) = m
      BY DEF burn, mint, SIMT
<1>2. /\ SIMClosed(m) /\ m.totalSupply = s.totalSupply + (-x)
      /\ h # "stabilityPool" => m.balances["stabilityPool"] = s.balances["stabilityPool"]
      BY <1>0, MintKeepsSum
<1>3. h = "stabilityPool" => m.balances["stabilityPool"] = s.balances["stabilityPool"] - x
      BY DEF mint, SIMT
<1>4. s.totalSupply \in Int /\ s.balances["stabilityPool"] \in Int
      BY PoolsApart DEF SIMT, SIMContracts
<1> HIDE DEF m
<1> QED BY <1>1, <1>2, <1>3, <1>4

\* A borrower's SIM and the two halves of the fee are minted (_triggerBorrowingFee).
LEMMA BorrowKeepsSum ==
    ASSUME NEW s \in SIMT, SIMClosed(s), NEW b \in Accounts, NEW fee \in Int, NEW x \in Int
    PROVE  /\ SIMClosed(mint(_mintFee(s, fee), b, x))
           /\ mint(_mintFee(s, fee), b, x).totalSupply = s.totalSupply + x + fee
           /\ mint(_mintFee(s, fee), b, x).balances["stabilityPool"] = s.balances["stabilityPool"]
<1> DEFINE half == fee \div 2
           rest == fee - half
           m == mint(s, "simVeDistributor", half)
           n == mint(m, "feeReceiver", rest)
<1>1. /\ "simVeDistributor" \in SIMHolders /\ "feeReceiver" \in SIMHolders /\ b \in SIMHolders
      /\ b # "stabilityPool"
      BY PoolsApart DEF SIMContracts
<1>2. half \in Int /\ rest \in Int /\ half + rest = fee /\ s.totalSupply \in Int
      BY DivInt DEF SIMT
<1>3. n = _mintFee(s, fee)
      BY DEF _mintFee
<1> HIDE DEF half, rest
<1>4. /\ m \in SIMT /\ SIMClosed(m) /\ m.totalSupply = s.totalSupply + half
      /\ m.balances["stabilityPool"] = s.balances["stabilityPool"]
      BY <1>1, <1>2, MintKeepsSum
<1> HIDE DEF m
<1>5. /\ n \in SIMT /\ SIMClosed(n) /\ n.totalSupply = m.totalSupply + rest
      /\ n.balances["stabilityPool"] = m.balances["stabilityPool"]
      BY <1>1, <1>2, <1>4, MintKeepsSum
<1> HIDE DEF n
<1>6. /\ SIMClosed(mint(n, b, x)) /\ mint(n, b, x).totalSupply = n.totalSupply + x
      /\ mint(n, b, x).balances["stabilityPool"] = n.balances["stabilityPool"]
      BY <1>1, <1>5, MintKeepsSum
<1> QED BY <1>2, <1>3, <1>4, <1>5, <1>6

\* A transfer of SIM leaves supply and sum.
LEMMA SendingKeepsSum ==
    ASSUME NEW s \in SIMT, SIMClosed(s), NEW x \in SIMHolders, NEW y \in SIMHolders, NEW d \in Int
    PROVE  /\ SIMClosed(SentSIM(s, x, y, d)) /\ SentSIM(s, x, y, d).totalSupply = s.totalSupply
           /\ x = "stabilityPool" /\ y # "stabilityPool" =>
                 SentSIM(s, x, y, d).balances["stabilityPool"] = s.balances["stabilityPool"] - d
           /\ x # "stabilityPool" /\ y = "stabilityPool" =>
                 SentSIM(s, x, y, d).balances["stabilityPool"] = s.balances["stabilityPool"] + d
           /\ x # "stabilityPool" /\ y # "stabilityPool" =>
                 SentSIM(s, x, y, d).balances["stabilityPool"] = s.balances["stabilityPool"]
<1>1. /\ s.balances \in [SIMHolders -> Int] /\ "stabilityPool" \in SIMHolders
      BY PoolsApart DEF SIMT, SIMContracts
<1>2. /\ SentSIM(s, x, y, d).balances = Transferred(s.balances, x, y, d)
      /\ SentSIM(s, x, y, d).totalSupply = s.totalSupply
      BY DEF SentSIM, SIMT
<1>3. SumFunctionOnSet(Transferred(s.balances, x, y, d), SIMHolders) =
         SumFunctionOnSet(s.balances, SIMHolders)
      BY <1>1, TransferKeepsSum, HoldersFinite
<1>4. Transferred(s.balances, x, y, d)["stabilityPool"] =
         s.balances["stabilityPool"] - (IF x = "stabilityPool" THEN d ELSE 0)
                                     + (IF y = "stabilityPool" THEN d ELSE 0)
      BY <1>1 DEF Transferred
<1>5. s.balances["stabilityPool"] \in Int
      BY <1>1
<1> QED BY <1>2, <1>3, <1>4, <1>5 DEF SIMClosed

-----------------------------------------------------------------------------
(* What a trove is worth is not negative.                                  *)

\* A pending reward is not negative: no trove has seen more of the redistributions than there were.
LEMMA RewardNonNegative ==
    ASSUME Typed, TroveOK(Troves, rewardSnapshots, L), NEW b \in Accounts,
           NEW asset \in {"WSTETH", "SIMDebt"}
    PROVE  _pendingReward(b, asset) >= 0 /\ _appliedReward(b, asset) >= 0
<1> DEFINE gap == L[asset] - rewardSnapshots[b][asset]
           k == Troves[b].stake
<1>1. k \in Int /\ L[asset] \in Int /\ rewardSnapshots[b][asset] \in Int
      BY DEF Typed, TrovesTyped, LedgersTyped, TrovesT, TroveT, SnapshotsT, PairT
<1>2. k >= 0 /\ (isActive(b) => rewardSnapshots[b][asset] <= L[asset])
      BY DEF TroveOK, isActive
<1>3. gap \in Int /\ (isActive(b) => gap >= 0)
      BY <1>1, <1>2
<1> HIDE DEF gap, k
<1>4. isActive(b) => k * gap \in Int /\ k * gap >= 0
      BY <1>1, <1>2, <1>3, NonNegative
<1>5. isActive(b) => (k * gap) \div DECIMAL_PRECISION >= 0
      BY <1>4, NonNegative, PositiveConstants
<1>6. _pendingReward(b, asset) = IF isActive(b) THEN (k * gap) \div DECIMAL_PRECISION ELSE 0
      BY DEF _pendingReward, k, gap
<1>7. _pendingReward(b, asset) >= 0
      BY <1>5, <1>6
<1> QED BY <1>7 DEF _appliedReward

\* A trove's debt and collateral with its rewards.
LEMMA WorthNonNegative ==
    ASSUME Typed, TroveOK(Troves, rewardSnapshots, L), NEW b \in Accounts
    PROVE  /\ getEntireDebtAndColl(b).debt = Troves[b].debt + _pendingReward(b, "SIMDebt")
           /\ getEntireDebtAndColl(b).coll = Troves[b].coll + _pendingReward(b, "WSTETH")
           /\ getEntireDebtAndColl(b).debt >= 0 /\ getEntireDebtAndColl(b).coll >= 0
           /\ _debtNow(b) >= 0 /\ _collNow(b) >= 0
           /\ isActive(b) => _debtNow(b) >= MIN_NET_DEBT
<1>1. /\ Troves[b].debt \in Int /\ Troves[b].coll \in Int
      /\ Troves[b].debt >= 0 /\ Troves[b].coll >= 0
      /\ isActive(b) => Troves[b].debt >= MIN_NET_DEBT
      BY DEF Typed, TrovesTyped, TrovesT, TroveT, TroveOK, isActive
<1>2. /\ _pendingReward(b, "SIMDebt") >= 0 /\ _pendingReward(b, "WSTETH") >= 0
      /\ _appliedReward(b, "SIMDebt") >= 0 /\ _appliedReward(b, "WSTETH") >= 0
      BY RewardNonNegative
<1>3. /\ _pendingReward(b, "SIMDebt") \in Int /\ _pendingReward(b, "WSTETH") \in Int
      /\ _appliedReward(b, "SIMDebt") \in Int /\ _appliedReward(b, "WSTETH") \in Int
      BY RewardTyped
<1>4. /\ getEntireDebtAndColl(b).debt = Troves[b].debt + _pendingReward(b, "SIMDebt")
      /\ getEntireDebtAndColl(b).coll = Troves[b].coll + _pendingReward(b, "WSTETH")
      BY DEF getEntireDebtAndColl
<1>5. /\ _debtNow(b) = Troves[b].debt + _appliedReward(b, "SIMDebt")
      /\ _collNow(b) = Troves[b].coll + _appliedReward(b, "WSTETH")
      BY DEF _debtNow, _collNow
<1> QED BY <1>1, <1>2, <1>3, <1>4, <1>5, PositiveConstants

\* A new stake is not negative (_computeNewStake).
LEMMA StakeNonNegative ==
    ASSUME Typed, totalStakesSnapshot >= 0, NEW c \in Int, c >= 0
    PROVE  _computeNewStake(c) >= 0
<1>1. totalStakesSnapshot \in Int /\ totalCollateralSnapshot \in Int
      BY DEF Typed, LedgersTyped
<1>2. c * totalStakesSnapshot \in Int /\ c * totalStakesSnapshot >= 0
      BY <1>1, NonNegative
<1>3. totalCollateralSnapshot > 0 => (c * totalStakesSnapshot) \div totalCollateralSnapshot >= 0
      BY <1>1, <1>2, NonNegative
<1> QED BY <1>3 DEF _computeNewStake

\* The base rate stays non-negative as it decays, and no fee is negative.
LEMMA FeeNonNegative ==
    ASSUME Typed, baseRate >= 0
    PROVE  /\ _calcDecayedBaseRate >= 0
           /\ \A x \in Int : x >= 0 => _borrowingFee(x) >= 0
           /\ \A charged : _chargeFee(charged) => baseRate' >= 0
<1>1. now - lastFeeOperationTime \in 0..MaxTime
      BY AmountsAssumption DEF Typed, ClockTyped
<1>2. /\ DecayFactor(now - lastFeeOperationTime) \in Int
      /\ DecayFactor(now - lastFeeOperationTime) >= 0
      BY <1>1, DecayAssumption, PositiveConstants
<1>3. baseRate \in Int
      BY DEF Typed, ClockTyped
<1>4. /\ baseRate * DecayFactor(now - lastFeeOperationTime) \in Int
      /\ baseRate * DecayFactor(now - lastFeeOperationTime) >= 0
      BY <1>2, <1>3, NonNegative
<1>5. _calcDecayedBaseRate \in Int /\ _calcDecayedBaseRate >= 0
      BY <1>4, NonNegative, PositiveConstants, RateTyped DEF _calcDecayedBaseRate
<1>6. ASSUME NEW x \in Int, x >= 0 PROVE _borrowingFee(x) >= 0
      <2> DEFINE r == _min(FEE_FLOOR + _calcDecayedBaseRate, MAX_BORROWING_FEE)
      <2>1. r \in Int /\ r >= 0
            BY <1>5, FeeAssumption DEF _min
      <2> HIDE DEF r
      <2>2. r * x \in Int /\ r * x >= 0
            BY <1>6, <2>1, NonNegative
      <2>3. (r * x) \div DECIMAL_PRECISION >= 0
            BY <2>2, NonNegative, PositiveConstants
      <2> QED BY <2>3 DEF _borrowingFee, _calcBorrowingFee, r
<1>7. ASSUME NEW charged, _chargeFee(charged) PROVE baseRate' >= 0
      BY <1>5, <1>7 DEF _chargeFee, _updateBaseRate, rateVars
<1> QED BY <1>5, <1>6, <1>7

-----------------------------------------------------------------------------
(* What a liquidation counts adds up.                                      *)

\* Offset and redistribution divide the whole of a trove, and no more is offset than the pool has.
LEMMA OffsetAddsUp ==
    ASSUME NEW e \in EntireT, e.debt > 0, e.coll >= 0, NEW x \in Int, x >= 0
    PROVE  /\ ValsOK(_offsetAndRedistribute(e, x))
           /\ _offsetAndRedistribute(e, x).debt = e.debt /\ _offsetAndRedistribute(e, x).coll = e.coll
           /\ _offsetAndRedistribute(e, x).debtToOffset <= x
<1> DEFINE gas == _getCollGasCompensation(e.coll)
           coll == e.coll - gas
           offset == _min(e.debt, x)
           toSP == IF x > 0 THEN (coll * offset) \div e.debt ELSE 0
           v == _offsetAndRedistribute(e, x)
<1>1. e.debt \in Int /\ e.coll \in Int
      BY DEF EntireT
<1>2. gas \in Int /\ gas >= 0 /\ gas <= e.coll
      BY <1>1, NonNegative, PositiveConstants DEF _getCollGasCompensation
<1>3. v = [zeroVals EXCEPT !.debt = e.debt, !.coll = e.coll, !.gas = gas,
            !.debtToOffset = offset, !.collToSendToSP = toSP,
            !.debtToRedistribute = e.debt - offset, !.collToRedistribute = coll - toSP]
      BY Zenon DEF _offsetAndRedistribute
<1> HIDE DEF gas, v
<1>4. coll \in Int /\ coll >= 0 /\ coll = e.coll - gas
      BY <1>1, <1>2
<1> HIDE DEF coll
<1>5. /\ offset \in Int /\ 0 <= offset /\ offset <= e.debt /\ offset <= x
      /\ offset = 0 => ~(x > 0)
      /\ offset = e.debt => x > 0
      BY <1>1 DEF _min
<1> HIDE DEF offset
<1>6. /\ (coll * offset) \div e.debt \in Int /\ (coll * offset) \div e.debt <= coll
      /\ offset = e.debt => (coll * offset) \div e.debt = coll
      BY <1>1, <1>4, <1>5, ShareBounded
<1>7. /\ toSP \in Int /\ toSP <= coll
      /\ offset = 0 => toSP = 0
      /\ offset = e.debt => toSP = coll
      BY <1>4, <1>5, <1>6
<1> HIDE DEF toSP
<1>8. v = [debt |-> e.debt, coll |-> e.coll, gas |-> gas, debtToOffset |-> offset,
           collToSendToSP |-> toSP, debtToRedistribute |-> e.debt - offset,
           collToRedistribute |-> coll - toSP, collSurplus |-> 0]
      BY <1>3 DEF zeroVals
<1>9. ValsOK(v) /\ v.debt = e.debt /\ v.coll = e.coll /\ v.debtToOffset <= x
      BY <1>1, <1>2, <1>4, <1>5, <1>7, <1>8 DEF ValsOK
<1> QED BY <1>9 DEF v

\* A capped offset divides the whole of a trove between pool, liquidator and owner.
LEMMA CappedAddsUp ==
    ASSUME NEW e \in EntireT, e.debt >= 0, price \in Prices
    PROVE  /\ ValsOK(_cappedOffset(e))
           /\ _cappedOffset(e).debt = e.debt /\ _cappedOffset(e).coll = e.coll
           /\ _cappedOffset(e).debtToOffset = e.debt
<1> DEFINE capped == (e.debt * MCR) \div price
           gas == _getCollGasCompensation(capped)
           v == _cappedOffset(e)
<1>1. e.debt \in Int /\ e.coll \in Int /\ price \in Int /\ price > 0
      BY PricesAssumption DEF EntireT
<1>2. e.debt * MCR \in Int /\ (e.debt = 0 => e.debt * MCR = 0)
      BY <1>1, PositiveConstants
<1>3. capped \in Int /\ (e.debt = 0 => capped = 0)
      BY <1>1, <1>2, DivInt
<1>4. v = [zeroVals EXCEPT !.debt = e.debt, !.coll = e.coll, !.gas = gas,
            !.debtToOffset = e.debt, !.collToSendToSP = capped - gas,
            !.collSurplus = e.coll - capped]
      BY Zenon DEF _cappedOffset
<1> HIDE DEF capped, v
<1>5. gas \in Int /\ (e.debt = 0 => gas = 0)
      BY <1>3, GasTyped, PositiveConstants DEF _getCollGasCompensation
<1> HIDE DEF gas
<1>6. v = [debt |-> e.debt, coll |-> e.coll, gas |-> gas, debtToOffset |-> e.debt,
           collToSendToSP |-> capped - gas, debtToRedistribute |-> 0,
           collToRedistribute |-> 0, collSurplus |-> e.coll - capped]
      BY <1>4 DEF zeroVals
<1>7. ValsOK(v) /\ v.debt = e.debt /\ v.coll = e.coll /\ v.debtToOffset = e.debt
      BY <1>1, <1>3, <1>5, <1>6 DEF ValsOK
<1> QED BY <1>7 DEF v

\* So do the values of a trove liquidated in recovery mode, when there are any.
LEMMA RecoveryAddsUp ==
    ASSUME Typed, TroveOK(Troves, rewardSnapshots, L), NEW b \in Accounts, NEW x \in Int, x >= 0,
           NEW TCR, NEW v, v = _recoveryModeVals(b, x, TCR), v # zeroVals
    PROVE  /\ ValsOK(v) /\ v.debtToOffset <= x
           /\ v.debt = getEntireDebtAndColl(b).debt /\ v.coll = getEntireDebtAndColl(b).coll
<1> DEFINE e == getEntireDebtAndColl(b)
           ICR == getCurrentICR(b)
<1>1. e \in EntireT /\ ICR \in Int /\ (ICR < MCR => e.debt > 0) /\ e.debt >= 0 /\ e.coll >= 0
      BY ViewsTyped, WorthNonNegative
<1>2. ICR <= DECIMAL_PRECISION => e.debt > 0
      BY <1>1, PositiveConstants
<1>3. \/ e.debt > 0 /\ v = _offsetAndRedistribute(e, 0)
      \/ e.debt > 0 /\ v = _offsetAndRedistribute(e, x)
      \/ e.debt <= x /\ v = _cappedOffset(e)
      BY <1>1, <1>2 DEF _recoveryModeVals
<1> HIDE DEF e, ICR
<1>4. CASE e.debt > 0 /\ v = _offsetAndRedistribute(e, 0)
      <2>1. ValsOK(v) /\ v.debt = e.debt /\ v.coll = e.coll /\ v.debtToOffset <= 0
            BY <1>1, <1>4, OffsetAddsUp
      <2>2. v.debtToOffset <= x
            BY <1>4, <1>1, <2>1, OffsetTyped DEF ValsT
      <2> QED BY <2>1, <2>2 DEF e
<1>5. CASE e.debt > 0 /\ v = _offsetAndRedistribute(e, x)
      BY <1>1, <1>5, OffsetAddsUp DEF e
<1>6. CASE e.debt <= x /\ v = _cappedOffset(e)
      BY <1>1, <1>6, CappedAddsUp DEF e, Typed, ClockTyped
<1> QED BY <1>3, <1>4, <1>5, <1>6

\* And so do the totals.
LEMMA TotalsAddUp ==
    ASSUME NEW t \in ValsT, NEW v \in ValsT, ValsOK(t), ValsOK(v)
    PROVE  ValsOK(_addLiquidationValuesToTotals(t, v))
BY DEF ValsOK, ValsT, _addLiquidationValuesToTotals

\* Totals that count nothing add up.
LEMMA ZeroAddsUp == ValsOK(zeroVals)
BY DEF ValsOK, zeroVals

-----------------------------------------------------------------------------
(* Liquidations keep the books.                                            *)

\* What is open, by the kind of transaction.
LEMMA OpenCases ==
    /\ Open(idle).debt = 0 /\ Open(idle).coll = 0 /\ Open(idle).surplus = 0
    /\ \A f \in LiquidationFrame :
          /\ f # idle /\ f.at \in LoopNames
          /\ Open(f).debt = f.totals.debt /\ Open(f).coll = f.totals.coll
          /\ Open(f).surplus = f.totals.collSurplus
    /\ \A f \in RedemptionFrame :
          /\ f # idle /\ f.at \notin LoopNames
          /\ Open(f).debt = f.SIMToRedeem /\ Open(f).coll = f.WSTETHDrawn /\ Open(f).surplus = 0
<1>1. Open(idle).debt = 0 /\ Open(idle).coll = 0 /\ Open(idle).surplus = 0
      BY DEF Open, idle, LoopNames
<1>2. ASSUME NEW f \in LiquidationFrame
      PROVE  /\ f # idle /\ f.at \in LoopNames
             /\ Open(f).debt = f.totals.debt /\ Open(f).coll = f.totals.coll
             /\ Open(f).surplus = f.totals.collSurplus
      <2>1. f.at \in LoopNames
            BY DEF LiquidationFrame
      <2>2. f # idle
            BY <2>1 DEF LoopNames, idle
      <2> QED BY <2>1, <2>2 DEF Open
<1>3. ASSUME NEW f \in RedemptionFrame
      PROVE  /\ f # idle /\ f.at \notin LoopNames
             /\ Open(f).debt = f.SIMToRedeem /\ Open(f).coll = f.WSTETHDrawn /\ Open(f).surplus = 0
      <2>1. f.at \in {"redeem", "redeemed"}
            BY DEF RedemptionFrame
      <2>2. f # idle /\ f.at \notin LoopNames
            BY <2>1 DEF LoopNames, idle
      <2> QED BY <2>1, <2>2 DEF Open
<1> QED BY <1>1, <1>2, <1>3

\* The quantities of the books are integers.
LEMMA BooksTyped ==
    ASSUME IInv
    PROVE  /\ Debts(Troves) \in Int /\ Colls(Troves) \in Int /\ Stakes(Troves) \in Int
           /\ totalStakes \in Int /\ Total(surplus) \in Int /\ simToken.totalSupply \in Int
           /\ SIMDebt["activePool"] \in Int /\ SIMDebt["defaultPool"] \in Int
           /\ \A p \in PoolNames : funds.counter[p] \in Int
           /\ \A b \in Accounts : /\ Troves[b].debt \in Int /\ Troves[b].coll \in Int
                                  /\ Troves[b].stake \in Int /\ surplus[b] \in Int
<1>1. Typed
      BY DEF IInv
<1>2. Debts(Troves) \in Int /\ Colls(Troves) \in Int /\ Stakes(Troves) \in Int
      BY <1>1, TotalsAreInt DEF Typed, TrovesTyped
<1>3. Total(surplus) \in Int
      BY <1>1, SumType, FiniteAccountsAssumption DEF Typed, PoolsTyped, SurplusT, Total
<1>4. /\ totalStakes \in Int /\ simToken.totalSupply \in Int
      /\ SIMDebt["activePool"] \in Int /\ SIMDebt["defaultPool"] \in Int
      /\ \A p \in PoolNames : funds.counter[p] \in Int
      BY <1>1 DEF Typed, TrovesTyped, PoolsTyped, SIMT, DebtT, FundsT
<1>5. \A b \in Accounts : /\ Troves[b].debt \in Int /\ Troves[b].coll \in Int
                          /\ Troves[b].stake \in Int /\ surplus[b] \in Int
      BY <1>1 DEF Typed, TrovesTyped, PoolsTyped, TrovesT, TroveT, SurplusT
<1> QED BY <1>2, <1>3, <1>4, <1>5

\* A trove that closes leaves the totals; the owner moved in the array keeps its amounts.
LEMMA ClosedLeavesTotals ==
    ASSUME IInv, IInv', TroveOK(Troves, rewardSnapshots, L), NEW b \in Accounts,
           NEW st, st # "active", _closeTrove(b, st), UNCHANGED L
    PROVE  /\ Debts(Troves') = Debts(Troves) - Troves[b].debt
           /\ Colls(Troves') = Colls(Troves) - Troves[b].coll
           /\ Stakes(Troves') = Stakes(Troves) - Troves[b].stake
           /\ totalStakes' = totalStakes - Troves[b].stake
           /\ TroveOK(Troves', rewardSnapshots', L')
<1> DEFINE moved == Last(TroveOwners)
           index == Troves[b].arrayIndex
           r == [debt |-> 0, coll |-> 0, stake |-> 0, status |-> st, arrayIndex |-> index]
           t == [Troves EXCEPT ![b] = r]
<1>1. Troves \in TrovesT /\ Troves' \in TrovesT /\ rewardSnapshots \in SnapshotsT
      BY DEF IInv, Typed, TrovesTyped
<1>2. /\ Troves' = [t EXCEPT ![moved].arrayIndex = index]
      /\ rewardSnapshots' = [rewardSnapshots EXCEPT ![b] = zeroPair]
      /\ totalStakes' = totalStakes - Troves[b].stake
      BY DEF _closeTrove, _closed
<1>3. r.debt = 0 /\ r.coll = 0 /\ r.stake = 0 /\ r.status = st
      OBVIOUS
<1> HIDE DEF moved, index, r
<1>4. \A x \in Accounts : t[x] = IF x = b THEN r ELSE Troves[x]
      BY <1>1 DEF TrovesT
<1>5. DOMAIN t = Accounts
      BY <1>1 DEF TrovesT
<1> HIDE DEF t
<1>6. \A x \in Accounts : Troves'[x] = IF x = moved THEN [t[x] EXCEPT !.arrayIndex = index] ELSE t[x]
      BY <1>2, <1>5
<1>7. \A x \in Accounts : /\ Troves'[x].debt = t[x].debt /\ Troves'[x].coll = t[x].coll
                          /\ Troves'[x].stake = t[x].stake /\ Troves'[x].status = t[x].status
      <2> TAKE x \in Accounts
      <2>1. CASE x # moved
            BY <1>6, <2>1
      <2>2. CASE x = moved
            <3>1. Troves'[x] = [t[x] EXCEPT !.arrayIndex = index]
                  BY <1>6, <2>2
            <3>2. "debt" \in DOMAIN t[x] /\ "coll" \in DOMAIN t[x] /\ "stake" \in DOMAIN t[x]
                  /\ "status" \in DOMAIN t[x]
                  <4>1. CASE x = b
                        BY <1>4, <4>1 DEF r
                  <4>2. CASE x # b
                        BY <1>1, <1>4, <4>2 DEF TrovesT, TroveT
                  <4> QED BY <4>1, <4>2
            <3> QED BY <3>1, <3>2
      <2> QED BY <2>1, <2>2
<1>8. /\ Troves'[b].debt = 0 /\ Troves'[b].coll = 0 /\ Troves'[b].stake = 0
      /\ Troves'[b].status # "active"
      BY <1>3, <1>4, <1>7
<1>9. \A x \in Accounts : x # b =>
         /\ Troves'[x].debt = Troves[x].debt /\ Troves'[x].coll = Troves[x].coll
         /\ Troves'[x].stake = Troves[x].stake /\ Troves'[x].status = Troves[x].status
         /\ rewardSnapshots'[x] = rewardSnapshots[x]
      BY <1>1, <1>2, <1>4, <1>7 DEF SnapshotsT
<1>10. /\ Debts(Troves) \in Int /\ Debts(Troves') = Debts(Troves) - Troves[b].debt + Troves'[b].debt
       /\ Colls(Troves) \in Int /\ Colls(Troves') = Colls(Troves) - Troves[b].coll + Troves'[b].coll
       /\ Stakes(Troves) \in Int
       /\ Stakes(Troves') = Stakes(Troves) - Troves[b].stake + Troves'[b].stake
      BY <1>1, <1>9, OneTroveChanges
<1>11. TroveOK(Troves', rewardSnapshots', L')
      <2> SUFFICES ASSUME NEW x \in Accounts
                   PROVE  /\ Troves'[x].debt >= 0 /\ Troves'[x].coll >= 0 /\ Troves'[x].stake >= 0
                          /\ Troves'[x].status = "active" =>
                                /\ Troves'[x].debt >= MIN_NET_DEBT
                                /\ rewardSnapshots'[x].WSTETH <= L'.WSTETH
                                /\ rewardSnapshots'[x].SIMDebt <= L'.SIMDebt
          BY DEF TroveOK
      <2>1. CASE x = b
            BY <1>8, <2>1
      <2>2. CASE x # b
            BY <1>9, <2>2 DEF TroveOK
      <2> QED BY <2>1, <2>2
<1>12. Troves[b].debt \in Int /\ Troves[b].coll \in Int /\ Troves[b].stake \in Int
      BY BooksTyped
<1> QED BY <1>2, <1>8, <1>10, <1>11, <1>12

\* Pending rewards move from the default pool to the active pool.
LEMMA MoveKeepsBooks ==
    ASSUME IInv, FundsOff(funds, 0), NEW x \in Int, NEW y \in Int
    PROVE  /\ FundsOff(_fundsAfterMove(x), 0) /\ _fundsAfterMove(x) \in FundsT
           /\ _fundsAfterMove(x).counter["activePool"] = funds.counter["activePool"] + x
           /\ _fundsAfterMove(x).counter["collSurplusPool"] = funds.counter["collSurplusPool"]
           /\ _debtAfterMove(y) \in DebtT
           /\ _debtAfterMove(y)["activePool"] = SIMDebt["activePool"] + y
           /\ _debtAfterMove(y)["defaultPool"] = SIMDebt["defaultPool"] - y
<1>1. funds \in FundsT /\ SIMDebt \in DebtT /\ Typed
      BY DEF IInv, Typed, PoolsTyped
<1>2. /\ FundsOff(_fundsAfterMove(x), 0)
      /\ _fundsAfterMove(x).counter["activePool"] = funds.counter["activePool"] + x
      /\ _fundsAfterMove(x).counter["collSurplusPool"] = funds.counter["collSurplusPool"]
      BY <1>1, ToActiveKeepsFunds DEF _fundsAfterMove
<1>3. _debtAfterMove(y)["activePool"] = SIMDebt["activePool"] + y
      BY <1>1 DEF _debtAfterMove, changeSIMDebt, DebtT
<1>4. _debtAfterMove(y)["defaultPool"] = SIMDebt["defaultPool"] - y
      BY <1>1 DEF _debtAfterMove, changeSIMDebt, DebtT
<1>5. _debtAfterMove(y) \in DebtT /\ _fundsAfterMove(x) \in FundsT
      BY <1>1, MoveTyped
<1> QED BY <1>2, <1>3, <1>4, <1>5

\* A revert puts balanced books back.
LEMMA RevertBooks ==
    ASSUME IInv, BInv, tx # idle, Revert
    PROVE  BInv'
<1>1. FrameBooks(tx, simToken.totalSupply, L, totalSIMDeposits)
      BY DEF BInv
<1>2. /\ simToken' = simToken /\ L' = L /\ totalSIMDeposits' = totalSIMDeposits /\ tx' = idle
      /\ Troves' = tx.pre.Troves /\ rewardSnapshots' = tx.pre.rewardSnapshots
      /\ totalStakes' = tx.pre.totalStakes /\ funds' = tx.pre.funds /\ SIMDebt' = tx.pre.SIMDebt
      /\ surplus' = tx.pre.surplus
      /\ UNCHANGED <<lastError, totalStakesSnapshot, baseRate>>
      BY DEF Revert, ledgerVars, rateVars
<1>3. /\ Balanced(Troves', totalStakes', funds', SIMDebt', surplus', simToken'.totalSupply, Open(tx'))
      /\ TroveOK(Troves', rewardSnapshots', L')
      BY <1>1, <1>2 DEF FrameBooks
<1>4. /\ SIMClosed(simToken')
      /\ totalSIMDeposits' = simToken'.balances["stabilityPool"] /\ totalSIMDeposits' >= 0
      BY <1>2 DEF BInv
<1>5. RatesOK'
      BY <1>2 DEF BInv, RatesOK
<1> QED BY <1>2, <1>3, <1>4, <1>5 DEF BInv

\* A step that only moves the frame on.
LEMMA GoOnBooks ==
    ASSUME BInv, NEW f, Open(f) = Open(tx),
           FrameBooks(f, simToken.totalSupply, L, totalSIMDeposits), _goOn(f)
    PROVE  BInv'
<1>1. /\ tx' = f
      /\ UNCHANGED <<funds, SIMDebt, surplus, totalSIMDeposits, simToken>>
      /\ UNCHANGED <<Troves, rewardSnapshots, totalStakes>>
      /\ UNCHANGED <<L, lastError, totalStakesSnapshot, baseRate>>
      BY DEF _goOn, poolVars, troveVars, ledgerVars, rateVars
<1>2. Balanced(Troves', totalStakes', funds', SIMDebt', surplus', simToken'.totalSupply, Open(tx'))
      BY <1>1 DEF BInv
<1>3. /\ SIMClosed(simToken')
      /\ totalSIMDeposits' = simToken'.balances["stabilityPool"] /\ totalSIMDeposits' >= 0
      /\ TroveOK(Troves', rewardSnapshots', L')
      BY <1>1 DEF BInv
<1>4. RatesOK'
      BY <1>1 DEF BInv, RatesOK
<1>5. FrameBooks(tx', simToken'.totalSupply, L', totalSIMDeposits')
      BY <1>1
<1> QED BY <1>2, <1>3, <1>4, <1>5 DEF BInv

\* Frame a has the books of the running transaction.
SameBooks(a) == a.pre = tx.pre /\ a.totals = tx.totals /\ a.remainingSIM = tx.remainingSIM

\* Frame f takes the system to be in recovery mode, and frame a has not changed its mind.
Recovers(f) == f.at \in {"sequenceRecovery", "batchRecovery"} /\ ~f.backToNormalMode
SameMode(a) ==
    /\ a.at = tx.at /\ a.backToNormalMode = tx.backToNormalMode
    /\ a.entireSystemDebt = tx.entireSystemDebt /\ a.entireSystemColl = tx.entireSystemColl

\* A trove is liquidated: what it had, rewards included, is taken from the troves and counted in
\* the totals.
LEMMA LiquidateTroveBooks ==
    ASSUME IInv, IInv', BInv, tx \in LiquidationFrame, NEW b \in Accounts, NEW v \in ValsT,
           ValsOK(v), v.debtToOffset <= tx.remainingSIM,
           v.debt = getEntireDebtAndColl(b).debt, v.coll = getEntireDebtAndColl(b).coll,
           NEW a \in LiquidationFrame, SameBooks(a), _liquidateTrove(b, v, a)
    PROVE  BInv'
<1>0. tx # idle /\ Typed
      BY OpenCases DEF IInv
<1>1. CASE ~_moreThanOneTroveInSystem
      BY <1>0, <1>1, RevertBooks DEF _liquidateTrove
<1>2. CASE _moreThanOneTroveInSystem
      <2> DEFINE W == _pendingReward(b, "WSTETH")
                 S == _pendingReward(b, "SIMDebt")
      <2>1. /\ _closeTrove(b, "closedByLiquidation")
            /\ SIMDebt' = _debtAfterMove(S)
            /\ funds' = _fundsAfterMove(W)
            /\ surplus' = [surplus EXCEPT ![b] = @ + v.collSurplus]
            /\ tx' = [a EXCEPT !.remainingSIM = @ - v.debtToOffset,
                               !.totals = _addLiquidationValuesToTotals(@, v)]
            /\ UNCHANGED <<totalSIMDeposits, simToken>>
            /\ UNCHANGED <<totalStakesSnapshot, L, lastError, baseRate>>
            BY <1>2 DEF _liquidateTrove, ledgerVars, rateVars
      <2>2. /\ W \in Int /\ S \in Int
            /\ v.debt = Troves[b].debt + S /\ v.coll = Troves[b].coll + W
            BY <1>0, RewardTyped, WorthNonNegative DEF BInv
      <2> HIDE DEF W, S
      <2>3. Balanced(Troves, totalStakes, funds, SIMDebt, surplus, simToken.totalSupply, Open(tx))
            BY DEF BInv
      <2>4. /\ Debts(Troves') = Debts(Troves) - Troves[b].debt
            /\ Colls(Troves') = Colls(Troves) - Troves[b].coll
            /\ Stakes(Troves') = Stakes(Troves) - Troves[b].stake
            /\ totalStakes' = totalStakes - Troves[b].stake
            /\ TroveOK(Troves', rewardSnapshots', L')
            BY <2>1, ClosedLeavesTotals DEF BInv
      <2>5. /\ FundsOff(funds', 0)
            /\ funds'.counter["activePool"] = funds.counter["activePool"] + W
            /\ funds'.counter["collSurplusPool"] = funds.counter["collSurplusPool"]
            /\ SIMDebt'["activePool"] = SIMDebt["activePool"] + S
            /\ SIMDebt'["defaultPool"] = SIMDebt["defaultPool"] - S
            BY <2>1, <2>2, <2>3, MoveKeepsBooks DEF Balanced
      <2>6. Total(surplus') = Total(surplus) + v.collSurplus
            <3>1. surplus \in SurplusT /\ surplus[b] \in Int /\ v.collSurplus \in Int
                  BY <1>0 DEF Typed, PoolsTyped, SurplusT, ValsT
            <3> DEFINE z == surplus[b] + v.collSurplus
            <3>2. z \in Int /\ surplus' = [surplus EXCEPT ![b] = z]
                  BY <2>1, <3>1
            <3>3. Total(surplus) \in Int /\ Total(surplus') = Total(surplus) - surplus[b] + z
                  <4> HIDE DEF z
                  <4> QED BY <3>1, <3>2, SurplusChanges
            <3> QED BY <3>1, <3>3
      <2>7. /\ tx' \in LiquidationFrame /\ tx'.pre = tx.pre
            /\ tx'.totals = _addLiquidationValuesToTotals(tx.totals, v)
            /\ tx'.remainingSIM = tx.remainingSIM - v.debtToOffset
            <3> DEFINE t == _addLiquidationValuesToTotals(a.totals, v)
                       d == a.remainingSIM - v.debtToOffset
            <3>1. tx' = [a EXCEPT !.remainingSIM = d, !.totals = t]
                  BY <2>1
            <3>2. d \in Int /\ t \in ValsT
                  <4>1. a.totals \in ValsT /\ a.remainingSIM \in Int /\ v.debtToOffset \in Int
                        BY DEF LiquidationFrame, ValsT
                  <4> QED BY <4>1, TotalsTyped
            <3> HIDE DEF d, t
            <3>3. tx' \in LiquidationFrame /\ tx'.pre = a.pre /\ tx'.totals = t /\ tx'.remainingSIM = d
                  BY <3>1, <3>2 DEF LiquidationFrame
            <3> QED BY <3>3 DEF SameBooks, d, t
      <2>8. /\ tx.totals \in ValsT /\ tx.remainingSIM \in Int
            /\ v.debt \in Int /\ v.coll \in Int /\ v.collSurplus \in Int /\ v.debtToOffset \in Int
            /\ tx.totals.debt \in Int /\ tx.totals.coll \in Int /\ tx.totals.collSurplus \in Int
            /\ tx.totals.debtToOffset \in Int
            BY DEF LiquidationFrame, ValsT
      <2>9. /\ tx'.totals.debt = tx.totals.debt + v.debt /\ tx'.totals.coll = tx.totals.coll + v.coll
            /\ tx'.totals.collSurplus = tx.totals.collSurplus + v.collSurplus
            /\ tx'.totals.debtToOffset = tx.totals.debtToOffset + v.debtToOffset
            BY <2>7 DEF _addLiquidationValuesToTotals
      <2>10. /\ Open(tx).debt = tx.totals.debt /\ Open(tx).coll = tx.totals.coll
             /\ Open(tx).surplus = tx.totals.collSurplus
             /\ Open(tx').debt = tx'.totals.debt /\ Open(tx').coll = tx'.totals.coll
             /\ Open(tx').surplus = tx'.totals.collSurplus
             /\ tx.at \in LoopNames
            BY <2>7, OpenCases
      <2>11. Balanced(Troves', totalStakes', funds', SIMDebt', surplus', simToken'.totalSupply, Open(tx'))
            <3>1. /\ funds.counter["activePool"] \in Int /\ funds.counter["collSurplusPool"] \in Int
                  BY BooksTyped DEF PoolNames
            <3>2. simToken' = simToken
                  BY <2>1
            <3>3. /\ SIMDebt["activePool"] \in Int /\ SIMDebt["defaultPool"] \in Int
                  /\ Debts(Troves) \in Int /\ Colls(Troves) \in Int /\ Stakes(Troves) \in Int
                  /\ Total(surplus) \in Int
                  /\ Troves[b].debt \in Int /\ Troves[b].coll \in Int /\ Troves[b].stake \in Int
                  BY BooksTyped
            <3>4. simToken'.totalSupply = SIMDebt'["activePool"] + SIMDebt'["defaultPool"]
                  BY <2>2, <2>3, <2>5, <3>2, <3>3 DEF Balanced
            <3>5. SIMDebt'["activePool"] = Debts(Troves') + Open(tx').debt
                  BY <2>2, <2>3, <2>4, <2>5, <2>8, <2>9, <2>10, <3>3 DEF Balanced
            <3>6. funds'.counter["activePool"] = Colls(Troves') + Open(tx').coll
                  BY <2>2, <2>3, <2>4, <2>5, <2>8, <2>9, <2>10, <3>1, <3>3 DEF Balanced
            <3>7. totalStakes' = Stakes(Troves')
                  BY <2>3, <2>4 DEF Balanced
            <3>8. Total(surplus') = funds'.counter["collSurplusPool"] + Open(tx').surplus
                  BY <2>3, <2>5, <2>6, <2>8, <2>9, <2>10, <3>1 DEF Balanced
            <3> QED BY <2>5, <3>4, <3>5, <3>6, <3>7, <3>8 DEF Balanced
      <2>12. FrameBooks(tx', simToken'.totalSupply, L', totalSIMDeposits')
            <3>1. FrameBooks(tx, simToken.totalSupply, L, totalSIMDeposits)
                  BY <1>0 DEF BInv
            <3>2. /\ ValsOK(tx.totals) /\ tx.remainingSIM = totalSIMDeposits - tx.totals.debtToOffset
                  BY <2>10, <3>1 DEF FrameBooks
            <3>3. ValsOK(tx'.totals)
                  BY <2>7, <2>8, <3>2, TotalsAddUp
            <3>4. totalSIMDeposits \in Int
                  BY <1>0 DEF Typed, PoolsTyped
            <3>5. /\ tx'.remainingSIM = totalSIMDeposits - tx'.totals.debtToOffset
                  /\ tx'.remainingSIM >= 0
                  BY <2>7, <2>8, <2>9, <3>2, <3>4
            <3> QED BY <2>1, <2>7, <3>1, <3>3, <3>5 DEF FrameBooks
      <2>13. RatesOK' /\ SIMClosed(simToken') /\ totalSIMDeposits' = simToken'.balances["stabilityPool"]
             /\ totalSIMDeposits' >= 0
            BY <2>1 DEF BInv, RatesOK
      <2> QED BY <2>4, <2>11, <2>12, <2>13 DEF BInv
<1> QED BY <1>1, <1>2

\* A loop goes on with the same books.
LEMMA SkipBooks ==
    ASSUME IInv, BInv, tx \in LiquidationFrame, NEW a \in LiquidationFrame, SameBooks(a), _goOn(a)
    PROVE  BInv'
<1>1. /\ tx # idle /\ tx.at \in LoopNames /\ a.at \in LoopNames
      BY OpenCases
<1>2. Open(a) = Open(tx)
      BY <1>1 DEF Open, SameBooks
<1>3. FrameBooks(tx, simToken.totalSupply, L, totalSIMDeposits)
      BY <1>1 DEF BInv
<1>4. FrameBooks(a, simToken.totalSupply, L, totalSIMDeposits)
      BY <1>1, <1>3 DEF FrameBooks, SameBooks
<1> QED BY <1>2, <1>4, GoOnBooks

\* What the books say of the running liquidation.
LEMMA RunningLiquidation ==
    ASSUME IInv, BInv, tx \in LiquidationFrame
    PROVE  /\ Typed /\ TroveOK(Troves, rewardSnapshots, L)
           /\ tx.remainingSIM \in Int /\ tx.remainingSIM >= 0
<1>1. tx # idle /\ tx.at \in LoopNames
      BY OpenCases
<1>2. tx.remainingSIM >= 0
      BY <1>1 DEF BInv, FrameBooks
<1> QED BY <1>2 DEF IInv, BInv, LiquidationFrame

\* An iteration in normal mode.
LEMMA NormalIterationBooks ==
    ASSUME IInv, IInv', BInv, tx \in LiquidationFrame, NEW b \in Accounts, getCurrentICR(b) < MCR,
           NEW a \in LiquidationFrame, SameBooks(a), _iterateNormal(b, a)
    PROVE  BInv'
<1> DEFINE e == getEntireDebtAndColl(b)
           v == _normalModeVals(b, tx.remainingSIM)
<1>1. /\ Typed /\ TroveOK(Troves, rewardSnapshots, L)
      /\ tx.remainingSIM \in Int /\ tx.remainingSIM >= 0
      BY RunningLiquidation
<1>2. e \in EntireT /\ e.debt > 0 /\ e.coll >= 0
      BY <1>1, ViewsTyped, WorthNonNegative
<1>3. v \in ValsT
      BY <1>1, NormalValsTyped
<1>4. ValsOK(v) /\ v.debt = e.debt /\ v.coll = e.coll /\ v.debtToOffset <= tx.remainingSIM
      BY <1>1, <1>2, OffsetAddsUp DEF _normalModeVals
<1>5. _liquidateTrove(b, v, a)
      BY DEF _iterateNormal
<1> HIDE DEF v
<1> QED BY <1>3, <1>4, <1>5, LiquidateTroveBooks

\* An iteration in recovery mode.
LEMMA RecoveryIterationBooks ==
    ASSUME IInv, IInv', BInv, tx \in LiquidationFrame, NEW b \in Accounts,
           NEW a \in LiquidationFrame, SameBooks(a), _iterateRecovery(b, a)
    PROVE  BInv'
<1> DEFINE TCR == _computeCR(tx.entireSystemColl, tx.entireSystemDebt, price)
           v == _recoveryModeVals(b, tx.remainingSIM, TCR)
           debt == tx.entireSystemDebt - v.debtToOffset
           coll == tx.entireSystemColl - v.collToSendToSP - v.gas - v.collSurplus
           back == ~_checkPotentialRecoveryMode(coll, debt, price)
           f == [a EXCEPT !.entireSystemDebt = debt, !.entireSystemColl = coll,
                          !.backToNormalMode = back]
<1>1. IF v = zeroVals THEN _goOn(f) ELSE _liquidateTrove(b, v, f)
      BY Zenon DEF _iterateRecovery
<1>2. /\ tx.remainingSIM \in Int /\ tx.entireSystemDebt \in Int /\ tx.entireSystemColl \in Int
      BY DEF LiquidationFrame
<1>3. /\ Typed /\ TroveOK(Troves, rewardSnapshots, L) /\ tx.remainingSIM >= 0
      BY RunningLiquidation
<1>4. v \in ValsT
      BY <1>2, <1>3, RecoveryValsTyped
<1>5. v # zeroVals =>
         /\ ValsOK(v) /\ v.debtToOffset <= tx.remainingSIM
         /\ v.debt = getEntireDebtAndColl(b).debt /\ v.coll = getEntireDebtAndColl(b).coll
      BY <1>2, <1>3, RecoveryAddsUp
<1> HIDE DEF v
<1>6. debt \in Int /\ coll \in Int
      BY <1>2, <1>4 DEF ValsT
<1>7. back \in BOOLEAN
      BY DEF _checkPotentialRecoveryMode
<1> HIDE DEF debt, coll, back
<1>8. f \in LiquidationFrame /\ SameBooks(f)
      BY <1>6, <1>7 DEF LiquidationFrame, SameBooks
<1> HIDE DEF f
<1> QED BY <1>1, <1>4, <1>5, <1>8, SkipBooks, LiquidateTroveBooks

\* The end of a loop.
LEMMA BreakBooks ==
    ASSUME IInv, BInv, tx \in LiquidationFrame, _break
    PROVE  BInv'
<1> DEFINE f == [tx EXCEPT !.at = "settle"]
<1>1. f \in LiquidationFrame /\ SameBooks(f)
      BY DEF LiquidationFrame, LoopNames, SameBooks
<1>2. _goOn(f)
      BY DEF _break
<1> HIDE DEF f
<1> QED BY <1>1, <1>2, SkipBooks

\* What an iteration of a loop is: it ends the loop, passes a trove by, or liquidates it, in normal
\* mode below MCR only, in recovery mode while the loop takes the system to be in it.
LEMMA LoopCases ==
    ASSUME IInv, tx \in LiquidationFrame,
           SequenceNormalMode \/ SequenceRecoveryMode \/ BatchNormalMode \/ BatchRecoveryMode
    PROVE  \/ _break
           \/ \E b \in Accounts, a \in LiquidationFrame :
                 /\ SameBooks(a) /\ SameMode(a)
                 /\ \/ _goOn(a)
                    \/ getCurrentICR(b) < MCR /\ ~Recovers(tx) /\ _iterateNormal(b, a)
                    \/ Recovers(tx) /\ _iterateRecovery(b, a)
<1>1. CASE SequenceNormalMode
      <2> DEFINE a == [tx EXCEPT !.n = @ - 1]
      <2>1. a \in LiquidationFrame /\ SameBooks(a) /\ SameMode(a)
            BY DEF LiquidationFrame, SameBooks, SameMode
      <2>2. \/ _break
            \/ getLast # NULL /\ getCurrentICR(getLast) < MCR /\ _iterateNormal(getLast, a)
            BY <1>1 DEF SequenceNormalMode
      <2>3. getLast \in Accounts \cup {NULL} /\ ~Recovers(tx)
            BY <1>1, LastIsAccount DEF SequenceNormalMode, Recovers
      <2> HIDE DEF a
      <2> QED BY <2>1, <2>2, <2>3
<1>2. CASE SequenceRecoveryMode
      <2> DEFINE b == tx.user
                 q == _getPrev(tx.user)
                 a == [tx EXCEPT !.n = @ - 1, !.user = q]
      <2>1. /\ tx.at = "sequenceRecovery"
            /\ \/ _break
               \/ /\ b # tx.firstUser
                  /\ \/ ~tx.backToNormalMode /\ _iterateRecovery(b, a)
                     \/ tx.backToNormalMode /\ getCurrentICR(b) < MCR /\ _iterateNormal(b, a)
            BY <1>2 DEF SequenceRecoveryMode
      <2>2. CASE b # tx.firstUser
            <3>1. OwnersOK(Troves, TroveOwners, sortedTroves) /\ Walks(tx, sortedTroves)
                  BY DEF IInv, FrameOK, LiquidationFrame, LoopNames, idle
            <3>2. sortedTroves \in Seq(Accounts) /\ NoRepeats(sortedTroves)
                  BY <3>1 DEF OwnersOK
            <3>3. PICK k \in 1..Len(sortedTroves) : sortedTroves[k] = b
                  BY <2>1, <2>2, <3>1 DEF Walks
            <3>4. b \in Accounts
                  BY <3>2, <3>3
            <3>5. q = IF k = 1 THEN NULL ELSE sortedTroves[k - 1]
                  BY <3>2, <3>3, PreviousIsListed
            <3>6. k # 1 => k - 1 \in 1..Len(sortedTroves)
                  BY <3>2
            <3>7. q \in Accounts \cup {NULL}
                  BY <3>2, <3>5, <3>6
            <3> HIDE DEF q
            <3>8. tx.n - 1 \in Int
                  BY DEF LiquidationFrame
            <3>9. a \in LiquidationFrame /\ SameBooks(a) /\ SameMode(a)
                  BY <3>7, <3>8 DEF LiquidationFrame, SameBooks, SameMode
            <3>10. Recovers(tx) <=> ~tx.backToNormalMode
                  BY <2>1 DEF Recovers
            <3> HIDE DEF a, b
            <3> QED BY <2>1, <3>4, <3>9, <3>10
      <2> QED BY <2>1, <2>2
<1>3. CASE BatchNormalMode \/ BatchRecoveryMode
      <2> DEFINE b == Head(tx.troveArray)
                 a == [tx EXCEPT !.troveArray = Tail(@)]
      <2>1. \/ _break
            \/ /\ tx.troveArray # << >>
               /\ \/ Recovers(tx) /\ _iterateRecovery(b, a)
                  \/ getCurrentICR(b) < MCR /\ ~Recovers(tx) /\ _iterateNormal(b, a)
                  \/ _goOn(a)
            BY <1>3 DEF BatchNormalMode, BatchRecoveryMode, Recovers
      <2>2. tx.troveArray # << >> => b \in Accounts /\ Tail(tx.troveArray) \in Seq(Accounts)
            BY DEF LiquidationFrame
      <2>3. tx.troveArray # << >> => a \in LiquidationFrame /\ SameBooks(a) /\ SameMode(a)
            BY <2>2 DEF LiquidationFrame, SameBooks, SameMode
      <2> HIDE DEF a, b
      <2> QED BY <2>1, <2>2, <2>3
<1> QED BY <1>1, <1>2, <1>3

\* The four loops.
LEMMA LoopBooks ==
    ASSUME IInv, IInv', BInv, tx \in LiquidationFrame,
           SequenceNormalMode \/ SequenceRecoveryMode \/ BatchNormalMode \/ BatchRecoveryMode
    PROVE  BInv'
<1>1. CASE _break
      BY <1>1, BreakBooks
<1>2. ASSUME NEW b \in Accounts, NEW a \in LiquidationFrame, SameBooks(a),
             \/ _goOn(a)
             \/ getCurrentICR(b) < MCR /\ _iterateNormal(b, a)
             \/ _iterateRecovery(b, a)
      PROVE  BInv'
      BY <1>2, SkipBooks, NormalIterationBooks, RecoveryIterationBooks
<1> QED BY <1>1, <1>2, LoopCases

\* The settlement offsets, redistributes and sends out just what the loop has taken.
LEMMA LiquidationSettlesBooks ==
    ASSUME IInv, IInv', BInv, tx \in LiquidationFrame, LiquidationSettles
    PROVE  BInv'
<1>0. tx # idle /\ tx.at \in LoopNames /\ Typed
      BY OpenCases DEF IInv
<1> DEFINE settles == tx.totals.debt > 0 /\ (tx.totals.debtToRedistribute > 0 => totalStakes > 0)
           v == tx.totals
<1>1. CASE ~settles
      BY <1>0, <1>1, RevertBooks DEF LiquidationSettles
<1>2. CASE settles
      <2>1. /\ totalSIMDeposits' = totalSIMDeposits - _offsetDebt
            /\ simToken' = burn(simToken, "stabilityPool", _offsetDebt)
            /\ SIMDebt' = _debtAfterSettling
            /\ funds' = sendWSTETH(_fundsAfterSurplus, tx.caller, v.gas)
            /\ _redistributeDebtAndColl
            /\ _updateSystemSnapshots_excludeCollRemainder
            /\ tx' = idle
            /\ UNCHANGED <<surplus, Troves, rewardSnapshots, totalStakes, baseRate>>
            BY <1>2 DEF LiquidationSettles, troveVars, rateVars
      <2>2. /\ v.debt \in Int /\ v.coll \in Int /\ v.gas \in Int /\ v.debtToOffset \in Int
            /\ v.collToSendToSP \in Int /\ v.debtToRedistribute \in Int
            /\ v.collToRedistribute \in Int /\ v.collSurplus \in Int
            /\ tx.caller \in Accounts /\ totalSIMDeposits \in Int /\ tx.remainingSIM \in Int
            BY <1>0 DEF LiquidationFrame, ValsT, Typed, PoolsTyped
      <2>3. /\ ValsOK(v) /\ tx.remainingSIM = totalSIMDeposits - v.debtToOffset /\ tx.remainingSIM >= 0
            BY <1>0 DEF BInv, FrameBooks
      <2>4. /\ _offsetDebt = v.debtToOffset
            /\ _offsets <=> v.debtToOffset > 0
            BY <2>2, <2>3 DEF _offsets, _offsetDebt, ValsOK
      <2>5. /\ Balanced(Troves, totalStakes, funds, SIMDebt, surplus, simToken.totalSupply, Open(tx))
            /\ SIMClosed(simToken) /\ totalSIMDeposits = simToken.balances["stabilityPool"]
            /\ totalSIMDeposits >= 0
            /\ TroveOK(Troves, rewardSnapshots, L) /\ RatesOK
            BY DEF BInv
      <2>6. /\ Open(tx).debt = v.debt /\ Open(tx).coll = v.coll /\ Open(tx).surplus = v.collSurplus
            /\ Open(tx').debt = 0 /\ Open(tx').coll = 0 /\ Open(tx').surplus = 0
            BY <2>1, OpenCases
      <2>7. /\ SIMClosed(simToken') /\ simToken'.totalSupply = simToken.totalSupply - v.debtToOffset
            /\ totalSIMDeposits' = simToken'.balances["stabilityPool"] /\ totalSIMDeposits' >= 0
            <3>1. "stabilityPool" \in SIMHolders /\ simToken \in SIMT
                  BY <1>0, PoolsApart DEF SIMContracts, Typed, PoolsTyped
            <3>2. /\ SIMClosed(simToken') /\ simToken'.totalSupply = simToken.totalSupply - v.debtToOffset
                  /\ simToken'.balances["stabilityPool"] =
                        simToken.balances["stabilityPool"] - v.debtToOffset
                  BY <2>1, <2>2, <2>4, <2>5, <3>1, BurnKeepsSum
            <3> QED BY <2>1, <2>2, <2>3, <2>4, <2>5, <3>2
      <2>8. /\ SIMDebt'["activePool"] = SIMDebt["activePool"] - v.debtToOffset - v.debtToRedistribute
            /\ SIMDebt'["defaultPool"] = SIMDebt["defaultPool"] + v.debtToRedistribute
            BY <1>0, <2>1, <2>2, <2>4 DEF _debtAfterSettling, changeSIMDebt, Typed, PoolsTyped, DebtT
      <2>9. /\ FundsOff(funds', 0)
            /\ funds'.counter["activePool"] = funds.counter["activePool"] - v.coll
            /\ funds'.counter["collSurplusPool"] = funds.counter["collSurplusPool"] + v.collSurplus
            <3> DEFINE f1 == _fundsAfterOffset
                       f2 == _fundsAfterRedistribution
                       f3 == _fundsAfterSurplus
            <3>1. funds \in FundsT /\ FundsOff(funds, 0) /\ 0 \in Int
                  BY <1>0, <2>5 DEF Typed, PoolsTyped, Balanced
            <3>2. /\ "defaultPool" \in Holders /\ "stabilityPool" \in Holders
                  /\ "collSurplusPool" \in Holders /\ tx.caller \in Holders
                  /\ tx.caller # "activePool" /\ tx.caller # "collSurplusPool"
                  BY <2>2, PoolsApart DEF PoolNames
            <3>3. /\ f1 \in FundsT /\ FundsOff(f1, 0)
                  /\ f1.counter["activePool"] = funds.counter["activePool"] - v.collToSendToSP
                  /\ f1.counter["collSurplusPool"] = funds.counter["collSurplusPool"]
                  <4>0. /\ funds.counter["activePool"] \in Int
                        /\ funds.counter["collSurplusPool"] \in Int
                        BY <3>1 DEF FundsT, PoolNames
                  <4>1. CASE _offsets
                        <5>1. f1 = sendWSTETH(funds, "stabilityPool", v.collToSendToSP)
                              BY <4>1 DEF _fundsAfterOffset
                        <5> QED BY <2>2, <3>1, <3>2, <4>0, <5>1, SendKeepsFunds
                  <4>2. CASE ~_offsets
                        <5>1. f1 = funds
                              BY <4>2 DEF _fundsAfterOffset
                        <5>2. v.collToSendToSP = 0
                              BY <2>2, <2>3, <2>4, <4>2 DEF ValsOK
                        <5> QED BY <3>1, <4>0, <5>1, <5>2
                  <4> QED BY <4>1, <4>2
            <3> HIDE DEF f1
            <3>4. /\ f2 \in FundsT /\ FundsOff(f2, 0)
                  /\ f2.counter["activePool"] = f1.counter["activePool"] - v.collToRedistribute
                  /\ f2.counter["collSurplusPool"] = f1.counter["collSurplusPool"]
                  <4>0. /\ f1.counter["activePool"] \in Int /\ f1.counter["collSurplusPool"] \in Int
                        BY <3>3 DEF FundsT, PoolNames
                  <4>1. CASE v.debtToRedistribute > 0
                        <5>1. f2 = sendWSTETH(f1, "defaultPool", v.collToRedistribute)
                              BY <4>1 DEF _fundsAfterRedistribution, f1
                        <5> QED BY <2>2, <3>2, <3>3, <4>0, <5>1, SendKeepsFunds
                  <4>2. CASE ~(v.debtToRedistribute > 0)
                        <5>1. f2 = f1
                              BY <4>2 DEF _fundsAfterRedistribution, f1
                        <5>2. v.collToRedistribute = 0
                              BY <2>2, <2>3, <4>2 DEF ValsOK
                        <5> QED BY <3>3, <4>0, <5>1, <5>2
                  <4> QED BY <4>1, <4>2
            <3> HIDE DEF f2
            <3>5. /\ f3 \in FundsT /\ FundsOff(f3, 0)
                  /\ f3.counter["activePool"] = f2.counter["activePool"] - v.collSurplus
                  /\ f3.counter["collSurplusPool"] = f2.counter["collSurplusPool"] + v.collSurplus
                  <4>1. f3 = sendWSTETH(f2, "collSurplusPool", v.collSurplus)
                        BY DEF _fundsAfterSurplus, f2
                  <4> HIDE DEF f3
                  <4>2. PICK to \in Holders, x \in Int :
                           to = "collSurplusPool" /\ to # "activePool" /\ x = v.collSurplus
                        BY <2>2, <3>2
                  <4>3. f3 = sendWSTETH(f2, to, x) /\ f2 \in FundsT /\ FundsOff(f2, 0)
                        BY <3>4, <4>1, <4>2
                  <4>4. /\ f3 \in FundsT /\ FundsOff(f3, 0)
                        /\ f3.counter["activePool"] = f2.counter["activePool"] - x
                        /\ f3.counter["collSurplusPool"] = f2.counter["collSurplusPool"] + x
                        BY ONLY <4>2, <4>3, SendKeepsFunds
                  <4> QED BY <4>2, <4>4
            <3> HIDE DEF f3
            <3>6. /\ FundsOff(funds', 0)
                  /\ funds'.counter["activePool"] = f3.counter["activePool"] - v.gas
                  /\ funds'.counter["collSurplusPool"] = f3.counter["collSurplusPool"]
                  <4>1. funds' = sendWSTETH(f3, tx.caller, v.gas)
                        BY <2>1 DEF f3
                  <4>2. f3.counter["collSurplusPool"] \in Int
                        BY <3>5 DEF FundsT, PoolNames
                  <4> QED BY <2>2, <3>2, <3>5, <4>1, <4>2, SendKeepsFunds
            <3>7. /\ funds.counter["activePool"] \in Int /\ funds.counter["collSurplusPool"] \in Int
                  BY <3>1 DEF FundsT, PoolNames
            <3>8. v.coll = v.gas + v.collToSendToSP + v.collToRedistribute + v.collSurplus
                  BY <2>3 DEF ValsOK
            <3> QED BY <2>2, <3>3, <3>4, <3>5, <3>6, <3>7, <3>8
      <2>10. Balanced(Troves', totalStakes', funds', SIMDebt', surplus', simToken'.totalSupply, Open(tx'))
            <3>1. /\ funds.counter["activePool"] \in Int /\ funds.counter["collSurplusPool"] \in Int
                  BY BooksTyped DEF PoolNames
            <3>2. /\ SIMDebt["activePool"] \in Int /\ SIMDebt["defaultPool"] \in Int
                  /\ Debts(Troves) \in Int /\ Colls(Troves) \in Int
                  BY BooksTyped
            <3>3. v.debt = v.debtToOffset + v.debtToRedistribute
                  BY <2>3 DEF ValsOK
            <3>4. simToken'.totalSupply = SIMDebt'["activePool"] + SIMDebt'["defaultPool"]
                  BY <2>2, <2>5, <2>7, <2>8, <3>2 DEF Balanced
            <3>5. SIMDebt'["activePool"] = Debts(Troves') + Open(tx').debt
                  BY <2>1, <2>2, <2>5, <2>6, <2>8, <3>2, <3>3 DEF Balanced
            <3>6. funds'.counter["activePool"] = Colls(Troves') + Open(tx').coll
                  BY <2>1, <2>2, <2>5, <2>6, <2>9, <3>1, <3>2 DEF Balanced
            <3>7. totalStakes' = Stakes(Troves')
                  BY <2>1, <2>5 DEF Balanced
            <3>8. Total(surplus') = funds'.counter["collSurplusPool"] + Open(tx').surplus
                  BY <2>1, <2>2, <2>5, <2>6, <2>9, <3>1 DEF Balanced
            <3> QED BY <2>9, <3>4, <3>5, <3>6, <3>7, <3>8 DEF Balanced
      <2>11. /\ L'.WSTETH >= L.WSTETH /\ L'.SIMDebt >= L.SIMDebt
             /\ lastError'.WSTETH >= 0 /\ lastError'.SIMDebt >= 0
            <3> DEFINE W == v.collToRedistribute * DECIMAL_PRECISION + lastError.WSTETH
                       S == v.debtToRedistribute * DECIMAL_PRECISION + lastError.SIMDebt
            <3>1. /\ L \in PairT /\ totalStakes \in Int
                  /\ lastError.WSTETH \in Int /\ lastError.SIMDebt \in Int
                  BY <1>0 DEF Typed, LedgersTyped, TrovesTyped, PairT
            <3>2. lastError.WSTETH >= 0 /\ lastError.SIMDebt >= 0
                  BY <2>5 DEF RatesOK
            <3>3. /\ v.collToRedistribute * DECIMAL_PRECISION \in Int
                  /\ v.collToRedistribute * DECIMAL_PRECISION >= 0
                  /\ v.debtToRedistribute * DECIMAL_PRECISION \in Int
                  /\ v.debtToRedistribute * DECIMAL_PRECISION >= 0
                  BY <2>2, <2>3, NonNegative, PositiveConstants DEF ValsOK
            <3>4. W \in Int /\ S \in Int /\ W >= 0 /\ S >= 0
                  BY <3>1, <3>2, <3>3
            <3>5. IF v.debtToRedistribute > 0
                  THEN /\ L' = [WSTETH |-> L.WSTETH + W \div totalStakes,
                                SIMDebt |-> L.SIMDebt + S \div totalStakes]
                       /\ lastError' = [WSTETH |-> W % totalStakes, SIMDebt |-> S % totalStakes]
                  ELSE UNCHANGED <<L, lastError>>
                  BY <2>1, Zenon DEF _redistributeDebtAndColl
            <3> HIDE DEF W, S
            <3>6. CASE ~(v.debtToRedistribute > 0)
                  BY <3>1, <3>2, <3>5, <3>6 DEF PairT
            <3>7. CASE v.debtToRedistribute > 0
                  <4>1. totalStakes > 0
                        BY <1>2, <3>7
                  <4>2. /\ W \div totalStakes \in Int /\ W \div totalStakes >= 0
                        /\ S \div totalStakes \in Int /\ S \div totalStakes >= 0
                        BY <3>1, <3>4, <4>1, NonNegative
                  <4>3. W % totalStakes >= 0 /\ S % totalStakes >= 0
                        BY <3>1, <3>4, <4>1
                  <4>4. L.WSTETH \in Int /\ L.SIMDebt \in Int
                        BY <3>1 DEF PairT
                  <4> QED BY <3>5, <3>7, <4>2, <4>3, <4>4
            <3> QED BY <3>6, <3>7
      <2>12. TroveOK(Troves', rewardSnapshots', L')
            <3>1. /\ L.WSTETH \in Int /\ L.SIMDebt \in Int /\ L'.WSTETH \in Int /\ L'.SIMDebt \in Int
                  BY DEF IInv, Typed, LedgersTyped, PairT
            <3>2. \A b \in Accounts : rewardSnapshots[b].WSTETH \in Int /\ rewardSnapshots[b].SIMDebt \in Int
                  BY <1>0 DEF Typed, TrovesTyped, SnapshotsT, PairT
            <3> QED BY <2>1, <2>5, <2>11, <3>1, <3>2 DEF TroveOK
      <2>13. RatesOK'
            <3>1. totalStakes >= 0
                  BY <1>0, <2>5, TotalsAreInt DEF Balanced, TroveOK, Typed, TrovesTyped
            <3> QED BY <2>1, <2>5, <2>11, <3>1
                    DEF RatesOK, _updateSystemSnapshots_excludeCollRemainder
      <2> QED BY <2>1, <2>7, <2>10, <2>12, <2>13 DEF BInv
<1> QED BY <1>1, <1>2

-----------------------------------------------------------------------------
(* Redemptions keep the books.                                             *)

WithAmounts(b, c, d, k) == [Troves EXCEPT ![b].coll = c, ![b].debt = d, ![b].stake = k]

\* An active trove gets new amounts, its rewards applied.
LEMMA NewAmountsInTotals ==
    ASSUME IInv, IInv', TroveOK(Troves, rewardSnapshots, L), NEW b \in Accounts, isActive(b),
           NEW c \in Int, NEW d \in Int, NEW k \in Int, c >= 0, d >= MIN_NET_DEBT, k >= 0,
           Troves' = WithAmounts(b, c, d, k),
           rewardSnapshots' = _snapshotsAfterApply(b), L' = L
    PROVE  /\ Debts(Troves') = Debts(Troves) - Troves[b].debt + d
           /\ Colls(Troves') = Colls(Troves) - Troves[b].coll + c
           /\ Stakes(Troves') = Stakes(Troves) - Troves[b].stake + k
           /\ TroveOK(Troves', rewardSnapshots', L')
<1>1. Troves \in TrovesT /\ Troves' \in TrovesT /\ rewardSnapshots \in SnapshotsT /\ L \in PairT
      BY DEF IInv, Typed, TrovesTyped, LedgersTyped
<1>2. /\ Troves'[b].debt = d /\ Troves'[b].coll = c /\ Troves'[b].stake = k
      /\ \A x \in Accounts : x # b => Troves'[x] = Troves[x]
      BY <1>1 DEF TrovesT, TroveT, WithAmounts
<1>3. /\ Debts(Troves') = Debts(Troves) - Troves[b].debt + d
      /\ Colls(Troves') = Colls(Troves) - Troves[b].coll + c
      /\ Stakes(Troves') = Stakes(Troves) - Troves[b].stake + k
      <2>1. \A x \in Accounts : x # b =>
               /\ Troves'[x].debt = Troves[x].debt /\ Troves'[x].coll = Troves[x].coll
               /\ Troves'[x].stake = Troves[x].stake
            BY <1>2
      <2>2. /\ Debts(Troves') = Debts(Troves) - Troves[b].debt + Troves'[b].debt
            /\ Colls(Troves') = Colls(Troves) - Troves[b].coll + Troves'[b].coll
            /\ Stakes(Troves') = Stakes(Troves) - Troves[b].stake + Troves'[b].stake
            BY <1>1, <2>1, OneTroveChanges
      <2> QED BY <1>2, <2>2
<1>4. /\ \A x \in Accounts : x # b => rewardSnapshots'[x] = rewardSnapshots[x]
      /\ rewardSnapshots'[b] = L \/ rewardSnapshots'[b] = rewardSnapshots[b]
      BY <1>1 DEF _snapshotsAfterApply, SnapshotsT
<1>5. TroveOK(Troves', rewardSnapshots', L')
      <2> SUFFICES ASSUME NEW x \in Accounts
                   PROVE  /\ Troves'[x].debt >= 0 /\ Troves'[x].coll >= 0 /\ Troves'[x].stake >= 0
                          /\ Troves'[x].status = "active" =>
                                /\ Troves'[x].debt >= MIN_NET_DEBT
                                /\ rewardSnapshots'[x].WSTETH <= L'.WSTETH
                                /\ rewardSnapshots'[x].SIMDebt <= L'.SIMDebt
          BY DEF TroveOK
      <2>1. CASE x = b
            <3>1. /\ rewardSnapshots[b].WSTETH <= L.WSTETH /\ rewardSnapshots[b].SIMDebt <= L.SIMDebt
                  BY DEF TroveOK, isActive
            <3>2. L.WSTETH \in Int /\ L.SIMDebt \in Int
                  BY <1>1 DEF PairT
            <3> QED BY <1>2, <1>4, <2>1, <3>1, <3>2, PositiveConstants
      <2>2. CASE x # b
            BY <1>2, <1>4, <2>2 DEF TroveOK
      <2> QED BY <2>1, <2>2
<1> QED BY <1>3, <1>5

\* The frame after a lot was drawn has counted it.
LEMMA DrawnCounts ==
    ASSUME Typed, tx \in RedemptionFrame, tx.user \in Accounts, NEW q \in Accounts \cup {NULL}
    PROVE  /\ _drawn(q) \in RedemptionFrame /\ _drawn(q).pre = tx.pre
           /\ _drawn(q).SIMToRedeem = tx.SIMToRedeem + _SIMLot
           /\ _drawn(q).WSTETHDrawn = tx.WSTETHDrawn + _WSTETHLot
           /\ _SIMLot \in Int /\ _WSTETHLot \in Int
           /\ tx.SIMToRedeem \in Int /\ tx.WSTETHDrawn \in Int
<1>1. /\ _drawn(q) \in RedemptionFrame /\ _drawn(q).pre = tx.pre
      /\ _SIMLot \in Int /\ _WSTETHLot \in Int
      BY DrawnTyped
<1>2. /\ _drawn(q).SIMToRedeem = tx.SIMToRedeem + _SIMLot
      /\ _drawn(q).WSTETHDrawn = tx.WSTETHDrawn + _WSTETHLot
      BY DEF _drawn, RedemptionFrame
<1>3. tx.SIMToRedeem \in Int /\ tx.WSTETHDrawn \in Int
      BY DEF RedemptionFrame
<1> QED BY <1>1, <1>2, <1>3

\* The frame of a redemption stays good when it goes on.
LEMMA RedemptionGoesOn ==
    ASSUME BInv, tx \in RedemptionFrame, NEW f \in RedemptionFrame, f.pre = tx.pre
    PROVE  FrameBooks(f, simToken.totalSupply, L, totalSIMDeposits)
<1>1. tx # idle /\ f.at \notin LoopNames
      BY OpenCases
<1>2. FrameBooks(tx, simToken.totalSupply, L, totalSIMDeposits)
      BY <1>1 DEF BInv
<1> QED BY <1>1, <1>2 DEF FrameBooks

\* The rest of the books when neither SIM nor ledgers nor the base rate change.
LEMMA RestOfBooks ==
    ASSUME BInv, UNCHANGED <<totalSIMDeposits, simToken, totalStakesSnapshot, L, lastError, baseRate>>
    PROVE  /\ RatesOK' /\ SIMClosed(simToken')
           /\ totalSIMDeposits' = simToken'.balances["stabilityPool"] /\ totalSIMDeposits' >= 0
BY DEF BInv, RatesOK

\* A trove closes with its whole debt redeemed: its debt and the collateral drawn are open, the
\* rest of the collateral is in the surplus pool.
LEMMA RedeemWholeBooks ==
    ASSUME IInv, IInv', BInv, tx \in RedemptionFrame, RedeemWholeTrove
    PROVE  BInv'
<1> DEFINE b == tx.user
           left == _collNow(b) - _WSTETHLot
           q == _getPrev(b)
           W == _appliedReward(b, "WSTETH")
           S == _appliedReward(b, "SIMDebt")
<1>0. tx # idle /\ _redeems /\ Typed /\ _SIMLot = _debtNow(b)
      BY DEF RedeemWholeTrove, RedemptionFrame, idle, IInv
<1>1. b \in Accounts /\ isActive(b) /\ q \in Accounts \cup {NULL}
      BY <1>0, RedeemedTroveIsListed
<1>2. CASE ~(left >= 0 /\ _moreThanOneTroveInSystem)
      BY <1>0, <1>2, RevertBooks DEF RedeemWholeTrove
<1>3. CASE left >= 0 /\ _moreThanOneTroveInSystem
      <2>1. /\ _closeTrove(b, "closedByRedemption")
            /\ SIMDebt' = _debtAfterMove(S)
            /\ funds' = sendWSTETH(_fundsAfterMove(W), "collSurplusPool", left)
            /\ surplus' = [surplus EXCEPT ![b] = @ + left]
            /\ tx' = _drawn(q)
            /\ UNCHANGED <<totalSIMDeposits, simToken, totalStakesSnapshot, L, lastError, baseRate>>
            BY <1>3 DEF RedeemWholeTrove, ledgerVars, rateVars
      <2>2. /\ W \in Int /\ S \in Int
            /\ _debtNow(b) = Troves[b].debt + S /\ _collNow(b) = Troves[b].coll + W
            BY <1>0, <1>1, RewardTyped DEF _debtNow, _collNow
      <2>3. /\ tx' \in RedemptionFrame /\ tx'.pre = tx.pre
            /\ tx'.SIMToRedeem = tx.SIMToRedeem + _debtNow(b)
            /\ tx'.WSTETHDrawn = tx.WSTETHDrawn + _WSTETHLot
            /\ _WSTETHLot \in Int /\ tx.SIMToRedeem \in Int /\ tx.WSTETHDrawn \in Int
            BY <1>0, <1>1, <2>1, DrawnCounts
      <2>4. /\ Troves[b].debt \in Int /\ Troves[b].coll \in Int /\ Troves[b].stake \in Int
            /\ surplus[b] \in Int
            BY <1>1, BooksTyped
      <2>5. left \in Int /\ left = Troves[b].coll + W - _WSTETHLot
            BY <2>2, <2>3, <2>4
      <2>6. Balanced(Troves, totalStakes, funds, SIMDebt, surplus, simToken.totalSupply, Open(tx))
            BY DEF BInv
      <2> HIDE DEF W, S, q, b, left
      <2>7. /\ Debts(Troves') = Debts(Troves) - Troves[b].debt
            /\ Colls(Troves') = Colls(Troves) - Troves[b].coll
            /\ Stakes(Troves') = Stakes(Troves) - Troves[b].stake
            /\ totalStakes' = totalStakes - Troves[b].stake
            /\ TroveOK(Troves', rewardSnapshots', L')
            BY <1>1, <2>1, ClosedLeavesTotals DEF BInv
      <2>8. /\ FundsOff(funds', 0)
            /\ funds'.counter["activePool"] = funds.counter["activePool"] + W - left
            /\ funds'.counter["collSurplusPool"] = funds.counter["collSurplusPool"] + left
            /\ SIMDebt'["activePool"] = SIMDebt["activePool"] + S
            /\ SIMDebt'["defaultPool"] = SIMDebt["defaultPool"] - S
            <3> DEFINE f == _fundsAfterMove(W)
            <3>1. /\ FundsOff(f, 0) /\ f \in FundsT
                  /\ f.counter["activePool"] = funds.counter["activePool"] + W
                  /\ f.counter["collSurplusPool"] = funds.counter["collSurplusPool"]
                  /\ SIMDebt'["activePool"] = SIMDebt["activePool"] + S
                  /\ SIMDebt'["defaultPool"] = SIMDebt["defaultPool"] - S
                  BY <2>1, <2>2, <2>6, MoveKeepsBooks DEF Balanced
            <3> HIDE DEF f
            <3>2. "collSurplusPool" \in Holders
                  BY PoolsApart DEF PoolNames
            <3>3. funds' = sendWSTETH(f, "collSurplusPool", left)
                  BY <2>1 DEF f
            <3>4. /\ FundsOff(funds', 0)
                  /\ funds'.counter["activePool"] = f.counter["activePool"] - left
                  /\ funds'.counter["collSurplusPool"] = f.counter["collSurplusPool"] + left
                  BY <2>5, <3>1, <3>2, <3>3, SendKeepsFunds
            <3>5. funds.counter["activePool"] \in Int /\ funds.counter["collSurplusPool"] \in Int
                  BY BooksTyped DEF PoolNames
            <3> QED BY <2>2, <2>5, <3>1, <3>4, <3>5
      <2>9. Total(surplus') = Total(surplus) + left
            <3>1. surplus \in SurplusT
                  BY <1>0 DEF Typed, PoolsTyped
            <3> DEFINE z == surplus[b] + left
            <3>2. z \in Int /\ surplus' = [surplus EXCEPT ![b] = z]
                  BY <2>1, <2>4, <2>5
            <3>3. Total(surplus) \in Int /\ Total(surplus') = Total(surplus) - surplus[b] + z
                  <4> HIDE DEF z
                  <4> QED BY <1>1, <3>1, <3>2, SurplusChanges
            <3> QED BY <2>4, <2>5, <3>3
      <2>10. /\ Open(tx).debt = tx.SIMToRedeem /\ Open(tx).coll = tx.WSTETHDrawn
             /\ Open(tx).surplus = 0
             /\ Open(tx').debt = tx'.SIMToRedeem /\ Open(tx').coll = tx'.WSTETHDrawn
             /\ Open(tx').surplus = 0
            BY <2>3, OpenCases
      <2>11. Balanced(Troves', totalStakes', funds', SIMDebt', surplus', simToken'.totalSupply, Open(tx'))
            <3>1. /\ funds.counter["activePool"] \in Int /\ funds.counter["collSurplusPool"] \in Int
                  BY BooksTyped DEF PoolNames
            <3>2. /\ SIMDebt["activePool"] \in Int /\ SIMDebt["defaultPool"] \in Int
                  /\ Debts(Troves) \in Int /\ Colls(Troves) \in Int
                  BY BooksTyped
            <3>3. simToken'.totalSupply = SIMDebt'["activePool"] + SIMDebt'["defaultPool"]
                  BY <2>1, <2>2, <2>6, <2>8, <3>2 DEF Balanced
            <3>4. SIMDebt'["activePool"] = Debts(Troves') + Open(tx').debt
                  BY <2>2, <2>3, <2>4, <2>6, <2>7, <2>8, <2>10, <3>2 DEF Balanced
            <3>5. funds'.counter["activePool"] = Colls(Troves') + Open(tx').coll
                  BY <2>2, <2>3, <2>4, <2>5, <2>6, <2>7, <2>8, <2>10, <3>1, <3>2 DEF Balanced
            <3>6. totalStakes' = Stakes(Troves')
                  BY <2>6, <2>7 DEF Balanced
            <3>7. Total(surplus') = funds'.counter["collSurplusPool"] + Open(tx').surplus
                  BY <2>5, <2>6, <2>8, <2>9, <2>10, <3>1 DEF Balanced
            <3> QED BY <2>8, <3>3, <3>4, <3>5, <3>6, <3>7 DEF Balanced
      <2>12. FrameBooks(tx', simToken'.totalSupply, L', totalSIMDeposits')
            BY <2>1, <2>3, RedemptionGoesOn
      <2> QED BY <2>1, <2>7, <2>11, <2>12, RestOfBooks DEF BInv
<1> QED BY <1>2, <1>3

\* The books balance after a step that changes both sides of each account alike.
LEMMA ChangesBalance ==
    ASSUME IInv, IInv', BInv, FundsOff(funds', 0), surplus' = surplus,
           totalStakes' = totalStakes + Stakes(Troves') - Stakes(Troves),
           Open(tx).debt \in Int, Open(tx).coll \in Int, Open(tx).surplus = 0,
           Open(tx').debt \in Int, Open(tx').coll \in Int, Open(tx').surplus = 0,
           SIMDebt'["activePool"] = SIMDebt["activePool"] +
              (Debts(Troves') - Debts(Troves)) + (Open(tx').debt - Open(tx).debt),
           funds'.counter["activePool"] = funds.counter["activePool"] +
              (Colls(Troves') - Colls(Troves)) + (Open(tx').coll - Open(tx).coll),
           funds'.counter["collSurplusPool"] = funds.counter["collSurplusPool"],
           simToken'.totalSupply = simToken.totalSupply +
              (SIMDebt'["activePool"] - SIMDebt["activePool"])
                 + (SIMDebt'["defaultPool"] - SIMDebt["defaultPool"])
    PROVE  Balanced(Troves', totalStakes', funds', SIMDebt', surplus', simToken'.totalSupply, Open(tx'))
<1>1. Balanced(Troves, totalStakes, funds, SIMDebt, surplus, simToken.totalSupply, Open(tx))
      BY DEF BInv
<1>2. /\ funds.counter["activePool"] \in Int /\ SIMDebt["activePool"] \in Int
      /\ SIMDebt["defaultPool"] \in Int /\ Debts(Troves) \in Int /\ Colls(Troves) \in Int
      /\ Stakes(Troves) \in Int /\ totalStakes \in Int /\ simToken.totalSupply \in Int
      BY BooksTyped DEF PoolNames
<1>3. /\ funds'.counter["activePool"] \in Int /\ SIMDebt'["activePool"] \in Int
      /\ SIMDebt'["defaultPool"] \in Int /\ simToken'.totalSupply \in Int /\ totalStakes' \in Int
      BY DEF IInv, Typed, TrovesTyped, PoolsTyped, SIMT, DebtT, FundsT, PoolNames
<1>4. Debts(Troves') \in Int /\ Colls(Troves') \in Int /\ Stakes(Troves') \in Int
      <2>1. Troves' \in TrovesT
            BY DEF IInv, Typed, TrovesTyped
      <2> QED BY <2>1, TotalsAreInt
<1>5. simToken'.totalSupply = SIMDebt'["activePool"] + SIMDebt'["defaultPool"]
      BY <1>1, <1>2, <1>3 DEF Balanced
<1>6. SIMDebt'["activePool"] = Debts(Troves') + Open(tx').debt
      BY <1>1, <1>2, <1>3, <1>4 DEF Balanced
<1>7. funds'.counter["activePool"] = Colls(Troves') + Open(tx').coll
      BY <1>1, <1>2, <1>3, <1>4 DEF Balanced
<1>8. totalStakes' = Stakes(Troves')
      BY <1>1, <1>2, <1>3, <1>4 DEF Balanced
<1>9. Total(surplus') = funds'.counter["collSurplusPool"] + Open(tx').surplus
      BY <1>1 DEF Balanced
<1> QED BY <1>5, <1>6, <1>7, <1>8, <1>9 DEF Balanced

\* Part of a trove's debt is redeemed, or its rewards are applied and the redemption is cancelled.
LEMMA RedeemPartBooks ==
    ASSUME IInv, IInv', BInv, tx \in RedemptionFrame, NEW h \in BOOLEAN, RedeemPartOfTrove(h)
    PROVE  BInv'
<1> DEFINE b == tx.user
           d == _debtNow(b) - _SIMLot
           c == _collNow(b) - _WSTETHLot
           N == _computeNominalCR(c, d)
           cancelled == _cancelledPartial(h, d)
           stake == _computeNewStake(c)
           q == _getPrev(b)
           W == _appliedReward(b, "WSTETH")
           S == _appliedReward(b, "SIMDebt")
<1>0. tx # idle /\ _redeems /\ Typed
      BY DEF RedeemPartOfTrove, RedemptionFrame, idle, IInv
<1>1. b \in Accounts /\ isActive(b) /\ q \in Accounts \cup {NULL}
      BY <1>0, RedeemedTroveIsListed
<1>2. CASE ~(c >= 0 /\ (cancelled \/ N > 0))
      BY <1>0, <1>2, RevertBooks DEF RedeemPartOfTrove
<1>3. CASE c >= 0 /\ (cancelled \/ N > 0)
      <2>1. /\ SIMDebt' = _debtAfterMove(S)
            /\ funds' = _fundsAfterMove(W)
            /\ rewardSnapshots' = _snapshotsAfterApply(b)
            /\ UNCHANGED <<surplus, totalSIMDeposits, simToken>>
            /\ UNCHANGED <<totalStakesSnapshot, L, lastError, baseRate>>
            BY <1>3 DEF RedeemPartOfTrove, ledgerVars, rateVars
      <2>2. \/ /\ Troves' = [Troves EXCEPT ![b].debt = _debtNow(b), ![b].coll = _collNow(b)]
               /\ tx' = [tx EXCEPT !.at = "redeemed"]
               /\ totalStakes' = totalStakes
            \/ /\ Troves' = [Troves EXCEPT ![b].debt = d, ![b].coll = c, ![b].stake = stake]
               /\ totalStakes' = totalStakes - Troves[b].stake + stake
               /\ tx' = _drawn(q)
               /\ d >= MIN_NET_DEBT
            <3>1. _debtNow(b) \in Int /\ d \in Int
                  BY <1>0, <1>1, DrawnTyped, ViewsTyped
            <3>2. ~cancelled => d >= MIN_NET_DEBT
                  BY <3>1, PositiveConstants DEF _cancelledPartial
            <3> QED BY <1>3, <3>2 DEF RedeemPartOfTrove
      <2>3. /\ _debtNow(b) \in Int /\ _collNow(b) \in Int /\ d \in Int /\ c \in Int
            /\ _SIMLot \in Int /\ _WSTETHLot \in Int
            BY <1>0, <1>1, DrawnTyped, ViewsTyped
      <2>4. stake \in Int /\ stake >= 0
            BY <1>0, <1>3, <2>3, StakeTyped, StakeNonNegative DEF BInv, RatesOK
      <2>5. /\ Troves \in TrovesT /\ Troves[b].stake \in Int /\ Troves[b].debt \in Int
            /\ Troves[b].coll \in Int /\ Troves[b].stake >= 0 /\ totalStakes \in Int
            BY <1>0, <1>1 DEF Typed, TrovesTyped, TrovesT, TroveT, BInv, TroveOK
      <2>6. /\ W \in Int /\ S \in Int
            /\ _debtNow(b) = Troves[b].debt + S /\ _collNow(b) = Troves[b].coll + W
            /\ d = Troves[b].debt + S - _SIMLot /\ c = Troves[b].coll + W - _WSTETHLot
            <3>1. W \in Int /\ S \in Int
                  BY <1>0, <1>1, RewardTyped
            <3>2. _debtNow(b) = Troves[b].debt + S /\ _collNow(b) = Troves[b].coll + W
                  BY DEF _debtNow, _collNow
            <3> QED BY <2>3, <2>5, <3>1, <3>2
      <2>7. _collNow(b) >= 0 /\ _debtNow(b) >= MIN_NET_DEBT
            BY <1>0, <1>1, WorthNonNegative DEF BInv
      <2> HIDE DEF W, S, d, stake, N, q
      <2>8. /\ FundsOff(funds', 0)
            /\ funds'.counter["activePool"] = funds.counter["activePool"] + W
            /\ funds'.counter["collSurplusPool"] = funds.counter["collSurplusPool"]
            /\ SIMDebt'["activePool"] = SIMDebt["activePool"] + S
            /\ SIMDebt'["defaultPool"] = SIMDebt["defaultPool"] - S
            BY <2>1, <2>6, MoveKeepsBooks DEF BInv, Balanced
      <2>9. /\ simToken'.totalSupply = simToken.totalSupply + S - S /\ surplus' = surplus
            /\ tx.SIMToRedeem \in Int /\ tx.WSTETHDrawn \in Int
            /\ Open(tx).debt = tx.SIMToRedeem /\ Open(tx).coll = tx.WSTETHDrawn
            /\ Open(tx).surplus = 0
            BY <2>1, <2>6, BooksTyped, OpenCases DEF RedemptionFrame
      <2> HIDE DEF c
      <2>10. ASSUME NEW e \in Int, NEW f \in Int, NEW k \in Int, f >= 0, e >= MIN_NET_DEBT, k >= 0,
                    Troves' = WithAmounts(b, f, e, k),
                    totalStakes' = totalStakes - Troves[b].stake + k,
                    tx' \in RedemptionFrame, tx'.pre = tx.pre,
                    tx'.SIMToRedeem = tx.SIMToRedeem + Troves[b].debt - e + S,
                    tx'.WSTETHDrawn = tx.WSTETHDrawn + Troves[b].coll - f + W
             PROVE  BInv'
            <3>0. /\ b \in Accounts /\ isActive(b) /\ TroveOK(Troves, rewardSnapshots, L)
                  /\ rewardSnapshots' = _snapshotsAfterApply(b) /\ L' = L
                  BY <1>1, <2>1 DEF BInv
            <3> HIDE DEF b
            <3>1. /\ Debts(Troves') = Debts(Troves) - Troves[b].debt + e
                  /\ Colls(Troves') = Colls(Troves) - Troves[b].coll + f
                  /\ Stakes(Troves') = Stakes(Troves) - Troves[b].stake + k
                  /\ TroveOK(Troves', rewardSnapshots', L')
                  BY <2>10, <3>0, NewAmountsInTotals
            <3>2. /\ Open(tx').debt = Open(tx).debt + Troves[b].debt - e + S
                  /\ Open(tx').coll = Open(tx).coll + Troves[b].coll - f + W
                  /\ Open(tx').surplus = 0 /\ Open(tx).surplus = 0
                  /\ Open(tx).debt \in Int /\ Open(tx).coll \in Int
                  /\ Open(tx').debt \in Int /\ Open(tx').coll \in Int
                  BY <2>9, <2>10, OpenCases DEF RedemptionFrame
            <3>3. Balanced(Troves', totalStakes', funds', SIMDebt', surplus', simToken'.totalSupply,
                           Open(tx'))
                  <4>1. /\ Debts(Troves) \in Int /\ Colls(Troves) \in Int /\ Stakes(Troves) \in Int
                        /\ totalStakes \in Int /\ simToken.totalSupply \in Int
                        /\ SIMDebt["activePool"] \in Int /\ SIMDebt["defaultPool"] \in Int
                        /\ funds.counter["activePool"] \in Int
                        /\ Troves[b].debt \in Int /\ Troves[b].coll \in Int /\ Troves[b].stake \in Int
                        BY <3>0, BooksTyped DEF PoolNames
                  <4>2. totalStakes' = totalStakes + Stakes(Troves') - Stakes(Troves)
                        BY <2>10, <3>1, <4>1
                  <4>3. SIMDebt'["activePool"] = SIMDebt["activePool"] +
                           (Debts(Troves') - Debts(Troves)) + (Open(tx').debt - Open(tx).debt)
                        BY <2>6, <2>8, <3>1, <3>2, <4>1
                  <4>4. funds'.counter["activePool"] = funds.counter["activePool"] +
                           (Colls(Troves') - Colls(Troves)) + (Open(tx').coll - Open(tx).coll)
                        BY <2>6, <2>8, <3>1, <3>2, <4>1
                  <4>5. simToken'.totalSupply = simToken.totalSupply +
                           (SIMDebt'["activePool"] - SIMDebt["activePool"])
                              + (SIMDebt'["defaultPool"] - SIMDebt["defaultPool"])
                        BY <2>6, <2>8, <2>9, <4>1
                  <4> QED BY <2>8, <2>9, <3>2, <4>2, <4>3, <4>4, <4>5, ChangesBalance
            <3>4. FrameBooks(tx', simToken'.totalSupply, L', totalSIMDeposits')
                  BY <2>1, <2>10, RedemptionGoesOn
            <3> QED BY <2>1, <3>1, <3>3, <3>4, RestOfBooks DEF BInv
      <2>11. CASE /\ Troves' = [Troves EXCEPT ![b].debt = _debtNow(b), ![b].coll = _collNow(b)]
                  /\ tx' = [tx EXCEPT !.at = "redeemed"]
                  /\ totalStakes' = totalStakes
            <3> DEFINE k == Troves[b].stake
                       e == _debtNow(b)
                       f == _collNow(b)
            <3>1. Troves' = WithAmounts(b, f, e, k)
                  BY <1>1, <2>5, <2>11 DEF TrovesT, TroveT, WithAmounts
            <3>2. /\ tx' \in RedemptionFrame /\ tx'.pre = tx.pre
                  /\ tx'.SIMToRedeem = tx.SIMToRedeem /\ tx'.WSTETHDrawn = tx.WSTETHDrawn
                  BY <2>11 DEF RedemptionFrame
            <3>3. /\ totalStakes' = totalStakes - Troves[b].stake + k
                  /\ e \in Int /\ f \in Int /\ k \in Int /\ f >= 0 /\ e >= MIN_NET_DEBT /\ k >= 0
                  BY <2>3, <2>5, <2>7, <2>11
            <3>4. /\ tx'.SIMToRedeem = tx.SIMToRedeem + Troves[b].debt - e + S
                  /\ tx'.WSTETHDrawn = tx.WSTETHDrawn + Troves[b].coll - f + W
                  BY <2>5, <2>6, <2>9, <3>2
            <3> HIDE DEF k, e, f, b
            <3> QED BY <2>10, <3>1, <3>2, <3>3, <3>4
      <2>12. CASE /\ Troves' = [Troves EXCEPT ![b].debt = d, ![b].coll = c, ![b].stake = stake]
                  /\ totalStakes' = totalStakes - Troves[b].stake + stake
                  /\ tx' = _drawn(q)
                  /\ d >= MIN_NET_DEBT
            <3>1. Troves' = WithAmounts(b, c, d, stake)
                  BY <1>1, <2>5, <2>12 DEF TrovesT, TroveT, WithAmounts
            <3>2. /\ tx' \in RedemptionFrame /\ tx'.pre = tx.pre
                  /\ tx'.SIMToRedeem = tx.SIMToRedeem + _SIMLot
                  /\ tx'.WSTETHDrawn = tx.WSTETHDrawn + _WSTETHLot
                  BY <1>0, <1>1, <2>12, DrawnCounts
            <3>3. /\ tx'.SIMToRedeem = tx.SIMToRedeem + Troves[b].debt - d + S
                  /\ tx'.WSTETHDrawn = tx.WSTETHDrawn + Troves[b].coll - c + W
                  BY <2>3, <2>5, <2>6, <2>9, <3>2
            <3>4. c >= 0
                  BY <1>3
            <3> HIDE DEF b
            <3> QED BY <2>3, <2>4, <2>10, <2>12, <3>1, <3>2, <3>3, <3>4
      <2> QED BY <2>2, <2>11, <2>12
<1> QED BY <1>2, <1>3

\* The loop of a redemption ends with the same books.
LEMMA RedemptionLoopEndsBooks ==
    ASSUME IInv, BInv, tx \in RedemptionFrame, RedemptionLoopEnds
    PROVE  BInv'
<1> DEFINE f == [tx EXCEPT !.at = "redeemed"]
<1>1. /\ f \in RedemptionFrame /\ f.pre = tx.pre
      /\ f.SIMToRedeem = tx.SIMToRedeem /\ f.WSTETHDrawn = tx.WSTETHDrawn
      BY DEF RedemptionFrame
<1>2. _goOn(f)
      BY DEF RedemptionLoopEnds
<1> HIDE DEF f
<1>3. f.at \in {"redeem", "redeemed"} /\ tx.at \in {"redeem", "redeemed"}
      BY <1>1 DEF RedemptionFrame
<1>4. f.at \notin LoopNames /\ tx.at \notin LoopNames
      BY <1>3 DEF LoopNames
<1>5. Open(f) = Open(tx)
      BY <1>1, <1>3, <1>4 DEF Open
<1>6. FrameBooks(f, simToken.totalSupply, L, totalSIMDeposits)
      BY <1>1, RedemptionGoesOn
<1> QED BY <1>2, <1>5, <1>6, GoOnBooks

\* The end of a redemption: what was drawn leaves the active pool, fee and all, and the SIM it was
\* drawn for is burnt.
LEMMA RedemptionSettlesBooks ==
    ASSUME IInv, IInv', BInv, tx \in RedemptionFrame, RedemptionSettles
    PROVE  BInv'
<1> DEFINE fee == _calcRedemptionFee(_rateAfterRedemption, tx.WSTETHDrawn)
<1>0. tx # idle /\ Typed
      BY DEF RedemptionFrame, idle, IInv
<1>1. CASE Revert
      BY <1>0, <1>1, RevertBooks
<1>2. CASE ~Revert
      <2>1. /\ _rateAfterRedemption > 0 /\ fee < tx.WSTETHDrawn
            /\ _updateBaseRate(_rateAfterRedemption)
            /\ funds' = sendWSTETH(sendWSTETH(funds, "wstETHVeDistributor", fee),
                                   tx.caller, tx.WSTETHDrawn - fee)
            /\ simToken' = burn(simToken, tx.caller, tx.SIMToRedeem)
            /\ SIMDebt' = changeSIMDebt(SIMDebt, "activePool", -tx.SIMToRedeem)
            /\ tx' = idle
            /\ surplus' = surplus /\ totalSIMDeposits' = totalSIMDeposits
            /\ UNCHANGED <<troveVars, ledgerVars>>
            BY <1>2, Zenon DEF RedemptionSettles
      <2>2. /\ Troves' = Troves /\ rewardSnapshots' = rewardSnapshots /\ totalStakes' = totalStakes
            /\ L' = L /\ lastError' = lastError /\ totalStakesSnapshot' = totalStakesSnapshot
            BY <2>1 DEF troveVars, ledgerVars
      <2>3. /\ tx.WSTETHDrawn \in Int /\ tx.SIMToRedeem \in Int /\ tx.caller \in Accounts
            /\ tx.totalSIMSupplyAtStart \in Int
            BY DEF RedemptionFrame
      <2>4. fee \in Int /\ _rateAfterRedemption \in Int
            <3>1. baseRate' = _rateAfterRedemption
                  BY <2>1 DEF _updateBaseRate
            <3>2. _rateAfterRedemption \in Int
                  BY <3>1 DEF IInv, Typed, ClockTyped
            <3> DEFINE m == _min(FEE_FLOOR + _rateAfterRedemption, DECIMAL_PRECISION)
            <3>3. m \in Int
                  BY <3>2, PositiveConstants DEF _min
            <3> HIDE DEF m
            <3>4. m * tx.WSTETHDrawn \in Int
                  BY <2>3, <3>3
            <3>5. fee = (m * tx.WSTETHDrawn) \div DECIMAL_PRECISION
                  BY DEF _calcRedemptionFee, m
            <3> QED BY <3>2, <3>4, <3>5, DivInt, PositiveConstants
      <2> HIDE DEF fee
      <2>5. /\ FundsOff(funds', 0)
            /\ funds'.counter["activePool"] = funds.counter["activePool"] - tx.WSTETHDrawn
            /\ funds'.counter["collSurplusPool"] = funds.counter["collSurplusPool"]
            <3> DEFINE g == sendWSTETH(funds, "wstETHVeDistributor", fee)
                       rest == tx.WSTETHDrawn - fee
                       to == tx.caller
            <3>1. funds \in FundsT /\ FundsOff(funds, 0)
                  BY <1>0 DEF Typed, PoolsTyped, BInv, Balanced
            <3>2. /\ "wstETHVeDistributor" \in Holders /\ "wstETHVeDistributor" # "activePool"
                  /\ "wstETHVeDistributor" # "collSurplusPool"
                  BY PoolsApart
            <3>3. /\ g \in FundsT /\ FundsOff(g, 0)
                  /\ g.counter["activePool"] = funds.counter["activePool"] - fee
                  /\ g.counter["collSurplusPool"] = funds.counter["collSurplusPool"]
                  BY <2>4, <3>1, <3>2, SendKeepsFunds
            <3>4. funds' = sendWSTETH(g, to, rest) /\ rest \in Int
                  BY <2>1, <2>3, <2>4
            <3>5. to \in Holders /\ to # "activePool" /\ to # "collSurplusPool"
                  BY <2>3, PoolsApart DEF PoolNames
            <3> HIDE DEF g, rest, to
            <3>6. /\ FundsOff(funds', 0)
                  /\ funds'.counter["activePool"] = g.counter["activePool"] - rest
                  /\ funds'.counter["collSurplusPool"] = g.counter["collSurplusPool"]
                  BY <3>3, <3>4, <3>5, SendKeepsFunds
            <3>7. funds.counter["activePool"] \in Int
                  BY BooksTyped DEF PoolNames
            <3> QED BY <2>3, <2>4, <3>3, <3>6, <3>7 DEF rest
      <2>6. /\ SIMClosed(simToken')
            /\ simToken'.totalSupply = simToken.totalSupply - tx.SIMToRedeem
            /\ simToken'.balances["stabilityPool"] = simToken.balances["stabilityPool"]
            <3> DEFINE from == tx.caller
                       x == tx.SIMToRedeem
            <3>1. simToken \in SIMT /\ SIMClosed(simToken)
                  BY <1>0 DEF Typed, PoolsTyped, BInv
            <3>2. from \in SIMHolders /\ from # "stabilityPool" /\ x \in Int
                  BY <2>3, PoolsApart DEF SIMContracts
            <3>3. simToken' = burn(simToken, from, x)
                  BY <2>1
            <3> HIDE DEF from
            <3>4. /\ SIMClosed(simToken') /\ simToken'.totalSupply = simToken.totalSupply - x
                  /\ simToken'.balances["stabilityPool"] = simToken.balances["stabilityPool"]
                                - (IF from = "stabilityPool" THEN x ELSE 0)
                  BY <3>1, <3>2, <3>3, BurnKeepsSum
            <3>5. simToken.balances["stabilityPool"] \in Int
                  BY <3>1, PoolsApart DEF SIMT, SIMContracts
            <3> QED BY <3>2, <3>4, <3>5
      <2>7. /\ SIMDebt'["activePool"] = SIMDebt["activePool"] - tx.SIMToRedeem
            /\ SIMDebt'["defaultPool"] = SIMDebt["defaultPool"]
            BY <1>0, <2>1, <2>3 DEF changeSIMDebt, Typed, PoolsTyped, DebtT
      <2>8. /\ Open(tx).debt = tx.SIMToRedeem /\ Open(tx).coll = tx.WSTETHDrawn /\ Open(tx).surplus = 0
            /\ Open(tx').debt = 0 /\ Open(tx').coll = 0 /\ Open(tx').surplus = 0
            BY <2>1, OpenCases
      <2>9. Balanced(Troves', totalStakes', funds', SIMDebt', surplus', simToken'.totalSupply, Open(tx'))
            <3>1. /\ Debts(Troves) \in Int /\ Colls(Troves) \in Int /\ Stakes(Troves) \in Int
                  /\ totalStakes \in Int /\ simToken.totalSupply \in Int
                  /\ SIMDebt["activePool"] \in Int /\ SIMDebt["defaultPool"] \in Int
                  /\ funds.counter["activePool"] \in Int
                  BY BooksTyped DEF PoolNames
            <3>2. totalStakes' = totalStakes + Stakes(Troves') - Stakes(Troves)
                  BY <2>2, <3>1
            <3>3. SIMDebt'["activePool"] = SIMDebt["activePool"] +
                     (Debts(Troves') - Debts(Troves)) + (Open(tx').debt - Open(tx).debt)
                  BY <2>2, <2>3, <2>7, <2>8, <3>1
            <3>4. funds'.counter["activePool"] = funds.counter["activePool"] +
                     (Colls(Troves') - Colls(Troves)) + (Open(tx').coll - Open(tx).coll)
                  BY <2>2, <2>3, <2>5, <2>8, <3>1
            <3>5. simToken'.totalSupply = simToken.totalSupply +
                     (SIMDebt'["activePool"] - SIMDebt["activePool"])
                        + (SIMDebt'["defaultPool"] - SIMDebt["defaultPool"])
                  BY <2>3, <2>6, <2>7, <3>1
            <3>6. /\ Open(tx).debt \in Int /\ Open(tx).coll \in Int
                  /\ Open(tx').debt \in Int /\ Open(tx').coll \in Int
                  BY <2>3, <2>8
            <3> QED BY <2>1, <2>5, <2>8, <3>2, <3>3, <3>4, <3>5, <3>6, ChangesBalance
      <2>10. RatesOK'
            <3>1. baseRate' = _rateAfterRedemption
                  BY <2>1 DEF _updateBaseRate
            <3> QED BY <2>1, <2>2, <2>4, <3>1 DEF BInv, RatesOK
      <2>11. /\ totalSIMDeposits' = simToken'.balances["stabilityPool"] /\ totalSIMDeposits' >= 0
             /\ TroveOK(Troves', rewardSnapshots', L')
            BY <2>1, <2>2, <2>6 DEF BInv
      <2> QED BY <2>1, <2>6, <2>9, <2>10, <2>11 DEF BInv
<1> QED BY <1>1, <1>2

-----------------------------------------------------------------------------
(* Borrowers, depositors and holders keep the books.                       *)

\* A transaction of one step that changes both sides of each account alike.
LEMMA SettledBooks ==
    ASSUME IInv, IInv', BInv, tx = idle, tx' = idle, FundsOff(funds', 0), surplus' = surplus,
           totalStakes' = totalStakes + Stakes(Troves') - Stakes(Troves),
           SIMDebt'["activePool"] = SIMDebt["activePool"] + (Debts(Troves') - Debts(Troves)),
           funds'.counter["activePool"] =
              funds.counter["activePool"] + (Colls(Troves') - Colls(Troves)),
           funds'.counter["collSurplusPool"] = funds.counter["collSurplusPool"],
           simToken'.totalSupply = simToken.totalSupply +
              (SIMDebt'["activePool"] - SIMDebt["activePool"])
                 + (SIMDebt'["defaultPool"] - SIMDebt["defaultPool"]),
           SIMClosed(simToken'), totalSIMDeposits' = simToken'.balances["stabilityPool"],
           totalSIMDeposits' >= 0, TroveOK(Troves', rewardSnapshots', L'), RatesOK'
    PROVE  BInv'
<1>1. /\ Open(tx).debt = 0 /\ Open(tx).coll = 0 /\ Open(tx).surplus = 0
      /\ Open(tx').debt = 0 /\ Open(tx').coll = 0 /\ Open(tx').surplus = 0
      BY OpenCases
<1>2. /\ SIMDebt["activePool"] \in Int /\ funds.counter["activePool"] \in Int
      /\ Debts(Troves) \in Int /\ Colls(Troves) \in Int
      BY BooksTyped DEF PoolNames
<1>3. Debts(Troves') \in Int /\ Colls(Troves') \in Int
      <2>1. Troves' \in TrovesT
            BY DEF IInv, Typed, TrovesTyped
      <2> QED BY <2>1, TotalsAreInt
<1>4. SIMDebt'["activePool"] = SIMDebt["activePool"] +
         (Debts(Troves') - Debts(Troves)) + (Open(tx').debt - Open(tx).debt)
      BY <1>1, <1>2, <1>3
<1>5. funds'.counter["activePool"] = funds.counter["activePool"] +
         (Colls(Troves') - Colls(Troves)) + (Open(tx').coll - Open(tx).coll)
      BY <1>1, <1>2, <1>3
<1>6. Balanced(Troves', totalStakes', funds', SIMDebt', surplus', simToken'.totalSupply, Open(tx'))
      BY <1>1, <1>4, <1>5, ChangesBalance
<1> QED BY <1>6 DEF BInv

\* A trove is opened: it owes what is minted, the fee included.
LEMMA OpenBooks ==
    ASSUME IInv, IInv', BInv, NEW b \in Accounts, NEW amount \in Int, amount >= 0, NEW maxFee,
           NEW SIM \in Int, SIM >= 0, openTrove(b, amount, maxFee, SIM)
    PROVE  BInv'
<1> DEFINE mode == _checkRecoveryMode(price)
           fee == IF mode THEN 0 ELSE _borrowingFee(SIM)
           netDebt == SIM + fee
           coll == Troves[b].coll + amount
           stake == _computeNewStake(coll)
           r == [debt |-> Troves[b].debt + netDebt, coll |-> coll, stake |-> stake,
                 status |-> "active", arrayIndex |-> Len(TroveOwners)]
<1>1. /\ tx = idle /\ ~isActive(b) /\ netDebt >= MIN_NET_DEBT
      /\ Troves' = [Troves EXCEPT ![b] = r]
      /\ rewardSnapshots' = [rewardSnapshots EXCEPT ![b] = L]
      /\ totalStakes' = totalStakes - Troves[b].stake + stake
      /\ funds' = _activePoolAddColl(funds, b, amount)
      /\ SIMDebt' = changeSIMDebt(SIMDebt, "activePool", netDebt)
      /\ simToken' = mint(_mintFee(simToken, fee), b, SIM)
      /\ _chargeFee(~mode)
      /\ surplus' = surplus /\ totalSIMDeposits' = totalSIMDeposits /\ tx' = tx
      /\ UNCHANGED ledgerVars
      BY Zenon DEF openTrove
<1>2. /\ L' = L /\ lastError' = lastError /\ totalStakesSnapshot' = totalStakesSnapshot
      BY <1>1 DEF ledgerVars
<1>3. Typed /\ RatesOK /\ TroveOK(Troves, rewardSnapshots, L)
      BY DEF IInv, BInv
<1>4. fee \in Int
      BY <1>3, FeeTyped
<1> HIDE DEF fee
<1>5. /\ Troves[b].debt = 0 /\ Troves[b].coll = 0 /\ Troves[b].stake = 0
      BY <1>1 DEF IInv, OwnersOK, isActive
<1>6. netDebt \in Int /\ coll \in Int /\ coll >= 0 /\ coll = amount /\ netDebt = SIM + fee
      BY <1>4, <1>5
<1> HIDE DEF netDebt, coll
<1>7. stake \in Int /\ stake >= 0
      BY <1>3, <1>6, StakeTyped, StakeNonNegative DEF RatesOK
<1> HIDE DEF stake
<1>8. r.debt = netDebt /\ r.coll = coll /\ r.stake = stake
      BY <1>5, <1>6
<1> HIDE DEF r
<1>9. /\ Troves \in TrovesT /\ Troves' \in TrovesT /\ rewardSnapshots \in SnapshotsT /\ L \in PairT
      BY DEF IInv, Typed, TrovesTyped, LedgersTyped
<1>10. /\ Troves'[b] = r /\ rewardSnapshots'[b] = L
       /\ \A x \in Accounts : x # b =>
             Troves'[x] = Troves[x] /\ rewardSnapshots'[x] = rewardSnapshots[x]
      BY <1>1, <1>9 DEF TrovesT, SnapshotsT
<1>11. /\ Debts(Troves) \in Int /\ Debts(Troves') = Debts(Troves) + netDebt
       /\ Colls(Troves) \in Int /\ Colls(Troves') = Colls(Troves) + amount
       /\ Stakes(Troves) \in Int /\ Stakes(Troves') = Stakes(Troves) + stake
      <2>1. \A x \in Accounts : x # b =>
               /\ Troves'[x].debt = Troves[x].debt /\ Troves'[x].coll = Troves[x].coll
               /\ Troves'[x].stake = Troves[x].stake
            BY <1>10
      <2>2. /\ Debts(Troves) \in Int /\ Debts(Troves') = Debts(Troves) - Troves[b].debt + Troves'[b].debt
            /\ Colls(Troves) \in Int /\ Colls(Troves') = Colls(Troves) - Troves[b].coll + Troves'[b].coll
            /\ Stakes(Troves) \in Int
            /\ Stakes(Troves') = Stakes(Troves) - Troves[b].stake + Troves'[b].stake
            BY <1>9, <2>1, OneTroveChanges
      <2> QED BY <1>5, <1>6, <1>7, <1>8, <1>10, <2>2
<1>12. TroveOK(Troves', rewardSnapshots', L')
      <2> SUFFICES ASSUME NEW x \in Accounts
                   PROVE  /\ Troves'[x].debt >= 0 /\ Troves'[x].coll >= 0 /\ Troves'[x].stake >= 0
                          /\ Troves'[x].status = "active" =>
                                /\ Troves'[x].debt >= MIN_NET_DEBT
                                /\ rewardSnapshots'[x].WSTETH <= L'.WSTETH
                                /\ rewardSnapshots'[x].SIMDebt <= L'.SIMDebt
          BY DEF TroveOK
      <2>1. CASE x = b
            <3>1. L.WSTETH \in Int /\ L.SIMDebt \in Int
                  BY <1>9 DEF PairT
            <3> QED BY <1>1, <1>2, <1>6, <1>7, <1>8, <1>10, <2>1, <3>1, PositiveConstants
      <2>2. CASE x # b
            BY <1>2, <1>3, <1>10, <2>2 DEF TroveOK
      <2> QED BY <2>1, <2>2
<1>13. /\ FundsOff(funds', 0)
       /\ funds'.counter["activePool"] = funds.counter["activePool"] + amount
       /\ funds'.counter["collSurplusPool"] = funds.counter["collSurplusPool"]
      <2>1. funds \in FundsT /\ FundsOff(funds, 0) /\ b # "stabilityPool"
            BY <1>3, PoolsApart DEF Typed, PoolsTyped, BInv, Balanced, PoolNames
      <2>2. FundsOff(funds, IF b = "stabilityPool" THEN amount ELSE 0)
            BY <2>1
      <2>3. /\ FundsOff(funds', 0)
            /\ \A p \in PoolNames : funds'.counter[p] =
                  funds.counter[p] + (IF p = "activePool" THEN amount ELSE 0)
            BY <1>1, <2>1, <2>2, AddCollKeepsFunds
      <2>4. funds.counter["activePool"] \in Int /\ funds.counter["collSurplusPool"] \in Int
            BY BooksTyped DEF PoolNames
      <2> QED BY <2>3, <2>4 DEF PoolNames
<1>14. /\ SIMDebt'["activePool"] = SIMDebt["activePool"] + netDebt
       /\ SIMDebt'["defaultPool"] = SIMDebt["defaultPool"]
      BY <1>1, <1>3, <1>6 DEF changeSIMDebt, Typed, PoolsTyped, DebtT
<1>15. /\ SIMClosed(simToken') /\ simToken'.totalSupply = simToken.totalSupply + SIM + fee
       /\ simToken'.balances["stabilityPool"] = simToken.balances["stabilityPool"]
      BY <1>1, <1>3, <1>4, BorrowKeepsSum DEF Typed, PoolsTyped, BInv
<1>16. RatesOK'
      BY <1>1, <1>2, <1>3, FeeNonNegative DEF RatesOK
<1>17. totalSIMDeposits' = simToken'.balances["stabilityPool"] /\ totalSIMDeposits' >= 0
      BY <1>1, <1>15 DEF BInv
<1>18. /\ SIMDebt["activePool"] \in Int /\ SIMDebt["defaultPool"] \in Int
       /\ funds.counter["activePool"] \in Int /\ totalStakes \in Int /\ simToken.totalSupply \in Int
      BY BooksTyped DEF PoolNames
<1>19. totalStakes' = totalStakes + Stakes(Troves') - Stakes(Troves)
      BY <1>1, <1>5, <1>7, <1>11, <1>18
<1>20. SIMDebt'["activePool"] = SIMDebt["activePool"] + (Debts(Troves') - Debts(Troves))
      BY <1>6, <1>11, <1>14, <1>18
<1>21. funds'.counter["activePool"] = funds.counter["activePool"] + (Colls(Troves') - Colls(Troves))
      BY <1>11, <1>13, <1>18
<1>22. simToken'.totalSupply = simToken.totalSupply +
         (SIMDebt'["activePool"] - SIMDebt["activePool"])
            + (SIMDebt'["defaultPool"] - SIMDebt["defaultPool"])
      BY <1>4, <1>6, <1>14, <1>15, <1>18
<1> QED BY <1>1, <1>12, <1>13, <1>15, <1>16, <1>17, <1>19, <1>20, <1>21, <1>22, SettledBooks

\* The funds after an adjustment: rewards move to the active pool, collateral in or out of it.
AdjustedFunds(b, f, source, received, withdrawal, W) ==
    IF received # 0 THEN _activePoolAddColl(sendWSTETHToActivePool(f, W), source, received)
                    ELSE sendWSTETH(sendWSTETHToActivePool(f, W), b, withdrawal)

\* An adjustment moves counters and balances alike.
LEMMA AdjustingKeepsFunds ==
    ASSUME NEW b \in Accounts, NEW f \in FundsT, NEW source \in Accounts \cup {"stabilityPool"},
           NEW received \in Int, NEW withdrawal \in Int, NEW W \in Int, NEW gain \in Int,
           source = "stabilityPool" => received # 0 /\ gain = received,
           source # "stabilityPool" => gain = 0,
           FundsOff(f, gain)
    PROVE  /\ FundsOff(AdjustedFunds(b, f, source, received, withdrawal, W), 0)
           /\ received # 0 =>
                 AdjustedFunds(b, f, source, received, withdrawal, W).counter["activePool"] =
                    f.counter["activePool"] + W + received
           /\ received = 0 =>
                 AdjustedFunds(b, f, source, received, withdrawal, W).counter["activePool"] =
                    f.counter["activePool"] + W - withdrawal
           /\ AdjustedFunds(b, f, source, received, withdrawal, W).counter["collSurplusPool"] =
                 f.counter["collSurplusPool"]
<1> DEFINE m == sendWSTETHToActivePool(f, W)
           g == AdjustedFunds(b, f, source, received, withdrawal, W)
<1>1. m \in FundsT
      BY FundsTyped
<1>2. /\ FundsOff(m, gain)
      /\ m.counter["activePool"] = f.counter["activePool"] + W
      /\ m.counter["collSurplusPool"] = f.counter["collSurplusPool"]
      BY <1>1, ToActiveKeepsFunds
<1>3. /\ f.counter["activePool"] \in Int /\ f.counter["collSurplusPool"] \in Int
      BY DEF FundsT, PoolNames
<1> HIDE DEF m
<1>4. CASE received # 0
      <2>1. g = _activePoolAddColl(m, source, received)
            BY <1>4 DEF m, AdjustedFunds
      <2>2. /\ FundsOff(g, 0)
            /\ \A p \in PoolNames : g.counter[p] =
                  m.counter[p] + (IF p = "activePool" THEN received ELSE 0)
            <3>1. FundsOff(m, IF source = "stabilityPool" THEN received ELSE 0)
                  BY <1>2
            <3> HIDE DEF g
            <3> QED BY <1>1, <2>1, <3>1, AddCollKeepsFunds
      <2> HIDE DEF g
      <2>3. /\ g.counter["activePool"] = m.counter["activePool"] + received
            /\ g.counter["collSurplusPool"] = m.counter["collSurplusPool"]
            BY <1>2, <1>3, <2>2 DEF PoolNames
      <2> QED BY <1>2, <1>3, <1>4, <2>2, <2>3 DEF g
<1>5. CASE received = 0
      <2>1. g = sendWSTETH(m, b, withdrawal) /\ FundsOff(m, 0)
            BY <1>2, <1>5 DEF m, AdjustedFunds
      <2>2. b \in Holders /\ b # "activePool" /\ b # "collSurplusPool"
            BY PoolsApart DEF PoolNames
      <2>3. /\ FundsOff(g, 0) /\ g.counter["activePool"] = m.counter["activePool"] - withdrawal
            /\ g.counter["collSurplusPool"] = m.counter["collSurplusPool"]
            <3> HIDE DEF g
            <3> QED BY <1>1, <2>1, <2>2, SendKeepsFunds
      <2> HIDE DEF g
      <2> QED BY <1>2, <1>3, <1>5, <2>3 DEF g
<1> QED BY <1>4, <1>5

\* Every adjustment of a trove.
LEMMA AdjustBooks ==
    ASSUME IInv, IInv', BInv, NEW b \in Accounts, NEW f \in FundsT,
           NEW source \in Accounts \cup {"stabilityPool"}, NEW received \in Int,
           NEW withdrawal \in Int, NEW SIM \in Int, SIM >= 0, NEW up \in BOOLEAN, NEW maxFee,
           source = "stabilityPool" => received # 0,
           FundsOff(f, IF source = "stabilityPool" THEN received ELSE 0),
           f.counter["activePool"] = funds.counter["activePool"],
           f.counter["collSurplusPool"] = funds.counter["collSurplusPool"],
           _adjustTrove(b, f, source, received, withdrawal, SIM, up, maxFee),
           UNCHANGED totalSIMDeposits
    PROVE  BInv'
<1> DEFINE mode == _checkRecoveryMode(price)
           charged == up /\ ~mode
           fee == IF charged THEN _borrowingFee(SIM) ELSE 0
           debtChange == IF up THEN SIM + fee ELSE -SIM
           collChange == IF received # 0 THEN received ELSE -withdrawal
           c == _collNow(b) + collChange
           d == _debtNow(b) + debtChange
           stake == _computeNewStake(c)
           W == _appliedReward(b, "WSTETH")
           S == _appliedReward(b, "SIMDebt")
<1>1. /\ tx = idle /\ isActive(b)
      /\ c >= 0
      /\ up => SIM > 0
      /\ ~up /\ SIM > 0 => _validRepayment(b, d, SIM)
      /\ Troves' = [Troves EXCEPT ![b].coll = c, ![b].debt = d, ![b].stake = stake]
      /\ rewardSnapshots' = _snapshotsAfterApply(b)
      /\ totalStakes' = totalStakes - Troves[b].stake + stake
      /\ funds' = AdjustedFunds(b, f, source, received, withdrawal, W)
      /\ SIMDebt' = changeSIMDebt(_debtAfterMove(S), "activePool", debtChange)
      /\ simToken' = IF up THEN mint(_mintFee(simToken, fee), b, SIM) ELSE burn(simToken, b, SIM)
      /\ _chargeFee(charged)
      /\ surplus' = surplus /\ tx' = tx
      /\ UNCHANGED ledgerVars
      BY Zenon DEF _adjustTrove, AdjustedFunds
<1>2. /\ L' = L /\ lastError' = lastError /\ totalStakesSnapshot' = totalStakesSnapshot
      BY <1>1 DEF ledgerVars
<1>3. Typed /\ RatesOK /\ TroveOK(Troves, rewardSnapshots, L)
      BY DEF IInv, BInv
<1>4. fee \in Int /\ fee >= 0
      BY <1>3, FeeTyped, FeeNonNegative DEF RatesOK
<1> HIDE DEF fee, charged
<1>5. /\ debtChange \in Int /\ collChange \in Int
      /\ up => debtChange = SIM + fee
      /\ ~up => debtChange = -SIM
      BY <1>4
<1> HIDE DEF debtChange, collChange
<1>6. /\ _debtNow(b) \in Int /\ _collNow(b) \in Int /\ W \in Int /\ S \in Int
      /\ Troves[b].debt \in Int /\ Troves[b].coll \in Int /\ Troves[b].stake \in Int
      BY <1>3, ViewsTyped, RewardTyped, BooksTyped
<1>7. _debtNow(b) = Troves[b].debt + S /\ _collNow(b) = Troves[b].coll + W
      BY DEF _debtNow, _collNow
<1> HIDE DEF W, S
<1>8. /\ c \in Int /\ d \in Int
      /\ c = Troves[b].coll + W + collChange /\ d = Troves[b].debt + S + debtChange
      BY <1>5, <1>6, <1>7
<1>9. d >= MIN_NET_DEBT
      <2>1. _debtNow(b) >= MIN_NET_DEBT
            BY <1>1, <1>3, WorthNonNegative
      <2>2. CASE up
            BY <1>1, <1>4, <1>5, <1>6, <2>1, <2>2, PositiveConstants
      <2>3. CASE ~up /\ SIM > 0
            BY <1>1, <2>3 DEF _validRepayment
      <2>4. CASE ~up /\ SIM = 0
            BY <1>5, <1>6, <2>1, <2>4
      <2> QED BY <2>2, <2>3, <2>4
<1>10. c >= 0
      BY <1>1
<1> HIDE DEF c, d
<1>11. stake \in Int /\ stake >= 0
      BY <1>3, <1>8, <1>10, StakeTyped, StakeNonNegative DEF RatesOK
<1> HIDE DEF stake
<1>12. Troves' = WithAmounts(b, c, d, stake)
      BY <1>1 DEF WithAmounts
<1>13. /\ Debts(Troves') = Debts(Troves) - Troves[b].debt + d
       /\ Colls(Troves') = Colls(Troves) - Troves[b].coll + c
       /\ Stakes(Troves') = Stakes(Troves) - Troves[b].stake + stake
       /\ TroveOK(Troves', rewardSnapshots', L')
      <2>1. isActive(b) /\ rewardSnapshots' = _snapshotsAfterApply(b)
            BY <1>1
      <2> QED BY <1>2, <1>3, <1>8, <1>9, <1>10, <1>11, <1>12, <2>1, NewAmountsInTotals
<1>14. /\ FundsOff(funds', 0)
       /\ funds'.counter["activePool"] = funds.counter["activePool"] + W + collChange
       /\ funds'.counter["collSurplusPool"] = funds.counter["collSurplusPool"]
      <2> DEFINE g == AdjustedFunds(b, f, source, received, withdrawal, W)
                 gain == IF source = "stabilityPool" THEN received ELSE 0
      <2>1. funds' = g
            BY <1>1
      <2>2. /\ gain \in Int /\ FundsOff(f, gain)
            /\ source = "stabilityPool" => received # 0 /\ gain = received
            /\ source # "stabilityPool" => gain = 0
            OBVIOUS
      <2> HIDE DEF gain
      <2>3. /\ FundsOff(g, 0) /\ g.counter["collSurplusPool"] = f.counter["collSurplusPool"]
            /\ received # 0 => g.counter["activePool"] = f.counter["activePool"] + W + received
            /\ received = 0 => g.counter["activePool"] = f.counter["activePool"] + W - withdrawal
            BY <1>6, <2>2, AdjustingKeepsFunds
      <2> HIDE DEF g
      <2>4. funds.counter["activePool"] \in Int
            BY BooksTyped DEF PoolNames
      <2> QED BY <1>6, <2>1, <2>3, <2>4 DEF collChange
<1>15. /\ SIMDebt'["activePool"] = SIMDebt["activePool"] + S + debtChange
       /\ SIMDebt'["defaultPool"] = SIMDebt["defaultPool"] - S
      <2> DEFINE e == _debtAfterMove(S)
      <2>1. /\ e \in DebtT
            /\ e["activePool"] = SIMDebt["activePool"] + S
            /\ e["defaultPool"] = SIMDebt["defaultPool"] - S
            BY <1>6, MoveKeepsBooks DEF BInv, Balanced
      <2>2. SIMDebt' = changeSIMDebt(e, "activePool", debtChange)
            BY <1>1
      <2> HIDE DEF e
      <2> QED BY <1>5, <2>1, <2>2 DEF changeSIMDebt, DebtT
<1>16. /\ SIMClosed(simToken') /\ simToken'.totalSupply = simToken.totalSupply + debtChange
       /\ simToken'.balances["stabilityPool"] = simToken.balances["stabilityPool"]
      <2>1. simToken \in SIMT /\ SIMClosed(simToken) /\ simToken.totalSupply \in Int
            BY <1>3 DEF Typed, PoolsTyped, BInv, SIMT
      <2>2. CASE up
            <3>1. simToken' = mint(_mintFee(simToken, fee), b, SIM)
                  BY <1>1, <2>2
            <3>2. /\ SIMClosed(simToken') /\ simToken'.totalSupply = simToken.totalSupply + SIM + fee
                  /\ simToken'.balances["stabilityPool"] = simToken.balances["stabilityPool"]
                  BY <1>4, <2>1, <3>1, BorrowKeepsSum
            <3> QED BY <1>4, <1>5, <2>1, <2>2, <3>2
      <2>3. CASE ~up
            <3>1. simToken' = burn(simToken, b, SIM)
                  BY <1>1, <2>3
            <3>2. b \in SIMHolders /\ b # "stabilityPool"
                  BY PoolsApart DEF SIMContracts
            <3>3. /\ SIMClosed(simToken') /\ simToken'.totalSupply = simToken.totalSupply - SIM
                  /\ simToken'.balances["stabilityPool"] = simToken.balances["stabilityPool"]
                        - (IF b = "stabilityPool" THEN SIM ELSE 0)
                  BY <2>1, <3>1, <3>2, BurnKeepsSum
            <3>4. simToken.balances["stabilityPool"] \in Int
                  BY <2>1, PoolsApart DEF SIMT, SIMContracts
            <3> QED BY <1>5, <2>1, <2>3, <3>2, <3>3, <3>4
      <2> QED BY <2>2, <2>3
<1>17. RatesOK'
      BY <1>1, <1>2, <1>3, FeeNonNegative DEF RatesOK
<1>18. totalSIMDeposits' = simToken'.balances["stabilityPool"] /\ totalSIMDeposits' >= 0
      BY <1>16 DEF BInv
<1>19. /\ SIMDebt["activePool"] \in Int /\ SIMDebt["defaultPool"] \in Int
       /\ funds.counter["activePool"] \in Int /\ totalStakes \in Int /\ simToken.totalSupply \in Int
       /\ Debts(Troves) \in Int /\ Colls(Troves) \in Int /\ Stakes(Troves) \in Int
      BY BooksTyped DEF PoolNames
<1>20. totalStakes' = totalStakes + Stakes(Troves') - Stakes(Troves)
      BY <1>1, <1>6, <1>11, <1>13, <1>19
<1>21. SIMDebt'["activePool"] = SIMDebt["activePool"] + (Debts(Troves') - Debts(Troves))
      BY <1>5, <1>6, <1>8, <1>13, <1>15, <1>19
<1>22. funds'.counter["activePool"] = funds.counter["activePool"] + (Colls(Troves') - Colls(Troves))
      BY <1>5, <1>6, <1>8, <1>13, <1>14, <1>19
<1>23. simToken'.totalSupply = simToken.totalSupply +
         (SIMDebt'["activePool"] - SIMDebt["activePool"])
            + (SIMDebt'["defaultPool"] - SIMDebt["defaultPool"])
      BY <1>5, <1>6, <1>15, <1>16, <1>19
<1> QED BY <1>1, <1>13, <1>14, <1>16, <1>17, <1>18, <1>20, <1>21, <1>22, <1>23, SettledBooks

\* A borrower closes a trove: its debt is burnt and its collateral sent back.
LEMMA CloseBooks ==
    ASSUME IInv, IInv', BInv, NEW b \in Accounts, closeTrove(b)
    PROVE  BInv'
<1> DEFINE c == _collNow(b)
           d == _debtNow(b)
           W == _appliedReward(b, "WSTETH")
           S == _appliedReward(b, "SIMDebt")
           e == _debtAfterMove(S)
           f == _fundsAfterMove(W)
<1>1. /\ tx = idle /\ tx' = tx
      /\ _closeTrove(b, "closedByOwner")
      /\ SIMDebt' = changeSIMDebt(e, "activePool", -d)
      /\ simToken' = burn(simToken, b, d)
      /\ funds' = sendWSTETH(f, b, c)
      /\ surplus' = surplus /\ totalSIMDeposits' = totalSIMDeposits
      /\ UNCHANGED <<ledgerVars, rateVars>>
      BY Zenon DEF closeTrove
<1>2. /\ L' = L /\ lastError' = lastError /\ totalStakesSnapshot' = totalStakesSnapshot
      /\ baseRate' = baseRate
      BY <1>1 DEF ledgerVars, rateVars
<1>3. Typed /\ RatesOK /\ TroveOK(Troves, rewardSnapshots, L)
      BY DEF IInv, BInv
<1>4. /\ c \in Int /\ d \in Int /\ W \in Int /\ S \in Int
      /\ Troves[b].debt \in Int /\ Troves[b].coll \in Int /\ Troves[b].stake \in Int
      BY <1>3, ViewsTyped, RewardTyped, BooksTyped
<1>5. d = Troves[b].debt + S /\ c = Troves[b].coll + W
      BY DEF _debtNow, _collNow
<1> HIDE DEF c, d, W, S
<1>6. /\ FundsOff(f, 0) /\ f \in FundsT
      /\ f.counter["activePool"] = funds.counter["activePool"] + W
      /\ f.counter["collSurplusPool"] = funds.counter["collSurplusPool"]
      /\ e \in DebtT
      /\ e["activePool"] = SIMDebt["activePool"] + S
      /\ e["defaultPool"] = SIMDebt["defaultPool"] - S
      BY <1>4, MoveKeepsBooks DEF BInv, Balanced
<1> HIDE DEF e, f
<1>7. /\ Debts(Troves') = Debts(Troves) - Troves[b].debt
      /\ Colls(Troves') = Colls(Troves) - Troves[b].coll
      /\ Stakes(Troves') = Stakes(Troves) - Troves[b].stake
      /\ totalStakes' = totalStakes - Troves[b].stake
      /\ TroveOK(Troves', rewardSnapshots', L')
      BY <1>1, <1>2, <1>3, ClosedLeavesTotals
<1>8. b \in Holders /\ b # "activePool" /\ b # "collSurplusPool" /\ b \in SIMHolders
      /\ b # "stabilityPool"
      BY PoolsApart DEF PoolNames
<1>9. /\ FundsOff(funds', 0) /\ funds'.counter["activePool"] = f.counter["activePool"] - c
      /\ funds'.counter["collSurplusPool"] = f.counter["collSurplusPool"]
      BY <1>1, <1>4, <1>6, <1>8, SendKeepsFunds
<1>10. /\ SIMDebt'["activePool"] = e["activePool"] - d
       /\ SIMDebt'["defaultPool"] = e["defaultPool"]
      BY <1>1, <1>4, <1>6 DEF changeSIMDebt, DebtT
<1>11. /\ SIMClosed(simToken') /\ simToken'.totalSupply = simToken.totalSupply - d
       /\ simToken'.balances["stabilityPool"] = simToken.balances["stabilityPool"]
      <2>1. simToken \in SIMT /\ SIMClosed(simToken)
            BY <1>3 DEF Typed, PoolsTyped, BInv
      <2>2. /\ SIMClosed(simToken') /\ simToken'.totalSupply = simToken.totalSupply - d
            /\ simToken'.balances["stabilityPool"] = simToken.balances["stabilityPool"]
                  - (IF b = "stabilityPool" THEN d ELSE 0)
            BY <1>1, <1>4, <1>8, <2>1, BurnKeepsSum
      <2>3. simToken.balances["stabilityPool"] \in Int
            BY <2>1, PoolsApart DEF SIMT, SIMContracts
      <2> QED BY <1>8, <2>2, <2>3
<1>12. RatesOK'
      BY <1>2, <1>3 DEF RatesOK
<1>13. totalSIMDeposits' = simToken'.balances["stabilityPool"] /\ totalSIMDeposits' >= 0
      BY <1>1, <1>11 DEF BInv
<1>14. /\ SIMDebt["activePool"] \in Int /\ SIMDebt["defaultPool"] \in Int
       /\ funds.counter["activePool"] \in Int /\ totalStakes \in Int /\ simToken.totalSupply \in Int
       /\ Debts(Troves) \in Int /\ Colls(Troves) \in Int /\ Stakes(Troves) \in Int
      BY BooksTyped DEF PoolNames
<1>15. totalStakes' = totalStakes + Stakes(Troves') - Stakes(Troves)
      BY <1>4, <1>7, <1>14
<1>16. SIMDebt'["activePool"] = SIMDebt["activePool"] + (Debts(Troves') - Debts(Troves))
      BY <1>4, <1>5, <1>6, <1>7, <1>10, <1>14
<1>17. funds'.counter["activePool"] = funds.counter["activePool"] + (Colls(Troves') - Colls(Troves))
      BY <1>4, <1>5, <1>6, <1>7, <1>9, <1>14
<1>18. simToken'.totalSupply = simToken.totalSupply +
         (SIMDebt'["activePool"] - SIMDebt["activePool"])
            + (SIMDebt'["defaultPool"] - SIMDebt["defaultPool"])
      BY <1>4, <1>6, <1>10, <1>11, <1>14
<1>19. funds'.counter["collSurplusPool"] = funds.counter["collSurplusPool"]
      BY <1>6, <1>9
<1> QED BY <1>1, <1>7, <1>9, <1>11, <1>12, <1>13, <1>15, <1>16, <1>17, <1>18, <1>19, SettledBooks

\* A transaction that leaves troves and debts alone.
LEMMA TrovesAsideBooks ==
    ASSUME IInv, IInv', BInv, tx = idle, SIMDebt' = SIMDebt,
           UNCHANGED <<troveVars, ledgerVars, rateVars, tx>>,
           FundsOff(funds', 0), funds'.counter["activePool"] = funds.counter["activePool"],
           Total(surplus') = funds'.counter["collSurplusPool"],
           simToken'.totalSupply = simToken.totalSupply, SIMClosed(simToken'),
           totalSIMDeposits' = simToken'.balances["stabilityPool"], totalSIMDeposits' >= 0
    PROVE  BInv'
<1>1. /\ Troves' = Troves /\ rewardSnapshots' = rewardSnapshots /\ totalStakes' = totalStakes
      /\ L' = L /\ lastError' = lastError /\ totalStakesSnapshot' = totalStakesSnapshot
      /\ baseRate' = baseRate /\ tx' = tx
      BY DEF troveVars, ledgerVars, rateVars
<1>2. Balanced(Troves, totalStakes, funds, SIMDebt, surplus, simToken.totalSupply, Open(tx))
      BY DEF BInv
<1>3. Open(tx).surplus = 0 /\ funds'.counter["collSurplusPool"] \in Int
      BY OpenCases DEF IInv, Typed, PoolsTyped, FundsT, PoolNames
<1>4. Balanced(Troves', totalStakes', funds', SIMDebt', surplus', simToken'.totalSupply, Open(tx'))
      BY <1>1, <1>2, <1>3 DEF Balanced
<1>5. TroveOK(Troves', rewardSnapshots', L') /\ RatesOK'
      BY <1>1 DEF BInv, RatesOK
<1> QED BY <1>1, <1>4, <1>5 DEF BInv

\* A borrower claims what a redemption or a capped liquidation left.
LEMMA ClaimBooks ==
    ASSUME IInv, IInv', BInv, NEW b \in Accounts, claimCollateral(b)
    PROVE  BInv'
<1> DEFINE x == surplus[b]
<1>1. /\ tx = idle /\ SIMDebt' = SIMDebt /\ totalSIMDeposits' = totalSIMDeposits
      /\ simToken' = simToken
      /\ UNCHANGED <<troveVars, ledgerVars, rateVars, tx>>
      /\ surplus' = [surplus EXCEPT ![b] = 0]
      /\ funds' = PaidOut(funds, "collSurplusPool", b, x)
      BY DEF claimCollateral, claimColl, PaidOut
<1>2. funds \in FundsT /\ FundsOff(funds, 0) /\ surplus \in SurplusT /\ x \in Int
      BY DEF IInv, Typed, PoolsTyped, SurplusT, BInv, Balanced
<1>3. Total(surplus) \in Int /\ Total(surplus') = Total(surplus) - x + 0
      <2> DEFINE z == 0
      <2>1. z \in Int /\ surplus' = [surplus EXCEPT ![b] = z]
            BY <1>1
      <2> HIDE DEF z
      <2>2. Total(surplus) \in Int /\ Total(surplus') = Total(surplus) - surplus[b] + z
            BY <1>2, <2>1, SurplusChanges
      <2> QED BY <2>2 DEF z
<1>4. "collSurplusPool" \in PoolNames /\ "activePool" \in PoolNames
      BY DEF PoolNames
<1> HIDE DEF x
<1>5. /\ FundsOff(funds', 0)
      /\ funds'.counter["collSurplusPool"] = funds.counter["collSurplusPool"] - x
      /\ funds'.counter["activePool"] = funds.counter["activePool"]
      <2>1. funds' = PaidOut(funds, "collSurplusPool", b, x)
            BY <1>1
      <2> QED BY <1>2, <1>4, <2>1, PayingKeepsFunds
<1>6. Total(surplus) = funds.counter["collSurplusPool"] + Open(tx).surplus /\ Open(tx).surplus = 0
      BY <1>1, OpenCases DEF BInv, Balanced
<1>7. funds.counter["activePool"] \in Int /\ funds.counter["collSurplusPool"] \in Int
      BY BooksTyped DEF PoolNames
<1>9. Total(surplus') = funds'.counter["collSurplusPool"]
      BY <1>2, <1>3, <1>4, <1>5, <1>6, <1>7
<1>10. /\ SIMClosed(simToken') /\ totalSIMDeposits' = simToken'.balances["stabilityPool"]
       /\ totalSIMDeposits' >= 0 /\ simToken'.totalSupply = simToken.totalSupply
      BY <1>1 DEF BInv
<1> QED BY <1>1, <1>5, <1>9, <1>10, TrovesAsideBooks

\* Deposits into and withdrawals from the stability pool.
LEMMA DepositBooks ==
    ASSUME IInv, IInv', BInv, NEW a \in Accounts, NEW m \in Int, m >= 0, NEW gain \in Int,
           provideToSP(a, m, gain) \/ withdrawFromSP(a, m, gain)
    PROVE  BInv'
<1>1. /\ tx = idle /\ SIMDebt' = SIMDebt /\ surplus' = surplus
      /\ UNCHANGED <<troveVars, ledgerVars, rateVars, tx>>
      /\ funds' = _payGain(funds, a, gain)
      /\ \/ /\ simToken' = SentSIM(simToken, a, "stabilityPool", m)
            /\ totalSIMDeposits' = totalSIMDeposits + m
         \/ /\ simToken' = SentSIM(simToken, "stabilityPool", a, m)
            /\ totalSIMDeposits' = totalSIMDeposits - m
            /\ m <= totalSIMDeposits
      BY DEF provideToSP, withdrawFromSP, _depositVars
<1>2. /\ funds \in FundsT /\ FundsOff(funds, 0) /\ simToken \in SIMT /\ SIMClosed(simToken)
      /\ totalSIMDeposits \in Int /\ totalSIMDeposits >= 0
      /\ totalSIMDeposits = simToken.balances["stabilityPool"]
      BY DEF IInv, Typed, PoolsTyped, BInv, Balanced
<1>3. /\ "stabilityPool" \in PoolNames /\ "activePool" \in PoolNames
      /\ "collSurplusPool" \in PoolNames
      BY DEF PoolNames
<1>4. /\ a \in SIMHolders /\ "stabilityPool" \in SIMHolders /\ a # "stabilityPool"
      BY PoolsApart DEF SIMContracts
<1>5. /\ FundsOff(funds', 0)
      /\ funds'.counter["activePool"] = funds.counter["activePool"]
      /\ funds'.counter["collSurplusPool"] = funds.counter["collSurplusPool"]
      <2>1. funds' = PaidOut(funds, "stabilityPool", a, gain)
            BY <1>1 DEF _payGain, PaidOut
      <2> QED BY <1>2, <1>3, <2>1, PayingKeepsFunds
<1>6. funds.counter["activePool"] \in Int /\ funds.counter["collSurplusPool"] \in Int
      BY BooksTyped DEF PoolNames
<1>8. Total(surplus') = funds'.counter["collSurplusPool"]
      <2>1. Total(surplus) = funds.counter["collSurplusPool"] + Open(tx).surplus /\ Open(tx).surplus = 0
            BY <1>1, OpenCases DEF BInv, Balanced
      <2> QED BY <1>1, <1>5, <1>6, <2>1
<1>9. /\ SIMClosed(simToken') /\ simToken'.totalSupply = simToken.totalSupply
      /\ totalSIMDeposits' = simToken'.balances["stabilityPool"] /\ totalSIMDeposits' >= 0
      <2>1. CASE /\ simToken' = SentSIM(simToken, a, "stabilityPool", m)
                 /\ totalSIMDeposits' = totalSIMDeposits + m
            <3>1. /\ SIMClosed(simToken') /\ simToken'.totalSupply = simToken.totalSupply
                  /\ simToken'.balances["stabilityPool"] = simToken.balances["stabilityPool"] + m
                  BY <1>2, <1>4, <2>1, SendingKeepsSum
            <3> QED BY <1>2, <1>4, <2>1, <3>1
      <2>2. CASE /\ simToken' = SentSIM(simToken, "stabilityPool", a, m)
                 /\ totalSIMDeposits' = totalSIMDeposits - m
                 /\ m <= totalSIMDeposits
            <3>1. /\ SIMClosed(simToken') /\ simToken'.totalSupply = simToken.totalSupply
                  /\ simToken'.balances["stabilityPool"] = simToken.balances["stabilityPool"] - m
                  BY <1>2, <1>4, <2>2, SendingKeepsSum
            <3> QED BY <1>2, <1>4, <2>2, <3>1
      <2> QED BY <1>1, <2>1, <2>2
<1> QED BY <1>1, <1>5, <1>8, <1>9, TrovesAsideBooks

\* A depositor's gain goes to the trove: out of the pool's counter, then out of its balance.
LEMMA GainToTroveBooks ==
    ASSUME IInv, IInv', BInv, NEW b \in Accounts, NEW gain \in Int,
           withdrawWSTETHGainToTrove(b, gain)
    PROVE  BInv'
<1> DEFINE f == [funds EXCEPT !.counter["stabilityPool"] = @ - gain]
           source == "stabilityPool"
<1>1. funds \in FundsT /\ FundsOff(funds, 0)
      BY DEF IInv, Typed, PoolsTyped, BInv, Balanced
<1>2. /\ f \in FundsT /\ f.balance = funds.balance
      /\ \A p \in PoolNames : p # "stabilityPool" => f.counter[p] = funds.counter[p]
      /\ f.counter["stabilityPool"] = funds.counter["stabilityPool"] - gain
      BY <1>1 DEF FundsT, PoolNames
<1>3. /\ _adjustTrove(b, f, source, gain, 0, 0, FALSE, 0) /\ UNCHANGED totalSIMDeposits
      /\ 0 < gain
      BY Zenon DEF withdrawWSTETHGainToTrove
<1> HIDE DEF f
<1>4. FundsOff(f, IF source = "stabilityPool" THEN gain ELSE 0)
      <2>1. \A p \in PoolNames : funds.counter[p] = funds.balance[p] /\ funds.balance[p] \in Int
            BY <1>1, PoolsApart DEF FundsOff, FundsT
      <2> QED BY <1>1, <1>2, <2>1 DEF FundsOff
<1>5. /\ f.counter["activePool"] = funds.counter["activePool"]
      /\ f.counter["collSurplusPool"] = funds.counter["collSurplusPool"]
      BY <1>2 DEF PoolNames
<1>6. /\ source \in Accounts \cup {"stabilityPool"} /\ 0 \in Int /\ 0 >= 0 /\ FALSE \in BOOLEAN
      /\ source = "stabilityPool" => gain # 0
      BY <1>3
<1> HIDE DEF source
<1> QED BY <1>2, <1>3, <1>4, <1>5, <1>6, AdjustBooks, Zenon

\* SIM changes hands.
LEMMA TransferBooks ==
    ASSUME IInv, IInv', BInv, TransferSIM
    PROVE  BInv'
<1>1. PICK a \in SIMHolders \ {"stabilityPool"}, b \in Accounts, m \in TransferAmounts :
         /\ tx = idle
         /\ simToken' = SentSIM(simToken, a, b, m)
         /\ UNCHANGED <<funds, SIMDebt, surplus, totalSIMDeposits, troveVars, ledgerVars,
                        rateVars, price, now, tx>>
      BY DEF TransferSIM
<1>2. m \in Int /\ b \in SIMHolders /\ b # "stabilityPool" /\ a \in SIMHolders /\ a # "stabilityPool"
      BY AmountsAssumption, PoolsApart DEF SIMContracts
<1>3. simToken \in SIMT /\ SIMClosed(simToken)
      BY DEF IInv, Typed, PoolsTyped, BInv
<1>4. /\ SIMClosed(simToken') /\ simToken'.totalSupply = simToken.totalSupply
      /\ simToken'.balances["stabilityPool"] = simToken.balances["stabilityPool"]
      BY <1>1, <1>2, <1>3, SendingKeepsSum
<1>5. /\ SIMDebt' = SIMDebt /\ funds' = funds /\ surplus' = surplus
      /\ totalSIMDeposits' = totalSIMDeposits
      /\ UNCHANGED <<troveVars, ledgerVars, rateVars, tx>>
      BY <1>1
<1>6. /\ FundsOff(funds', 0) /\ funds'.counter["activePool"] = funds.counter["activePool"]
      /\ totalSIMDeposits' = simToken'.balances["stabilityPool"] /\ totalSIMDeposits' >= 0
      BY <1>4, <1>5 DEF BInv, Balanced
<1>7. Total(surplus') = funds'.counter["collSurplusPool"]
      <2>1. Total(surplus) = funds.counter["collSurplusPool"] + Open(tx).surplus /\ Open(tx).surplus = 0
            BY <1>1, OpenCases DEF BInv, Balanced
      <2>2. funds.counter["collSurplusPool"] \in Int
            BY BooksTyped DEF PoolNames
      <2> QED BY <1>5, <2>1, <2>2
<1> QED BY <1>1, <1>4, <1>5, <1>6, <1>7, TrovesAsideBooks

-----------------------------------------------------------------------------
(* Transactions that begin a loop.                                         *)

\* What a transaction that begins would put back is in order.
LEMMA CheckpointBooks ==
    ASSUME BInv, tx = idle
    PROVE  /\ Balanced(Checkpoint.Troves, Checkpoint.totalStakes, Checkpoint.funds,
                       Checkpoint.SIMDebt, Checkpoint.surplus, simToken.totalSupply, Open(idle))
           /\ TroveOK(Checkpoint.Troves, Checkpoint.rewardSnapshots, L)
<1>1. /\ Checkpoint.Troves = Troves /\ Checkpoint.totalStakes = totalStakes
      /\ Checkpoint.funds = funds /\ Checkpoint.SIMDebt = SIMDebt /\ Checkpoint.surplus = surplus
      /\ Checkpoint.rewardSnapshots = rewardSnapshots
      BY DEF Checkpoint
<1> QED BY <1>1 DEF BInv

\* A liquidation begins, with nothing taken and all deposits to offset.
LEMMA StartLiquidationBooks ==
    ASSUME BInv, IInv, NEW caller, NEW loop \in LoopNames, NEW array, NEW n,
           _startLiquidation(caller, loop, array, n)
    PROVE  BInv'
<1> DEFINE f == [at |-> loop, caller |-> caller, troveArray |-> array, n |-> n,
                 user |-> getLast, firstUser |-> getFirst,
                 remainingSIM |-> totalSIMDeposits, entireSystemDebt |-> getEntireSystemDebt,
                 entireSystemColl |-> getEntireSystemColl, backToNormalMode |-> FALSE,
                 totals |-> zeroVals, pre |-> Checkpoint]
<1>1. tx = idle /\ _goOn(f)
      BY DEF _startLiquidation, _goOn
<1>2. /\ f.at \in LoopNames /\ f.totals = zeroVals /\ f.pre = Checkpoint
      /\ f.remainingSIM = totalSIMDeposits
      OBVIOUS
<1> HIDE DEF f
<1>3. Open(f) = Open(tx)
      <2>1. Open(f) = [debt |-> 0, coll |-> 0, surplus |-> 0]
            BY <1>2 DEF Open, zeroVals
      <2>2. Open(idle) = [debt |-> 0, coll |-> 0, surplus |-> 0]
            BY DEF Open, idle, LoopNames
      <2> QED BY <1>1, <2>1, <2>2
<1>4. totalSIMDeposits \in Int /\ totalSIMDeposits >= 0 /\ zeroVals.debtToOffset = 0
      BY DEF IInv, Typed, PoolsTyped, BInv, zeroVals
<1>5. FrameBooks(f, simToken.totalSupply, L, totalSIMDeposits)
      BY <1>1, <1>2, <1>4, CheckpointBooks, ZeroAddsUp DEF FrameBooks
<1> QED BY <1>1, <1>3, <1>5, GoOnBooks

\* A redemption begins.
LEMMA RedeemCollateralBooks ==
    ASSUME BInv, NEW caller, NEW SIM, NEW hint, NEW n, NEW maxFee,
           redeemCollateral(caller, SIM, hint, n, maxFee)
    PROVE  BInv'
<1> DEFINE u == IF _isValidFirstRedemptionHint(hint) THEN hint ELSE _firstRedeemable
           m == IF n = 0 THEN MAX_UINT ELSE n
           f == [at |-> "redeem", caller |-> caller, maxFee |-> maxFee, n |-> m, user |-> u,
                 totalSIMSupplyAtStart |-> getEntireSystemDebt, remainingSIM |-> SIM,
                 SIMToRedeem |-> 0, WSTETHDrawn |-> 0, pre |-> Checkpoint]
<1>1. tx = idle /\ _goOn(f)
      BY Zenon DEF redeemCollateral, _goOn
<1> HIDE DEF u, m
<1>2. f.at = "redeem" /\ f.SIMToRedeem = 0 /\ f.WSTETHDrawn = 0 /\ f.pre = Checkpoint
      OBVIOUS
<1> HIDE DEF f
<1>3. Open(f) = Open(tx)
      <2>1. Open(f) = [debt |-> 0, coll |-> 0, surplus |-> 0]
            BY <1>2 DEF Open, LoopNames
      <2>2. Open(idle) = [debt |-> 0, coll |-> 0, surplus |-> 0]
            BY DEF Open, idle, LoopNames
      <2> QED BY <1>1, <2>1, <2>2
<1>4. FrameBooks(f, simToken.totalSupply, L, totalSIMDeposits)
      BY <1>1, <1>2, CheckpointBooks DEF FrameBooks, LoopNames
<1> QED BY <1>1, <1>3, <1>4, GoOnBooks

-----------------------------------------------------------------------------
(* The invariant and the theorems.                                         *)

\* The amounts callers pass are not negative.
LEMMA AmountsNonNegative ==
    /\ \A c \in OpenColls : c >= 0
    /\ \A m \in OpenSIM : m >= 0
    /\ \A m \in AdjustSIM : m >= 0
    /\ \A m \in DepositAmounts : m >= 0
BY AmountsAssumption

\* The entry points that adjust a trove, on the borrower's own wstETH.
LEMMA AdjustingBooks ==
    ASSUME IInv, IInv', BInv, Adjusting
    PROVE  BInv'
<1>1. PICK b \in Accounts :
        \/ \E c \in AdjustColls : addColl(b, c)
        \/ \E c \in AdjustColls : withdrawColl(b, c)
        \/ \E m \in AdjustSIM, fee \in MaxFees : withdrawSIM(b, fee, m)
        \/ \E m \in AdjustSIM : repaySIM(b, m)
        \/ \E c \in AdjustColls, m \in AdjustSIM, fee \in MaxFees, up \in BOOLEAN :
              \/ adjustTrove(b, c, fee, 0, m, up)
              \/ adjustTrove(b, 0, fee, c, m, up)
      BY Zenon DEF Adjusting
<1>2. ASSUME NEW r \in Int, NEW w \in Int, NEW m \in Int, m >= 0, NEW up \in BOOLEAN, NEW fee,
             _adjustTrove(b, funds, b, r, w, m, up, fee), UNCHANGED totalSIMDeposits
      PROVE  BInv'
      <2>1. funds \in FundsT /\ FundsOff(funds, 0) /\ b # "stabilityPool"
            BY PoolsApart DEF IInv, Typed, PoolsTyped, BInv, Balanced, PoolNames
      <2>2. FundsOff(funds, IF b = "stabilityPool" THEN r ELSE 0)
            BY <2>1
      <2>3. b \in Accounts \cup {"stabilityPool"} /\ (b = "stabilityPool" => r # 0)
            BY <2>1
      <2> QED BY <1>2, <2>1, <2>2, <2>3, AdjustBooks, Zenon
<1>3. 0 \in Int /\ 0 >= 0 /\ FALSE \in BOOLEAN /\ TRUE \in BOOLEAN
      OBVIOUS
<1>4. \A c \in AdjustColls : c \in Int
      BY AmountsAreInt
<1>5. \A m \in AdjustSIM : m \in Int /\ m >= 0
      BY AmountsAreInt, AmountsNonNegative
<1>6. ASSUME NEW c \in AdjustColls, addColl(b, c) PROVE BInv'
      BY <1>2, <1>3, <1>4, <1>6, Zenon DEF addColl
<1>7. ASSUME NEW c \in AdjustColls, withdrawColl(b, c) PROVE BInv'
      BY <1>2, <1>3, <1>4, <1>7, Zenon DEF withdrawColl
<1>8. ASSUME NEW m \in AdjustSIM, NEW fee \in MaxFees, withdrawSIM(b, fee, m) PROVE BInv'
      BY <1>2, <1>3, <1>5, <1>8, Zenon DEF withdrawSIM
<1>9. ASSUME NEW m \in AdjustSIM, repaySIM(b, m) PROVE BInv'
      BY <1>2, <1>3, <1>5, <1>9, Zenon DEF repaySIM
<1>10. ASSUME NEW c \in AdjustColls, NEW m \in AdjustSIM, NEW fee \in MaxFees, NEW up \in BOOLEAN,
              adjustTrove(b, c, fee, 0, m, up)
      PROVE  BInv'
      BY <1>2, <1>3, <1>4, <1>5, <1>10, Zenon DEF adjustTrove
<1>11. ASSUME NEW c \in AdjustColls, NEW m \in AdjustSIM, NEW fee \in MaxFees, NEW up \in BOOLEAN,
              adjustTrove(b, 0, fee, c, m, up)
      PROVE  BInv'
      BY <1>2, <1>3, <1>4, <1>5, <1>11, Zenon DEF adjustTrove
<1> QED BY <1>1, <1>6, <1>7, <1>8, <1>9, <1>10, <1>11, Zenon

\* The entry points of the stability pool.
LEMMA DepositingBooks ==
    ASSUME IInv, IInv', BInv, Depositing
    PROVE  BInv'
<1>1. funds.counter["stabilityPool"] \in Int
      BY BooksTyped DEF PoolNames
<1>2. PICK a \in Accounts, gain \in 0..funds.counter["stabilityPool"] :
        \/ \E m \in DepositAmounts : provideToSP(a, m, gain)
        \/ \E m \in DepositAmounts : withdrawFromSP(a, m, gain)
        \/ withdrawWSTETHGainToTrove(a, gain)
      BY Zenon DEF Depositing
<1>3. gain \in Int
      BY <1>1
<1>4. \A m \in DepositAmounts : m \in Int /\ m >= 0
      BY AmountsAreInt, AmountsNonNegative
<1>5. ASSUME NEW m \in DepositAmounts, provideToSP(a, m, gain) \/ withdrawFromSP(a, m, gain)
      PROVE  BInv'
      BY <1>3, <1>4, <1>5, DepositBooks
<1>6. ASSUME withdrawWSTETHGainToTrove(a, gain) PROVE BInv'
      BY <1>3, <1>6, GainToTroveBooks
<1> QED BY <1>2, <1>5, <1>6

\* The entry points of liquidation.
LEMMA LiquidatingBooks ==
    ASSUME IInv, BInv, Liquidating
    PROVE  BInv'
<1>1. PICK caller \in Accounts :
        \/ \E n \in Counts : n > 0 /\ liquidateTroves(caller, n)
        \/ \E b \in Accounts : liquidate(caller, b)
        \/ \E n \in BatchLengths : \E array \in [1..n -> Accounts] :
              batchLiquidateTroves(caller, array)
      BY DEF Liquidating
<1>2. ASSUME NEW n, liquidateTroves(caller, n) PROVE BInv'
      <2> DEFINE loop == IF _checkRecoveryMode(price) THEN "sequenceRecovery" ELSE "sequenceNormal"
      <2>1. loop \in LoopNames /\ _startLiquidation(caller, loop, << >>, n)
            BY <1>2 DEF liquidateTroves, LoopNames
      <2> HIDE DEF loop
      <2> QED BY <2>1, StartLiquidationBooks
<1>3. ASSUME NEW array, batchLiquidateTroves(caller, array) PROVE BInv'
      <2> DEFINE loop == IF _checkRecoveryMode(price) THEN "batchRecovery" ELSE "batchNormal"
      <2>1. loop \in LoopNames /\ _startLiquidation(caller, loop, array, 0)
            BY <1>3 DEF batchLiquidateTroves, LoopNames
      <2> HIDE DEF loop
      <2> QED BY <2>1, StartLiquidationBooks
<1>4. ASSUME NEW b, liquidate(caller, b) PROVE BInv'
      BY <1>3, <1>4 DEF liquidate
<1> QED BY <1>1, <1>2, <1>3, <1>4

\* Every transaction.
LEMMA TransactionBooks ==
    ASSUME IInv, IInv', BInv, Transaction
    PROVE  BInv'
<1>1. CASE Opening
      <2>1. PICK b \in Accounts, c \in OpenColls, m \in OpenSIM, fee \in MaxFees :
               openTrove(b, c, fee, m)
            BY <1>1 DEF Opening
      <2>2. c \in Int /\ c >= 0 /\ m \in Int /\ m >= 0
            BY AmountsAreInt, AmountsNonNegative
      <2> QED BY <2>1, <2>2, OpenBooks
<1>2. CASE Adjusting
      BY <1>2, AdjustingBooks
<1>3. CASE Closing
      BY <1>3, CloseBooks, ClaimBooks DEF Closing
<1>4. CASE Depositing
      BY <1>4, DepositingBooks
<1>5. CASE Liquidating
      BY <1>5, LiquidatingBooks
<1>6. CASE Redeeming
      BY <1>6, RedeemCollateralBooks DEF Redeeming
<1>7. CASE TransferSIM
      BY <1>7, TransferBooks
<1> QED BY <1>1, <1>2, <1>3, <1>4, <1>5, <1>6, <1>7 DEF Transaction

\* Every step of a transaction under way.
LEMMA StepBooks ==
    ASSUME IInv, IInv', BInv, Step
    PROVE  BInv'
<1>1. tx = idle \/ tx \in LiquidationFrame \/ tx \in RedemptionFrame
      BY DEF IInv, FrameOK
<1>2. /\ idle.at \notin LoopNames /\ idle.at \notin {"redeem", "redeemed"}
      /\ tx \in LiquidationFrame => tx.at \in LoopNames /\ tx.at \notin {"redeem", "redeemed"}
      /\ tx \in RedemptionFrame => tx.at \in {"redeem", "redeemed"} /\ tx.at \notin LoopNames
      BY DEF idle, LiquidationFrame, RedemptionFrame, LoopNames
<1>3. ASSUME SequenceNormalMode \/ SequenceRecoveryMode \/ BatchNormalMode \/ BatchRecoveryMode
             \/ LiquidationSettles
      PROVE  BInv'
      <2>1. tx.at \in LoopNames
            BY <1>3 DEF SequenceNormalMode, SequenceRecoveryMode, BatchNormalMode,
                        BatchRecoveryMode, LiquidationSettles, LoopNames
      <2>2. tx \in LiquidationFrame
            BY <1>1, <1>2, <2>1
      <2> QED BY <1>3, <2>2, LoopBooks, LiquidationSettlesBooks
<1>4. ASSUME \/ RedeemWholeTrove \/ RedemptionLoopEnds \/ RedemptionSettles
             \/ \E h \in BOOLEAN : RedeemPartOfTrove(h)
      PROVE  BInv'
      <2>1. tx.at \in {"redeem", "redeemed"}
            BY <1>4 DEF RedeemWholeTrove, RedeemPartOfTrove, RedemptionLoopEnds,
                        RedemptionSettles, _redeems
      <2>2. tx \in RedemptionFrame
            BY <1>1, <1>2, <2>1
      <2> QED BY <1>4, <2>2, RedeemWholeBooks, RedeemPartBooks, RedemptionLoopEndsBooks,
                 RedemptionSettlesBooks
<1> QED BY <1>3, <1>4, Zenon DEF Step

\* The price and the clock move, or nothing does.
LEMMA EnvironmentBooks ==
    ASSUME BInv, PriceMoves \/ TimePasses \/ UNCHANGED vars
    PROVE  BInv'
<1>1. /\ tx' = tx
      /\ UNCHANGED <<funds, SIMDebt, surplus, totalSIMDeposits, simToken>>
      /\ UNCHANGED <<Troves, rewardSnapshots, totalStakes>>
      /\ UNCHANGED <<totalStakesSnapshot, L, lastError, baseRate>>
      BY DEF PriceMoves, TimePasses, vars, poolVars, troveVars, ledgerVars, rateVars
<1> QED BY <1>1 DEF BInv, RatesOK

\* The books balance at the start: nobody owes anything, and all wstETH is in the wallets.
LEMMA InitBooks ==
    ASSUME Init
    PROVE  BInv
<1>1. /\ funds = [counter |-> [p \in PoolNames |-> 0],
                  balance |-> [h \in Holders |-> IF h \in Accounts THEN Wallet ELSE 0]]
      /\ SIMDebt = [p \in {"activePool", "defaultPool"} |-> 0]
      /\ surplus = [a \in Accounts |-> 0]
      /\ totalSIMDeposits = 0
      /\ simToken = [totalSupply |-> 0, balances |-> [h \in SIMHolders |-> 0]]
      BY DEF Init, PoolsInit
<1>2. /\ \A b \in Accounts : /\ Troves[b].debt = 0 /\ Troves[b].coll = 0 /\ Troves[b].stake = 0
                             /\ Troves[b].status # "active"
      /\ totalStakes = 0 /\ totalStakesSnapshot = 0 /\ baseRate = 0 /\ tx = idle
      /\ lastError.WSTETH = 0 /\ lastError.SIMDebt = 0
      BY DEF Init, TroveManagerInit, zeroPair
<1>3. ASSUME NEW S, IsFiniteSet(S), NEW f, \A x \in S : f[x] = 0
      PROVE  SumFunctionOnSet(f, S) = 0
      BY <1>3, SumZero
<1>4. Debts(Troves) = 0 /\ Colls(Troves) = 0 /\ Stakes(Troves) = 0 /\ Total(surplus) = 0
      BY <1>1, <1>2, <1>3, FiniteAccountsAssumption DEF Debts, Colls, Stakes, Total
<1>5. SIMClosed(simToken) /\ simToken.balances["stabilityPool"] = 0
      BY <1>1, <1>3, HoldersFinite, PoolsApart DEF SIMClosed, SIMContracts
<1>6. FundsOff(funds, 0)
      <2> DEFINE w == [h \in Holders |-> IF h \in Accounts THEN Wallet ELSE 0]
      <2>1. \A h \in Holders : (h \in Accounts => w[h] = Wallet) /\ (h \notin Accounts => w[h] = 0)
            OBVIOUS
      <2>2. /\ funds.balance = w
            /\ \A p \in PoolNames : funds.counter[p] = 0 /\ w[p] = 0
            BY <1>1, PoolsApart
      <2> HIDE DEF w
      <2>3. Holders \cap Accounts = Accounts /\ Wallet \in Int
            BY AmountsAssumption DEF Holders
      <2>4. SumFunctionOnSet(w, Holders) = Cardinality(Accounts) * Wallet
            BY <2>1, <2>3, HoldersFinite, SumConstant
      <2> QED BY <2>2, <2>4 DEF FundsOff
<1>7. Balanced(Troves, totalStakes, funds, SIMDebt, surplus, simToken.totalSupply, Open(tx))
      BY <1>1, <1>2, <1>4, <1>6, OpenCases DEF Balanced, PoolNames
<1>8. TroveOK(Troves, rewardSnapshots, L) /\ RatesOK
      BY <1>2 DEF TroveOK, RatesOK
<1> QED BY <1>1, <1>2, <1>5, <1>7, <1>8 DEF BInv

\* Every step keeps the books.
LEMMA NextBooks ==
    ASSUME IInv, IInv', BInv, [Next]_vars
    PROVE  BInv'
BY TransactionBooks, StepBooks, EnvironmentBooks DEF Next, Continue

\* The inductive invariant of the books holds in every state.
THEOREM BooksInvariant == Spec => []BInv
<1>1. Init => BInv
      BY InitBooks
<1>2. IInv /\ IInv' /\ BInv /\ [Next]_vars => BInv'
      BY NextBooks
<1> QED BY <1>1, <1>2, ProtocolInvariant, PTL DEF Spec

\* In every state the supply of SIM is the debt of the two pools, counters are balances, the two
\* tokens add up over their holders, the active pool holds what troves and the running transaction
\* hold, stakes add up, and the surplus pool covers every claim: for any number of accounts, any
\* prices and amounts, and in the middle of liquidations and redemptions, reverting or not.
THEOREM BooksBalance == Spec => []Books
<1>1. IInv /\ BInv => Books
      <2> SUFFICES ASSUME IInv, BInv PROVE Books
          OBVIOUS
      <2>1. Balanced(Troves, totalStakes, funds, SIMDebt, surplus, simToken.totalSupply, Open(tx))
            BY DEF BInv
      <2>2. SupplyIsDebt
            BY <2>1 DEF Balanced, SupplyIsDebt, getEntireSystemDebt
      <2>3. CountersMatchBalances
            <3>1. \A p \in PoolNames : funds.balance[p] \in Int
                  BY PoolsApart DEF IInv, Typed, PoolsTyped, FundsT
            <3> QED BY <2>1, <3>1 DEF Balanced, FundsOff, CountersMatchBalances
      <2>4. LedgersClosed
            BY <2>1 DEF Balanced, FundsOff, BInv, SIMClosed, LedgersClosed
      <2>5. tx = idle \/ tx \in LiquidationFrame \/ tx \in RedemptionFrame
            BY DEF IInv, FrameOK
      <2>6. /\ Open(tx).debt = (IF Liquidates THEN tx.totals.debt ELSE 0)
                                  + (IF Redeems THEN tx.SIMToRedeem ELSE 0)
            /\ Open(tx).coll = (IF Liquidates THEN tx.totals.coll ELSE 0)
                                  + (IF Redeems THEN tx.WSTETHDrawn ELSE 0)
            /\ Open(tx).surplus = (IF Liquidates THEN tx.totals.collSurplus ELSE 0)
            /\ Liquidates => tx.totals.debt \in Int /\ tx.totals.coll \in Int /\ ~Redeems
            /\ Redeems => tx.SIMToRedeem \in Int /\ tx.WSTETHDrawn \in Int
            <3>1. CASE tx = idle
                  BY <3>1, OpenCases DEF Liquidates, Redeems, idle
            <3>2. CASE tx \in LiquidationFrame
                  <4>1. tx.at \in LoopNames /\ tx.totals \in ValsT
                        BY <3>2 DEF LiquidationFrame
                  <4>2. Liquidates /\ ~Redeems
                        BY <4>1 DEF LoopNames, Liquidates, Redeems
                  <4>3. tx.totals.debt \in Int /\ tx.totals.coll \in Int
                        BY <4>1 DEF ValsT
                  <4> QED BY <3>2, <4>2, <4>3, OpenCases
            <3>3. CASE tx \in RedemptionFrame
                  <4>1. tx.at \in {"redeem", "redeemed"} /\ tx.SIMToRedeem \in Int /\ tx.WSTETHDrawn \in Int
                        BY <3>3 DEF RedemptionFrame
                  <4>2. ~Liquidates /\ Redeems
                        BY <4>1 DEF Liquidates, Redeems
                  <4> QED BY <3>3, <4>1, <4>2, OpenCases
            <3> QED BY <2>5, <3>1, <3>2, <3>3
      <2>7. /\ SIMDebt["activePool"] = Debts(Troves) + Open(tx).debt
            /\ funds.counter["activePool"] = Colls(Troves) + Open(tx).coll
            /\ totalStakes = Stakes(Troves)
            /\ Total(surplus) = funds.counter["collSurplusPool"] + Open(tx).surplus
            BY <2>1 DEF Balanced
      <2>8. Debts(Troves) \in Int /\ Colls(Troves) \in Int
            BY BooksTyped
      <2>9. PoolsMatchTroves
            <3>1. /\ SIMDebt["activePool"] = Debts(Troves) + (IF Liquidates THEN tx.totals.debt ELSE 0)
                                               + (IF Redeems THEN tx.SIMToRedeem ELSE 0)
                  /\ funds.counter["activePool"] = Colls(Troves)
                        + (IF Liquidates THEN tx.totals.coll ELSE 0)
                        + (IF Redeems THEN tx.WSTETHDrawn ELSE 0)
                  BY <2>6, <2>7, <2>8
            <3> QED BY <2>7, <3>1 DEF PoolsMatchTroves, Debts, Colls, Stakes
      <2>10. SurplusCovered
            BY <2>6, <2>7 DEF SurplusCovered
      <2> QED BY <2>2, <2>3, <2>4, <2>9, <2>10 DEF Books
<1> QED BY <1>1, ProtocolInvariant, BooksInvariant, PTL

\* An active trove never owes less than MIN_NET_DEBT, whether it was opened, adjusted, redeemed
\* from in part or given redistributed debt, and in the state a revert would restore as well.
THEOREM NoDust == Spec => []NoDustTroves
<1>1. BInv => NoDustTroves
      BY DEF BInv, TroveOK, NoDustTroves, isActive
<1> QED BY <1>1, BooksInvariant, PTL

-----------------------------------------------------------------------------
(* Liquidations spare healthy troves.                                      *)

\* The collateral of the system that the totals t of a liquidation leave when it has settled.
CollLeft(t) == getEntireSystemColl - t.collToSendToSP - t.gas - t.collSurplus

\* While frame f takes the system to be in recovery mode, the debt and collateral it keeps for the
\* whole system are what its settlement will leave, and they say recovery mode.
ModeOK(f) ==
    Recovers(f) =>
        /\ f.entireSystemDebt = getEntireSystemDebt - f.totals.debtToOffset
        /\ f.entireSystemColl = CollLeft(f.totals)
        /\ _checkPotentialRecoveryMode(f.entireSystemColl, f.entireSystemDebt, price)

\* No transaction opens a trove on its way: one that is active was so before.
ActiveBefore == \A b \in Accounts : isActive(b) => tx.pre.Troves[b].status = "active"

MInv == tx # idle => ModeOK(tx) /\ ActiveBefore

\* What HealthyTrovesProtected says of a step.
Spared ==
    \A b \in Accounts :
        isActive(b) /\ Troves'[b].status = "closedByLiquidation" /\ getCurrentICR(b) >= MCR =>
            /\ _checkPotentialRecoveryMode(_collAfter, _debtAfter, price)
            /\ getCurrentICR(b) < _computeCR(_collAfter, _debtAfter, price)
            /\ tx.totals.debtToOffset + getEntireDebtAndColl(b).debt <= totalSIMDeposits
            /\ surplus'[b] - surplus[b] = getEntireDebtAndColl(b).coll
                   - (getEntireDebtAndColl(b).debt * MCR) \div price

NoneLiquidated == \A b \in Accounts : isActive(b) => Troves'[b].status # "closedByLiquidation"
NoneOpened == \A b \in Accounts : Troves'[b].status = "active" => isActive(b)

\* Closing a trove changes the status of no other.
LEMMA ClosedStatus ==
    ASSUME IInv, NEW b \in Accounts, NEW st, _closeTrove(b, st)
    PROVE  /\ Troves'[b].status = st
           /\ \A x \in Accounts : x # b => Troves'[x].status = Troves[x].status
<1> DEFINE moved == Last(TroveOwners)
           index == Troves[b].arrayIndex
           r == [debt |-> 0, coll |-> 0, stake |-> 0, status |-> st, arrayIndex |-> index]
           t == [Troves EXCEPT ![b] = r]
<1>1. Troves \in TrovesT
      BY DEF IInv, Typed, TrovesTyped
<1>2. Troves' = [t EXCEPT ![moved].arrayIndex = index]
      BY DEF _closeTrove, _closed
<1>3. \A x \in Accounts : t[x] = IF x = b THEN r ELSE Troves[x]
      BY <1>1 DEF TrovesT
<1>4. DOMAIN t = Accounts /\ r.status = st /\ "status" \in DOMAIN r
      BY <1>1 DEF TrovesT
<1>5. \A x \in Accounts : "status" \in DOMAIN Troves[x]
      BY <1>1 DEF TrovesT, TroveT
<1> HIDE DEF moved, index, r, t
<1>6. \A x \in Accounts : Troves'[x] = IF x = moved THEN [t[x] EXCEPT !.arrayIndex = index] ELSE t[x]
      BY <1>2, <1>4
<1>7. \A x \in Accounts : "status" \in DOMAIN t[x]
      BY <1>3, <1>4, <1>5
<1>8. \A x \in Accounts : Troves'[x].status = t[x].status
      BY <1>6, <1>7
<1> QED BY <1>3, <1>4, <1>8

\* A step that ends in no transaction and liquidates no trove.
LEMMA QuietMode ==
    ASSUME tx' = idle, NoneLiquidated
    PROVE  MInv' /\ Spared
BY DEF NoneLiquidated, MInv, Spared

\* A step that only moves the frame on.
LEMMA GoOnMode ==
    ASSUME NEW f, _goOn(f), ModeOK(f),
           \A b \in Accounts : isActive(b) => f.pre.Troves[b].status = "active"
    PROVE  MInv' /\ Spared
<1>1. tx' = f /\ Troves' = Troves /\ funds' = funds /\ SIMDebt' = SIMDebt /\ price' = price
      BY DEF _goOn, poolVars, troveVars
<1>2. getEntireSystemColl' = getEntireSystemColl /\ getEntireSystemDebt' = getEntireSystemDebt
      BY <1>1 DEF getEntireSystemColl, getEntireSystemDebt
<1>3. ModeOK(tx)'
      BY <1>1, <1>2 DEF ModeOK, CollLeft, Recovers, _checkPotentialRecoveryMode, _computeCR
<1>4. ActiveBefore'
      BY <1>1 DEF ActiveBefore, isActive
<1>5. Spared
      BY <1>1 DEF Spared, isActive
<1> QED BY <1>3, <1>4, <1>5 DEF MInv

\* A revert: what was active before is so again.
LEMMA RevertMode ==
    ASSUME MInv, tx # idle, Revert
    PROVE  MInv' /\ Spared
<1>1. tx' = idle /\ Troves' = tx.pre.Troves
      BY DEF Revert
<1>2. NoneLiquidated
      BY <1>1 DEF MInv, ActiveBefore, NoneLiquidated
<1> QED BY <1>1, <1>2, QuietMode

\* A trove is liquidated, and the frame a counts it in what the system is left with.
LEMMA LiquidateTroveMode ==
    ASSUME IInv, MInv, tx \in LiquidationFrame, NEW b \in Accounts, NEW v \in ValsT,
           NEW a \in LiquidationFrame, SameBooks(a), _liquidateTrove(b, v, a),
           Recovers(a) =>
              /\ a.entireSystemDebt = getEntireSystemDebt - tx.totals.debtToOffset - v.debtToOffset
              /\ a.entireSystemColl = CollLeft(tx.totals) - v.collToSendToSP - v.gas - v.collSurplus
              /\ _checkPotentialRecoveryMode(a.entireSystemColl, a.entireSystemDebt, price)
    PROVE  /\ MInv'
           /\ \A x \in Accounts : isActive(x) /\ Troves'[x].status = "closedByLiquidation" =>
                 x = b /\ surplus'[b] = surplus[b] + v.collSurplus
<1>0. tx # idle /\ Typed /\ ActiveBefore
      BY OpenCases DEF IInv, MInv
<1>1. CASE ~_moreThanOneTroveInSystem
      <2>1. Revert
            BY <1>1 DEF _liquidateTrove
      <2>2. tx' = idle /\ Troves' = tx.pre.Troves
            BY <2>1 DEF Revert
      <2> QED BY <1>0, <2>2 DEF MInv, ActiveBefore
<1>2. CASE _moreThanOneTroveInSystem
      <2> DEFINE W == _pendingReward(b, "WSTETH")
                 S == _pendingReward(b, "SIMDebt")
                 t == _addLiquidationValuesToTotals(a.totals, v)
                 d == a.remainingSIM - v.debtToOffset
      <2>1. /\ _closeTrove(b, "closedByLiquidation")
            /\ SIMDebt' = _debtAfterMove(S)
            /\ funds' = _fundsAfterMove(W)
            /\ surplus' = [surplus EXCEPT ![b] = @ + v.collSurplus]
            /\ tx' = [a EXCEPT !.remainingSIM = d, !.totals = t]
            /\ price' = price
            BY <1>2 DEF _liquidateTrove
      <2>2. W \in Int /\ S \in Int
            BY <1>0, RewardTyped
      <2> HIDE DEF W, S
      <2>3. getEntireSystemColl' = getEntireSystemColl /\ getEntireSystemDebt' = getEntireSystemDebt
            <3>1. funds \in FundsT /\ SIMDebt \in DebtT
                  BY <1>0 DEF Typed, PoolsTyped
            <3>2. /\ funds'.counter["activePool"] = funds.counter["activePool"] + W
                  /\ funds'.counter["defaultPool"] = funds.counter["defaultPool"] - W
                  BY <2>1, <2>2, <3>1
                  DEF _fundsAfterMove, sendWSTETHToActivePool, receiveWSTETH, FundsT, PoolNames
            <3>3. /\ SIMDebt'["activePool"] = SIMDebt["activePool"] + S
                  /\ SIMDebt'["defaultPool"] = SIMDebt["defaultPool"] - S
                  BY <2>1, <2>2, <3>1 DEF _debtAfterMove, changeSIMDebt, DebtT
            <3>4. /\ funds.counter["activePool"] \in Int /\ funds.counter["defaultPool"] \in Int
                  /\ SIMDebt["activePool"] \in Int /\ SIMDebt["defaultPool"] \in Int
                  BY <3>1 DEF FundsT, DebtT, PoolNames
            <3> QED BY <2>2, <3>2, <3>3, <3>4 DEF getEntireSystemColl, getEntireSystemDebt
      <2>4. t = _addLiquidationValuesToTotals(tx.totals, v)
            BY DEF SameBooks
      <2>5. /\ t.debtToOffset = tx.totals.debtToOffset + v.debtToOffset
            /\ t.collToSendToSP = tx.totals.collToSendToSP + v.collToSendToSP
            /\ t.gas = tx.totals.gas + v.gas
            /\ t.collSurplus = tx.totals.collSurplus + v.collSurplus
            BY <2>4 DEF _addLiquidationValuesToTotals
      <2> HIDE DEF t, d
      <2>6. /\ tx'.totals = t /\ tx'.pre = tx.pre /\ tx'.at = a.at
            /\ tx'.backToNormalMode = a.backToNormalMode
            /\ tx'.entireSystemDebt = a.entireSystemDebt /\ tx'.entireSystemColl = a.entireSystemColl
            BY <2>1 DEF LiquidationFrame, SameBooks
      <2>7. /\ tx.totals.debtToOffset \in Int /\ tx.totals.collToSendToSP \in Int
            /\ tx.totals.gas \in Int /\ tx.totals.collSurplus \in Int
            /\ v.debtToOffset \in Int /\ v.collToSendToSP \in Int
            /\ v.gas \in Int /\ v.collSurplus \in Int
            BY DEF LiquidationFrame, ValsT
      <2>8. getEntireSystemColl \in Int /\ getEntireSystemDebt \in Int
            BY <1>0, SystemTyped
      <2>9. ASSUME Recovers(a)
            PROVE  /\ a.entireSystemDebt = getEntireSystemDebt - t.debtToOffset
                   /\ a.entireSystemColl =
                         getEntireSystemColl - t.collToSendToSP - t.gas - t.collSurplus
                   /\ _checkPotentialRecoveryMode(a.entireSystemColl, a.entireSystemDebt, price)
            BY <2>5, <2>7, <2>8, <2>9 DEF CollLeft
      <2>10. ModeOK(tx)'
            BY <2>1, <2>3, <2>6, <2>9
            DEF ModeOK, CollLeft, Recovers, _checkPotentialRecoveryMode, _computeCR
      <2>11. /\ Troves'[b].status = "closedByLiquidation"
             /\ \A x \in Accounts : x # b => Troves'[x].status = Troves[x].status
            BY <2>1, ClosedStatus
      <2>12. ActiveBefore'
            BY <1>0, <2>6, <2>11 DEF ActiveBefore, isActive
      <2>13. surplus'[b] = surplus[b] + v.collSurplus
            BY <1>0, <2>1 DEF Typed, PoolsTyped, SurplusT
      <2> QED BY <2>10, <2>11, <2>12, <2>13 DEF MInv, isActive
<1> QED BY <1>1, <1>2

\* Above MCR only the capped offset liquidates, below the ratio of the system and in full.
LEMMA CappedAboveMCR ==
    ASSUME Typed, NEW b \in Accounts, NEW x \in Int, NEW TCR,
           NEW v, v = _recoveryModeVals(b, x, TCR), v # zeroVals, getCurrentICR(b) >= MCR
    PROVE  /\ getCurrentICR(b) < TCR
           /\ getEntireDebtAndColl(b).debt <= x
           /\ v.collSurplus = getEntireDebtAndColl(b).coll
                 - (getEntireDebtAndColl(b).debt * MCR) \div price
<1> DEFINE e == getEntireDebtAndColl(b)
           ICR == getCurrentICR(b)
<1>1. ICR \in Int /\ e \in EntireT
      BY ViewsTyped
<1>2. ICR < TCR /\ e.debt <= x /\ v = _cappedOffset(e)
      BY <1>1, PositiveConstants DEF _recoveryModeVals
<1>3. v.collSurplus = e.coll - (e.debt * MCR) \div price
      BY <1>2, Zenon DEF _cappedOffset, zeroVals
<1> QED BY <1>2, <1>3

\* An iteration in normal mode.
LEMMA NormalIterationMode ==
    ASSUME IInv, MInv, tx \in LiquidationFrame, NEW b \in Accounts, getCurrentICR(b) < MCR,
           NEW a \in LiquidationFrame, SameBooks(a), SameMode(a), ~Recovers(tx),
           _iterateNormal(b, a)
    PROVE  MInv' /\ Spared
<1> DEFINE v == _normalModeVals(b, tx.remainingSIM)
<1>1. Typed /\ tx.remainingSIM \in Int /\ getCurrentICR(b) \in Int /\ MCR \in Int
      BY ViewsTyped, PositiveConstants DEF IInv, LiquidationFrame
<1>2. v \in ValsT
      BY <1>1, NormalValsTyped
<1>3. _liquidateTrove(b, v, a) /\ ~Recovers(a)
      BY DEF _iterateNormal, Recovers, SameMode
<1> HIDE DEF v
<1>4. /\ MInv'
      /\ \A x \in Accounts : isActive(x) /\ Troves'[x].status = "closedByLiquidation" => x = b
      BY <1>2, <1>3, LiquidateTroveMode
<1>5. ~(getCurrentICR(b) >= MCR)
      BY <1>1
<1> QED BY <1>4, <1>5 DEF Spared

\* An iteration in recovery mode.
LEMMA RecoveryIterationMode ==
    ASSUME IInv, BInv, MInv, tx \in LiquidationFrame, NEW b \in Accounts,
           NEW a \in LiquidationFrame, SameBooks(a), SameMode(a), Recovers(tx),
           _iterateRecovery(b, a)
    PROVE  MInv' /\ Spared
<1> DEFINE TCR == _computeCR(tx.entireSystemColl, tx.entireSystemDebt, price)
           v == _recoveryModeVals(b, tx.remainingSIM, TCR)
           debt == tx.entireSystemDebt - v.debtToOffset
           coll == tx.entireSystemColl - v.collToSendToSP - v.gas - v.collSurplus
           back == ~_checkPotentialRecoveryMode(coll, debt, price)
           f == [a EXCEPT !.entireSystemDebt = debt, !.entireSystemColl = coll,
                          !.backToNormalMode = back]
<1>1. IF v = zeroVals THEN _goOn(f) ELSE _liquidateTrove(b, v, f)
      BY Zenon DEF _iterateRecovery
<1>2. /\ tx.remainingSIM \in Int /\ tx.entireSystemDebt \in Int /\ tx.entireSystemColl \in Int
      /\ tx.totals.debtToOffset \in Int /\ Typed /\ tx # idle /\ tx.at \in LoopNames
      BY OpenCases DEF LiquidationFrame, ValsT, IInv
<1>3. v \in ValsT
      BY <1>2, RecoveryValsTyped
<1>4. v # zeroVals /\ getCurrentICR(b) >= MCR =>
         /\ getCurrentICR(b) < TCR
         /\ getEntireDebtAndColl(b).debt <= tx.remainingSIM
         /\ v.collSurplus = getEntireDebtAndColl(b).coll
               - (getEntireDebtAndColl(b).debt * MCR) \div price
      BY <1>2, CappedAboveMCR
<1> HIDE DEF v
<1>5. debt \in Int /\ coll \in Int
      BY <1>2, <1>3 DEF ValsT
<1>6. back \in BOOLEAN /\ (~back => _checkPotentialRecoveryMode(coll, debt, price))
      BY DEF _checkPotentialRecoveryMode
<1>7. /\ tx.entireSystemDebt = getEntireSystemDebt - tx.totals.debtToOffset
      /\ tx.entireSystemColl = CollLeft(tx.totals)
      /\ _checkPotentialRecoveryMode(tx.entireSystemColl, tx.entireSystemDebt, price)
      /\ ActiveBefore
      BY <1>2 DEF MInv, ModeOK
<1>8. /\ debt = getEntireSystemDebt - tx.totals.debtToOffset - v.debtToOffset
      /\ coll = CollLeft(tx.totals) - v.collToSendToSP - v.gas - v.collSurplus
      BY <1>7
<1>9. v = zeroVals => debt = tx.entireSystemDebt /\ coll = tx.entireSystemColl
      BY <1>2 DEF zeroVals
<1> HIDE DEF debt, coll, back
<1>10. /\ f \in LiquidationFrame /\ SameBooks(f) /\ f.entireSystemDebt = debt
       /\ f.entireSystemColl = coll /\ f.backToNormalMode = back
      BY <1>5, <1>6 DEF LiquidationFrame, SameBooks
<1> HIDE DEF f
<1>11. CASE v = zeroVals
      <2>1. ModeOK(f)
            BY <1>7, <1>9, <1>10, <1>11 DEF ModeOK, SameBooks
      <2>2. \A x \in Accounts : isActive(x) => f.pre.Troves[x].status = "active"
            BY <1>7, <1>10 DEF ActiveBefore, SameBooks
      <2>3. _goOn(f)
            BY <1>1, <1>11
      <2> QED BY <2>1, <2>2, <2>3, GoOnMode
<1>12. CASE v # zeroVals
      <2>1. _liquidateTrove(b, v, f)
            BY <1>1, <1>12
      <2>2. Recovers(f) =>
              /\ f.entireSystemDebt = getEntireSystemDebt - tx.totals.debtToOffset - v.debtToOffset
              /\ f.entireSystemColl = CollLeft(tx.totals) - v.collToSendToSP - v.gas - v.collSurplus
              /\ _checkPotentialRecoveryMode(f.entireSystemColl, f.entireSystemDebt, price)
            BY <1>6, <1>8, <1>10 DEF Recovers
      <2>3. /\ MInv'
            /\ \A x \in Accounts : isActive(x) /\ Troves'[x].status = "closedByLiquidation" =>
                  x = b /\ surplus'[b] = surplus[b] + v.collSurplus
            BY <1>3, <1>10, <2>1, <2>2, LiquidateTroveMode
      <2>4. /\ _collAfter = tx.entireSystemColl /\ _debtAfter = tx.entireSystemDebt
            BY <1>7 DEF _collAfter, _debtAfter, CollLeft
      <2>5. /\ tx.remainingSIM = totalSIMDeposits - tx.totals.debtToOffset
            /\ totalSIMDeposits \in Int /\ surplus[b] \in Int
            /\ v.collSurplus \in Int /\ getEntireDebtAndColl(b).debt \in Int
            BY <1>2, <1>3, ViewsTyped
            DEF BInv, FrameBooks, Typed, PoolsTyped, SurplusT, ValsT, EntireT
      <2>6. getEntireDebtAndColl(b).debt <= tx.remainingSIM =>
               tx.totals.debtToOffset + getEntireDebtAndColl(b).debt <= totalSIMDeposits
            BY <1>2, <2>5
      <2>7. surplus'[b] = surplus[b] + v.collSurplus => surplus'[b] - surplus[b] = v.collSurplus
            BY <2>5
      <2>8. Spared
            <3> SUFFICES ASSUME NEW x \in Accounts, isActive(x),
                                Troves'[x].status = "closedByLiquidation", getCurrentICR(x) >= MCR
                         PROVE  /\ _checkPotentialRecoveryMode(_collAfter, _debtAfter, price)
                                /\ getCurrentICR(x) < _computeCR(_collAfter, _debtAfter, price)
                                /\ tx.totals.debtToOffset + getEntireDebtAndColl(x).debt
                                      <= totalSIMDeposits
                                /\ surplus'[x] - surplus[x] = getEntireDebtAndColl(x).coll
                                      - (getEntireDebtAndColl(x).debt * MCR) \div price
                BY DEF Spared
            <3>1. x = b
                  BY <2>3
            <3> QED BY <1>4, <1>7, <1>12, <2>3, <2>4, <2>6, <2>7, <3>1, Zenon
      <2> QED BY <2>3, <2>8
<1> QED BY <1>11, <1>12

\* The four loops.
LEMMA LoopMode ==
    ASSUME IInv, BInv, MInv, tx \in LiquidationFrame,
           SequenceNormalMode \/ SequenceRecoveryMode \/ BatchNormalMode \/ BatchRecoveryMode
    PROVE  MInv' /\ Spared
<1>1. ModeOK(tx) /\ ActiveBefore
      BY OpenCases DEF MInv
<1>2. CASE _break
      <2> DEFINE f == [tx EXCEPT !.at = "settle"]
      <2>1. f.at = "settle" /\ f.pre = tx.pre
            BY DEF LiquidationFrame
      <2>2. _goOn(f)
            BY <1>2 DEF _break
      <2> HIDE DEF f
      <2>3. ModeOK(f)
            BY <2>1 DEF ModeOK, Recovers
      <2> QED BY <1>1, <2>1, <2>2, <2>3, GoOnMode DEF ActiveBefore
<1>3. ASSUME NEW a \in LiquidationFrame, SameBooks(a), SameMode(a), _goOn(a)
      PROVE  MInv' /\ Spared
      <2>1. ModeOK(a)
            BY <1>1, <1>3 DEF ModeOK, Recovers, SameBooks, SameMode
      <2>2. \A x \in Accounts : isActive(x) => a.pre.Troves[x].status = "active"
            BY <1>1, <1>3 DEF ActiveBefore, SameBooks
      <2> QED BY <1>3, <2>1, <2>2, GoOnMode
<1> QED BY <1>2, <1>3, LoopCases, NormalIterationMode, RecoveryIterationMode

\* The settlement leaves the troves alone, or reverts.
LEMMA LiquidationSettlesMode ==
    ASSUME MInv, tx # idle, LiquidationSettles
    PROVE  MInv' /\ Spared
<1>1. Revert \/ (tx' = idle /\ Troves' = Troves)
      BY DEF LiquidationSettles, troveVars
<1>2. ASSUME tx' = idle, Troves' = Troves PROVE NoneLiquidated
      BY <1>2 DEF NoneLiquidated, isActive
<1> QED BY <1>1, <1>2, RevertMode, QuietMode

\* A step of a redemption.
LEMMA RedemptionStepMode ==
    ASSUME MInv, tx # idle, tx'.at \in {"redeem", "redeemed"}, tx'.pre = tx.pre,
           NoneLiquidated, NoneOpened
    PROVE  MInv' /\ Spared
<1>1. ModeOK(tx)'
      BY DEF ModeOK, Recovers
<1>2. ActiveBefore'
      BY DEF MInv, ActiveBefore, NoneOpened, isActive
<1> QED BY <1>1, <1>2 DEF MInv, Spared, NoneLiquidated

\* New amounts for a trove change no status.
LEMMA AmountsStatus ==
    ASSUME \A x \in Accounts : Troves'[x].status = Troves[x].status
    PROVE  NoneLiquidated /\ NoneOpened
BY DEF NoneLiquidated, NoneOpened, isActive

\* A redemption closes troves by redemption, changes their amounts, or reverts.
LEMMA RedemptionMode ==
    ASSUME IInv, MInv, tx \in RedemptionFrame,
           \/ RedeemWholeTrove \/ RedemptionLoopEnds \/ RedemptionSettles
           \/ \E h \in BOOLEAN : RedeemPartOfTrove(h)
    PROVE  MInv' /\ Spared
<1>0. tx # idle
      BY OpenCases
<1>1. CASE RedeemWholeTrove
      <2> DEFINE b == tx.user
                 q == _getPrev(b)
      <2>1. /\ _redeems
            /\ Revert \/ (_closeTrove(b, "closedByRedemption") /\ tx' = _drawn(q))
            BY <1>1 DEF RedeemWholeTrove
      <2>2. b \in Accounts /\ tx.at = "redeem"
            BY <2>1 DEF _redeems, RedemptionFrame
      <2> HIDE DEF b, q
      <2>3. ASSUME _closeTrove(b, "closedByRedemption"), tx' = _drawn(q)
            PROVE  MInv' /\ Spared
            <3>1. tx'.at = "redeem" /\ tx'.pre = tx.pre
                  BY <2>2, <2>3 DEF _drawn, RedemptionFrame
            <3>2. NoneLiquidated /\ NoneOpened
                  BY <2>2, <2>3, ClosedStatus DEF NoneLiquidated, NoneOpened, isActive
            <3> QED BY <1>0, <3>1, <3>2, RedemptionStepMode
      <2> QED BY <1>0, <2>1, <2>3, RevertMode
<1>2. ASSUME NEW h \in BOOLEAN, RedeemPartOfTrove(h) PROVE MInv' /\ Spared
      <2> DEFINE b == tx.user
                 q == _getPrev(b)
                 d == _debtNow(b)
                 c == _collNow(b)
                 dd == _debtNow(b) - _SIMLot
                 cc == _collNow(b) - _WSTETHLot
                 k == _computeNewStake(cc)
      <2>1. /\ _redeems
            /\ \/ Revert
               \/ /\ Troves' = [Troves EXCEPT ![b].debt = d, ![b].coll = c]
                  /\ tx' = [tx EXCEPT !.at = "redeemed"]
               \/ /\ Troves' = [Troves EXCEPT ![b].debt = dd, ![b].coll = cc, ![b].stake = k]
                  /\ tx' = _drawn(q)
            BY <1>2, Zenon DEF RedeemPartOfTrove
      <2>0. Troves \in TrovesT
            BY DEF IInv, Typed, TrovesTyped
      <2>2. b \in Accounts /\ tx.at = "redeem"
            BY <2>1 DEF _redeems, RedemptionFrame
      <2> HIDE DEF b, q, d, c, dd, cc, k
      <2>3. CASE Revert
            BY <1>0, <2>3, RevertMode
      <2>4. CASE /\ Troves' = [Troves EXCEPT ![b].debt = d, ![b].coll = c]
                 /\ tx' = [tx EXCEPT !.at = "redeemed"]
            <3>1. tx'.at = "redeemed" /\ tx'.pre = tx.pre
                  BY <2>4 DEF RedemptionFrame
            <3>2. NoneLiquidated /\ NoneOpened
                  <4>1. \A x \in Accounts : Troves'[x].status = Troves[x].status
                        BY <2>0, <2>2, <2>4 DEF TrovesT, TroveT
                  <4> QED BY <4>1, AmountsStatus
            <3> QED BY <1>0, <3>1, <3>2, RedemptionStepMode
      <2>5. CASE /\ Troves' = [Troves EXCEPT ![b].debt = dd, ![b].coll = cc, ![b].stake = k]
                 /\ tx' = _drawn(q)
            <3>1. tx'.at = "redeem" /\ tx'.pre = tx.pre
                  BY <2>2, <2>5 DEF _drawn, RedemptionFrame
            <3>2. NoneLiquidated /\ NoneOpened
                  <4>1. \A x \in Accounts : Troves'[x].status = Troves[x].status
                        BY <2>0, <2>2, <2>5 DEF TrovesT, TroveT
                  <4> QED BY <4>1, AmountsStatus
            <3> QED BY <1>0, <3>1, <3>2, RedemptionStepMode
      <2> QED BY <2>1, <2>3, <2>4, <2>5
<1>3. CASE RedemptionLoopEnds
      <2>1. tx' = [tx EXCEPT !.at = "redeemed"] /\ Troves' = Troves
            BY <1>3 DEF RedemptionLoopEnds, _goOn, troveVars
      <2>2. tx'.at = "redeemed" /\ tx'.pre = tx.pre
            BY <2>1 DEF RedemptionFrame
      <2>3. NoneLiquidated /\ NoneOpened
            BY <2>1 DEF NoneLiquidated, NoneOpened, isActive
      <2> QED BY <1>0, <2>2, <2>3, RedemptionStepMode
<1>4. CASE RedemptionSettles
      <2>1. Revert \/ (tx' = idle /\ Troves' = Troves)
            BY <1>4, Zenon DEF RedemptionSettles, troveVars
      <2>2. ASSUME tx' = idle, Troves' = Troves PROVE NoneLiquidated
            BY <2>2 DEF NoneLiquidated, isActive
      <2> QED BY <1>0, <2>1, <2>2, RevertMode, QuietMode
<1> QED BY <1>1, <1>2, <1>3, <1>4

\* Adjusting a trove, for a borrower or with a depositor's gain.
LEMMA AdjustMode ==
    ASSUME IInv, NEW b \in Accounts, NEW f, NEW source, NEW r, NEW w, NEW m, NEW up, NEW fee,
           _adjustTrove(b, f, source, r, w, m, up, fee)
    PROVE  MInv' /\ Spared
<1> DEFINE fee0 == IF up /\ ~_checkRecoveryMode(price) THEN _borrowingFee(m) ELSE 0
           d == _debtNow(b) + (IF up THEN m + fee0 ELSE -m)
           c == _collNow(b) + (IF r # 0 THEN r ELSE -w)
           k == _computeNewStake(c)
<1>1. /\ tx' = idle
      /\ Troves' = [Troves EXCEPT ![b].coll = c, ![b].debt = d, ![b].stake = k]
      BY Zenon DEF _adjustTrove
<1> HIDE DEF c, d, k
<1>2. Troves \in TrovesT
      BY DEF IInv, Typed, TrovesTyped
<1>3. \A x \in Accounts : Troves'[x].status = Troves[x].status
      BY <1>1, <1>2 DEF TrovesT, TroveT
<1> QED BY <1>1, <1>3, AmountsStatus, QuietMode

\* Opening and closing a trove.
LEMMA OpenMode ==
    ASSUME IInv, NEW b \in Accounts, NEW amount, NEW maxFee, NEW SIM,
           openTrove(b, amount, maxFee, SIM)
    PROVE  MInv' /\ Spared
<1>1. /\ tx' = idle
      /\ \E c, d, k, i : Troves' = [Troves EXCEPT ![b] =
            [debt |-> d, coll |-> c, stake |-> k, status |-> "active", arrayIndex |-> i]]
      BY Zenon DEF openTrove
<1>2. PICK c, d, k, i : Troves' = [Troves EXCEPT ![b] =
         [debt |-> d, coll |-> c, stake |-> k, status |-> "active", arrayIndex |-> i]]
      BY <1>1
<1>3. Troves \in TrovesT
      BY DEF IInv, Typed, TrovesTyped
<1>4. NoneLiquidated
      BY <1>2, <1>3 DEF NoneLiquidated, isActive, TrovesT
<1> QED BY <1>1, <1>4, QuietMode

LEMMA CloseMode ==
    ASSUME IInv, NEW b \in Accounts, closeTrove(b)
    PROVE  MInv' /\ Spared
<1>1. tx' = idle /\ _closeTrove(b, "closedByOwner")
      BY DEF closeTrove
<1>2. NoneLiquidated
      BY <1>1, ClosedStatus DEF NoneLiquidated, isActive
<1> QED BY <1>1, <1>2, QuietMode

\* A liquidation begins in the recovery loop only when the system is in recovery mode.
LEMMA StartLiquidationMode ==
    ASSUME IInv, NEW caller, NEW loop, NEW array, NEW n, _startLiquidation(caller, loop, array, n),
           loop \in {"sequenceRecovery", "batchRecovery"} => _checkRecoveryMode(price)
    PROVE  MInv' /\ Spared
<1> DEFINE f == [at |-> loop, caller |-> caller, troveArray |-> array, n |-> n,
                 user |-> getLast, firstUser |-> getFirst,
                 remainingSIM |-> totalSIMDeposits, entireSystemDebt |-> getEntireSystemDebt,
                 entireSystemColl |-> getEntireSystemColl, backToNormalMode |-> FALSE,
                 totals |-> zeroVals, pre |-> Checkpoint]
<1>1. _goOn(f)
      BY DEF _startLiquidation, _goOn
<1>2. /\ f.at = loop /\ f.totals = zeroVals /\ f.pre = Checkpoint
      /\ f.entireSystemDebt = getEntireSystemDebt /\ f.entireSystemColl = getEntireSystemColl
      OBVIOUS
<1> HIDE DEF f
<1>3. getEntireSystemColl \in Int /\ getEntireSystemDebt \in Int
      BY SystemTyped DEF IInv
<1>4. ModeOK(f)
      BY <1>2, <1>3
      DEF ModeOK, Recovers, CollLeft, zeroVals, _checkRecoveryMode, _getTCR, _checkPotentialRecoveryMode
<1>5. \A b \in Accounts : isActive(b) => f.pre.Troves[b].status = "active"
      BY <1>2 DEF Checkpoint, isActive
<1> QED BY <1>1, <1>4, <1>5, GoOnMode

\* The entry points of liquidation and redemption.
LEMMA BeginMode ==
    ASSUME IInv, Liquidating \/ Redeeming
    PROVE  MInv' /\ Spared
<1>1. ASSUME NEW caller, NEW n, liquidateTroves(caller, n) PROVE MInv' /\ Spared
      <2> DEFINE loop == IF _checkRecoveryMode(price) THEN "sequenceRecovery" ELSE "sequenceNormal"
      <2>1. /\ loop \in {"sequenceRecovery", "batchRecovery"} => _checkRecoveryMode(price)
            /\ _startLiquidation(caller, loop, << >>, n)
            BY <1>1 DEF liquidateTroves
      <2> HIDE DEF loop
      <2> QED BY <2>1, StartLiquidationMode
<1>2. ASSUME NEW caller, NEW array, batchLiquidateTroves(caller, array) PROVE MInv' /\ Spared
      <2> DEFINE loop == IF _checkRecoveryMode(price) THEN "batchRecovery" ELSE "batchNormal"
      <2>1. /\ loop \in {"sequenceRecovery", "batchRecovery"} => _checkRecoveryMode(price)
            /\ _startLiquidation(caller, loop, array, 0)
            BY <1>2 DEF batchLiquidateTroves
      <2> HIDE DEF loop
      <2> QED BY <2>1, StartLiquidationMode
<1>3. ASSUME NEW caller, NEW b, liquidate(caller, b) PROVE MInv' /\ Spared
      BY <1>2, <1>3 DEF liquidate
<1>4. ASSUME NEW caller, NEW m, NEW hint, NEW n, NEW fee, redeemCollateral(caller, m, hint, n, fee)
      PROVE  MInv' /\ Spared
      <2>1. /\ tx'.at = "redeem" /\ tx'.pre = Checkpoint /\ tx' # idle
            /\ Troves' = Troves
            BY <1>4 DEF redeemCollateral, troveVars, idle
      <2>2. ModeOK(tx)'
            BY <2>1 DEF ModeOK, Recovers
      <2>3. ActiveBefore'
            BY <2>1 DEF ActiveBefore, isActive, Checkpoint
      <2>4. Spared
            BY <2>1 DEF Spared, isActive
      <2> QED BY <2>2, <2>3, <2>4 DEF MInv
<1> QED BY <1>1, <1>2, <1>3, <1>4 DEF Liquidating, Redeeming

\* Everything that touches no trove and runs in no transaction.
LEMMA AsideMode ==
    ASSUME tx = idle, tx' = idle, Troves' = Troves
    PROVE  MInv' /\ Spared
BY QuietMode DEF NoneLiquidated, isActive

\* Every transaction.
LEMMA TransactionMode ==
    ASSUME IInv, Transaction
    PROVE  MInv' /\ Spared
<1>1. CASE Opening
      BY <1>1, OpenMode DEF Opening
<1>2. CASE Adjusting
      <2>1. PICK b \in Accounts : \E f, source, r, w, m, up, fee :
               _adjustTrove(b, f, source, r, w, m, up, fee)
            BY <1>2, Zenon DEF Adjusting, addColl, withdrawColl, withdrawSIM, repaySIM, adjustTrove
      <2> QED BY <2>1, AdjustMode
<1>3. CASE Closing
      <2>1. ASSUME NEW b \in Accounts, claimCollateral(b) PROVE tx = idle /\ tx' = idle /\ Troves' = Troves
            BY <2>1 DEF claimCollateral, troveVars
      <2> QED BY <1>3, <2>1, AsideMode, CloseMode DEF Closing
<1>4. CASE Depositing
      <2>1. ASSUME NEW a, NEW m, NEW gain, provideToSP(a, m, gain) \/ withdrawFromSP(a, m, gain)
            PROVE  tx = idle /\ tx' = idle /\ Troves' = Troves
            BY <2>1 DEF provideToSP, withdrawFromSP, _depositVars, troveVars
      <2>2. ASSUME NEW a \in Accounts, NEW gain, withdrawWSTETHGainToTrove(a, gain)
            PROVE  MInv' /\ Spared
            <3>1. \E f : _adjustTrove(a, f, "stabilityPool", gain, 0, 0, FALSE, 0)
                  BY <2>2, Zenon DEF withdrawWSTETHGainToTrove
            <3> QED BY <3>1, AdjustMode
      <2> QED BY <1>4, <2>1, <2>2, AsideMode DEF Depositing
<1>5. CASE Liquidating \/ Redeeming
      BY <1>5, BeginMode
<1>6. CASE TransferSIM
      <2>1. tx = idle /\ tx' = idle /\ Troves' = Troves
            BY <1>6 DEF TransferSIM, troveVars
      <2> QED BY <2>1, AsideMode
<1> QED BY <1>1, <1>2, <1>3, <1>4, <1>5, <1>6 DEF Transaction

\* Every step.
LEMMA NextMode ==
    ASSUME IInv, BInv, MInv, [Next]_vars
    PROVE  MInv' /\ [Spared]_vars
<1>1. CASE Transaction
      BY <1>1, TransactionMode
<1>2. CASE Step
      <2>1. tx = idle \/ tx \in LiquidationFrame \/ tx \in RedemptionFrame
            BY DEF IInv, FrameOK
      <2>2. /\ idle.at \notin LoopNames /\ idle.at \notin {"redeem", "redeemed"}
            /\ tx \in LiquidationFrame => /\ tx # idle /\ tx.at \notin {"redeem", "redeemed"}
            /\ tx \in RedemptionFrame => tx.at \notin LoopNames
            BY DEF idle, LiquidationFrame, RedemptionFrame, LoopNames
      <2>3. ASSUME \/ SequenceNormalMode \/ SequenceRecoveryMode \/ BatchNormalMode
                   \/ BatchRecoveryMode \/ LiquidationSettles
            PROVE  MInv' /\ Spared
            <3>1. tx.at \in LoopNames
                  BY <2>3 DEF SequenceNormalMode, SequenceRecoveryMode, BatchNormalMode,
                              BatchRecoveryMode, LiquidationSettles, LoopNames
            <3> QED BY <2>1, <2>2, <2>3, <3>1, LoopMode, LiquidationSettlesMode
      <2>4. ASSUME \/ RedeemWholeTrove \/ RedemptionLoopEnds \/ RedemptionSettles
                   \/ \E h \in BOOLEAN : RedeemPartOfTrove(h)
            PROVE  MInv' /\ Spared
            <3>1. tx.at \in {"redeem", "redeemed"}
                  BY <2>4 DEF RedeemWholeTrove, RedeemPartOfTrove, RedemptionLoopEnds,
                              RedemptionSettles, _redeems
            <3> QED BY <2>1, <2>2, <2>4, <3>1, RedemptionMode
      <2> QED BY <1>2, <2>3, <2>4, Zenon DEF Step
<1>3. CASE PriceMoves \/ TimePasses
      <2>1. tx = idle /\ tx' = idle /\ Troves' = Troves
            BY <1>3 DEF PriceMoves, TimePasses, troveVars
      <2> QED BY <2>1, AsideMode
<1>4. CASE UNCHANGED vars
      <2>1. tx' = tx /\ Troves' = Troves /\ funds' = funds /\ SIMDebt' = SIMDebt /\ price' = price
            BY <1>4 DEF vars, poolVars, troveVars
      <2>2. MInv'
            BY <2>1 DEF MInv, ModeOK, ActiveBefore, isActive, CollLeft, Recovers,
                        getEntireSystemColl, getEntireSystemDebt, _checkPotentialRecoveryMode,
                        _computeCR
      <2> QED BY <1>4, <2>2
<1> QED BY <1>1, <1>2, <1>3, <1>4 DEF Next, Continue

\* Whatever has been liquidated before in the same transaction, a trove at or above MCR is taken
\* only while what the settlement will leave is in recovery mode, only if its ratio is below the
\* ratio of that, only against deposits that cover its whole debt, and the owner can claim all but
\* 110% of the debt.  The loop's own running totals, which decide that, are proved to be the state
\* of the system after settlement.
THEOREM HealthyTrovesSpared == Spec => HealthyTrovesProtected
<1>1. Init => MInv
      BY DEF Init, TroveManagerInit, MInv
<1>2. IInv /\ BInv /\ MInv /\ [Next]_vars => MInv' /\ [Spared]_vars
      BY NextMode
<1> QED BY <1>1, <1>2, ProtocolInvariant, BooksInvariant, PTL
        DEF Spec, HealthyTrovesProtected, Spared
=============================================================================
