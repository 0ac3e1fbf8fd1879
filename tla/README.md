# Verification of the SIM contracts

SIM is a stablecoin borrowed against wstETH.  This directory holds TLA+ models of
the contracts under `src/contracts`, of the scripts that deploy them (`src/deploy`)
and of the task that has their sources verified (`src/scripts`), configurations that
check the models with TLC, and proofs checked by TLAPS.  `PROJECT.json` lists the components, the runs with their
properties, the source lines behind every definition, the hazards the properties
are for, and the theorems.

## The system and its parts

| Component | State it keeps | Operations | Talks to |
|---|---|---|---|
| TroveManager | troves (debt, collateral, stake, status, index), reward snapshots, owners array, stakes and their snapshots, reward sums `L`, rounding errors, base rate | liquidate, liquidateTroves, batchLiquidateTroves, redeemCollateral, and the setters BorrowerOperations calls | every pool, SortedTroves, SIMToken, PriceFeed, VeDistributor |
| BorrowerOperations | none of its own | openTrove, addColl, withdrawColl, withdrawSIM, repaySIM, adjustTrove, moveWSTETHGainToTrove, closeTrove, claimCollateral | TroveManager, ActivePool, CollSurplusPool, SIMToken, PriceFeed |
| SortedTroves | a doubly linked list of trove owners | insert, remove, reInsert | reads ratios from TroveManager |
| ActivePool, DefaultPool, CollSurplusPool | a counter of wstETH, a counter of SIM debt, claims | send, receive, increase/decrease debt, claim | each other and the wstETH token |
| StabilityPool | total deposits, deposits with snapshots, product `P` and sums `S`, `G` by epoch and scale | provideToSP, withdrawFromSP, withdrawWSTETHGainToTrove, offset | SIMToken, ActivePool, BorrowerOperations, Issuance |
| SIMToken | balances and supply | mint, burn, transfers | |
| PriceFeed | status, last good price | fetchPrice | API3, Pyth, wstETH rate receiver |
| Ve | locks (tokens, weighted amount, end), the history of points of every lock and of the total, scheduled slope changes, NFTs, time locks | create, increase, extend, merge, split, withdraw, checkpoint, transfer, approve, announce | the staking tokens |
| VeDistributor (for SIM and for wstETH) | tokens and total power per week, how far each NFT has claimed | init, checkpoint, checkpointTotalSupply, claim, claimMany | reads Ve; receives fees from BorrowerOperations and TroveManager |
| Issuance (two contracts) | SHADY issued so far | issue, send | StabilityPool |
| Controller, ControllableV3, proxies | governance, announced changes | announce, execute | everything upgradeable |
| HintHelpers, MultiTroveGetter | none | views | |
| SHADYToken, LockupContract, factory | token, unlock time | transfer, withdraw | |
| Deployment scripts, DeploymentHelper | the files of `deployments/<network>`, the chain | deploy, execute, the fixture of the tests | hardhat-deploy, every contract |
| Verification task, verify.ts | arguments, the artifact found, the submission polled | resolve arguments, look up, link, submit, poll | a block explorer, the chain, the compiler's artifacts |

Transactions are atomic: what is hard here is not two threads in one function but

* loops that change what they iterate over (liquidation and redemption walk a list
  while troves leave it and move in it) and carry cached totals along;
* facts kept in several places (counter and token balance, array index and array,
  trove status and list, stakes and their sum, pool debt and trove debt) that
  separate calls of one transaction must keep in step;
* integer rounding that accumulates over many transactions;
* hints computed before, and used after, other people's transactions;
* requires that fail late and undo a whole batch;
* two external oracles that break, freeze and recover in any order;
* sums over all locks that nobody recomputes: the total power is kept by corrections
  made at every change of any lock, and falls at times written down in advance;
* a claim that joins three records written at different times;
* a deployment of some sixty transactions, most of which can succeed once only, made by a
  process that may die after any of them;
* an explorer that queues what it is sent, answers late, and may lose an answer after it
  has acted on the request.

`PROJECT.json`, "hazards", gives each with its line.

## The modules

```
SortedList          what callers may assume of SortedTroves: a list of ids
  ^ implements
SortedTroves        SortedTroves.sol: pointers, hints, search loops
SortedTrovesProof   theorems about it

LiquityMath         LiquityMath.sol: decimals and powers
Base                Base.sol: constants, ratios, fees (extends LiquityMath)
  Pools             the pools, the stability pool's totals, SIM and wstETH
    TroveManager    troves, liquidation, redemption
      BorrowerOperations   borrowers' and depositors' operations
        Protocol    everything composed, with users, price and time
          ProtocolProof, BooksProof   theorems about it

Issuance            dependencies/Issuance.sol (extends LiquityMath)
  StabilityPool     single deposits, product and sums, SHADY
    PoolProof       theorems about its offsets

PriceFeed           PriceFeed.sol against two arbitrary oracles
PriceFeedProof      theorems about it

Ve                  Ve.sol: locks, points, NFTs
  VeDistributor     VeDistributor.sol on top of it
    VeProof         theorems about the locks, the points and the total, and the dust

DeployScripts       deploy/*.ts and the fixture, as sequences of steps
  Deployment        what running them does, with crashes and reruns

Bytecode            solc/bytecode.ts, solc/metadata.ts
  Artifacts         solc/artifacts.ts: lookup and libraries
    Verify          the task, scripts/verify.ts and the explorer
      VerifyProof   theorems about it

DataTheorems        sums over finite sets, lists and counting, for all the proofs
MC*                 instances for TLC
```

A definition marked *Variant* is a mistake the properties are tried against; no
specification uses it.

### SortedTroves

`head`, `tail`, `size`, `nodes` are `data`; `nicr` is what
`TroveManager.getNominalICR` answers.  `insert`, `remove` and `reInsert` begin an
operation; `call` is its frame, and `FindInsertPosition`, `DescendList`,
`AscendList` (one loop iteration each) and `Link` carry it to its end.  Hints are
any pair of addresses, the zero address included.  `Drift` lets the ratios of listed
troves change arbitrarily between operations; whether the list stays sorted is asked of
the operations, and of those changes that keep the order.  The ratio of an address without a trove is `NoNICR`
(`2**256 - 1` in the code).

`SortedList` is the abstract specification: an insertion lands anywhere its ratio
fits between two neighbours, a removal leaves the order of the others alone.
`TroveManager.tla` uses exactly this list instead of the pointers (`_inserted`).

### Pools, TroveManager, BorrowerOperations, Protocol

`funds.counter` are the pools' own counters, `funds.balance` the balances of the
wstETH token; `SIMDebt` holds the debt of the active and of the default pool;
`simToken` the supply and balances of SIM.  `Troves`, `rewardSnapshots`,
`TroveOwners`, `sortedTroves`, `L`, `lastError` and so on are the variables of
TroveManager.sol (`L` and `lastError` join the wstETH and SIM halves in a record).

Operations without a loop are one action each, with all the calls they make.
`liquidate*` and `redeemCollateral` begin a transaction whose local variables live in
`tx`; every iteration of their loops is a step, and `LiquidationSettles` and
`RedemptionSettles` do what the functions do after the loop.  While `tx` is not idle
nothing else can step.  A require or assert that fails before anything changed is a
guard; one that fails later takes the `Revert` branch, which restores what the
transaction had changed.  Arithmetic that the code leaves to an invariant is not
guarded: an underflow would be a negative number, and `TypeOK` excludes it.

Abstractions: here the power `_decPow` computes is the constant `DecayFactor`; time is in minutes; the price
is any of `Prices` and changes only between transactions (`fetchPrice` answers the
same within one block, `PriceFeed` is checked on its own); the hint of a partial
redemption is either the new ratio or not; a depositor's gain from the stability pool
is any amount the pool holds and a withdrawal is any part of the deposits, so the
models cover every way `StabilityPool` could split them.  SIM can be transferred
between accounts, and the receivers of fees pay out.  Nobody sends wstETH to a
contract outside its functions.

### StabilityPool, Issuance, LiquityMath

All state variables of the contract are variables of the module: the product `P` with
its scale and epoch, the two nested mappings of sums (functions on `Places`), the three
rounding errors, deposits with snapshots, and the totals.  The four operations are
actions; each issues SHADY first (`_triggerSHADYIssuance`, which calls
`Issuance!issueSHADY`), then pays out, then takes snapshots, as the code does.  A
checked subtraction or an assertion that would fail disables the action, and the
invariants show when none does.  The troves are outside: any debt up to the deposits
may be offset, and the two requirements about troves may hold at any time.  The
constant 1e9 of `_getCompoundedStakeFromSnapshots` is `SCALE_FACTOR`.
`LiquityMath!_decPow` is the loop of the contract as a recursive function.

### PriceFeed

`status` and `lastGoodPrice` are the contract's; `price` is what the last
`fetchPrice` returned; `api3`, `pyth`, `rate` and `now` are the outside world, which
changes arbitrarily.  A failed read answers zeros.  The five `When...` actions are
the five cases of `fetchPrice`.

### Ve, VeDistributor

The state of Ve.sol is gathered in records: `locked` (per NFT the amounts of each token,
the weighted amount and the end), `points` (both histories and `slopeChanges`), `nft`
(owners, approvals, operators, the dense list of every owner with its index), `gov` (time
locks and the whitelist), and `held`, the tokens the contract has.  A call is one action.
`merge`, `split` and `withdrawAll` call `_depositFor` or `withdraw` once per token, each
time with a checkpoint; they are folds over the list of tokens on a copy of the state
(`ve`, `becomes`), and a require that fails in any round disables the call.  One round of
each is an operator of its own (`_mergeToken`, `_splitToken`, `_withdrawToken`).
`createLockFor` stands for `createLock` too.  `tokens` begins with SHADY alone or with a
token that governance added before (`_addToken` refuses to add one twice, hence `IsInjective` in
`VeAssumption`).  Epoch 0 of the total is at index 1 of its history.  The loops over weeks of
`_checkpoint` (`_walk`) and `_supplyAt` are folds of one iteration (`_nextPoint`,
`_supplyPoint`) over the times at which they stop (`_stops`, at most `CHECKPOINT_WEEKS`).

VeDistributor adds `startTime` and the records per week.  `receive` is what
BorrowerOperations and TroveManager do with it: tokens arrive and `checkpoint` is called
in the same transaction; with an amount of zero it is a `checkpoint` made by anybody.  A
claim is folded over the iterations of `calculateToDistribute`; a division by a total of
zero, or a payment to a burnt NFT's owner, makes the claim revert.  The two binary
searches over histories are the last point not after a time (`_pointAt`), which is what
they find in a history ordered by time.

Left out: block numbers and the views that estimate times from them, `ownershipChange`,
the callback to receivers of NFTs, pictures, and the sizes of integers.

### DeployScripts, Deployment

`DeployScripts` gives the steps of every file of `deploy/` (and of the fixture in
DeploymentHelper.ts) in the order of their awaits, with the named accounts of each network:
an account that is the zero address there makes the scripts deploy a mock.  A command is
all files, the files of a tag with their dependencies, or the fixture.  `Deployment` runs a
command step by step: `Get` fails for a deployment that is not there, `Deploy` skips what
is already deployed, `Execute` reverts when a one-shot function was called before, when
the caller is not entitled, or, for the price feed, when API3 has no current price.
`Crash` ends the process between any two steps; on a live network the chain and the
files stay, on the hardhat network nothing does.  The operator may run up to `MaxRuns`
commands one after the other.  The files are run in the order of their names, which is
also the order hardhat-deploy derives from the dependencies.  A crash between a
transaction that is mined and the file written for it is not modelled.

### Bytecode, Artifacts, Verify

`Bytecode` compares code as sequences of bytes: metadata and its length field, the
compiler version in it, blanking of libraries, immutables and call protection, and the
OVM replacement.  `Artifacts` looks for the artifact the code belongs to and merges the
libraries a user names with those found in the code.  `Verify` is the task: an action is
what it does up to its next request (`IsVerified`, `GetDeployedContractBytecode`,
`GetContractInformation`, `GetLibraryInformation`, `PrepareAttempt`, `Submit`, `Poll`);
every error of errors.ts is an outcome.  Requests may fail before they arrive
(`RequestFails`, `SubmissionRefused`) or after (`SubmissionUnanswered`, `PollFails`).  The
explorer keeps a queue and decides when it likes (`ExplorerDecides`): it accepts only what
the code on chain was compiled from, and may refuse anything.  `StartScript` is
scripts/verify.ts, whose calls VerifyUtils wraps in a catch.

## What TLC checks

Ratios are in percent (`DECIMAL_PRECISION` is 100), amounts are small integers, so
that every division rounds visibly; fees, minimum debt and gas share are scaled so
that they do something to amounts of this size.  `MaxTx`, `MaxCalls`, `MaxRuns` and
`MaxTasks` bound the transactions, calls, commands and tasks, `MaxTime` the clock.

| Run | Instance | Shows |
|---|---|---|
| `sorted` | 4 addresses, list limit 3, 3 ratios moving at will, fair | `ListIntact`, `FoundPositionIsValid`: the list stays one chain, and the search never leaves it; `NodesRemainSorted`: the header's argument is right, given its premise; `ImplementsSortedList` (refinement), `OperationsEnd` |
| `liquidate` | 3 accounts, 4 prices, deposits, 6 transactions | `TypeOK`, `Books`, `HealthyTrovesProtected`, `LiquidationNotUndone`, `TransactionsEnd` |
| `borrow` | 3 accounts, 2 prices, adjustments, transfers and redistributions, 6 transactions | `RewardsAccounted`, `OwnersAgree`, `BorrowersKeepTCR`, `SystemNeverEmpties` |
| `redeem` | 3 accounts, 2 prices, stale and current hints, 5 transactions | `Books`, `NoDustTroves`, `RedemptionKeepsRatios`, `TransactionsEnd` |
| `sp_shares` | 2 depositors, 4 SIM, 3 offsets, 2 minutes, precision 64, scale factor 8 | `DepositsBacked`, `PayoutsBacked`, `OffsetNeverReverts`, `OffsetIsShared`: deposits bear and earn their part across scales and epochs, and while the product is not below the scale factor no offset is refused |
| `feed_trust` | 2 oracles, clock to 3, timeout 1, fair | `BrokenOracleRemembered`, `LiveOracleIsFollowed`, `PriceOnlyFromTrustedOracle`, `TrustReturns` |
| `feed_returned` | same, smaller | finds that `fetchPrice` returns another price than it stores |
| `deploy` | hardhat, test network and main network; 3 commands | `DeploymentSound`, `PartialWiringIsFinal`, `FailureExplained`, `FreshRunCompletes` |
| `verify` | 2 tasks, 8 artifacts, 15 codes, 17 sets of arguments, 4 networks, fair | `SuccessIsVerified`, `FailureIsFinal`, `NoUnrelatedSources`, `SentAsDeployed`, `GenuineIsFound`, `TaskEnds` |
| `ve_locks` | 2 accounts, 2 tokens of different weight and decimals, 2 NFTs, weeks of 2 seconds, 4 calls | `SupplyIsSum`, `LockedStaysLocked`, `LocksBacked` (`TokensHeld`, `OwnersListed`, `OnlyDustIsLost`) |
| `ve_claims` | 2 NFTs, 3 lock calls, 3 weeks, calls at any second, loops over weeks limited to 2, claims to 3 iterations | `ClaimsCovered`: totals and claims are right, but for the weeks in whose first second the distributor made a checkpoint |
| `ve_boundary` | as `ve_claims`, calls at any second | finds tokens distributed twice |

Several invariants are conjunctions of named parts, each with its comment in the module:

* `Books`: the supply of SIM is the debt (`SupplyIsDebt`), the ledgers are closed, the
  pools hold what the troves owe and own, claims on surplus are covered, counters match
  token balances.
* `RewardsAccounted`: pending rewards are covered by the default pool and not stranded
  there beyond rounding, and the stake formula can be computed.
* `PayoutsBacked`: the types, the collateral and SHADY promised to depositors are there,
  issuance never runs backwards.
* `DeploymentSound`: the types, no live contract refers to a replaced one, a complete
  deployment is wired, the mock is minted once, the first price is not zero.
* `SentAsDeployed`: the artifact sent is one the code on chain is an instance of, linked
  with the libraries in that code.

`TransactionsEnd` is a safety property: while a transaction runs it has a next step, and
every step makes `_leftToDo` smaller.  It holds with no fairness and under symmetry.

Why these bounds: three troves are the least number with a liquidated one, one that
closes in between and one that is left; the last-trove check, the swap in the owners
array (first, middle, last) and a list with an inner node all need no more.  The
prices put the same trove below 100%, between 100% and 110%, between 110% and the
total ratio, and above.  In the list four addresses give an inner node beside head,
tail and the one being inserted.  The feed needs a clock of three for an answer that
is fresh, one that grows old and one from the future.

In the stability pool the scale factor is the square root of the precision, as in the
contract.  Two offsets down to one unit, with a deposit between them, reach the
next scale, and the third offset ends the epoch or follows the change of scale.
`PayoutsBacked` and `OffsetIsShared` need a precision above the product of deposits,
gains and offsets: they show that the scheme is right, not how large the error of a
coarse precision is.  `OffsetNeverReverts` has a premise, that the product is not below the scale
factor.  With four units of SIM at most the product stays above it in this run; that the premise
suffices for any precision, and what keeps it true, is proved (`PoolProof`).  It is needed: with
precision 16, scale factor 4 and a pool of 15 that is filled up again each time, two offsets of 14
bring the product from 16 to 4 and to 1, and `assert(newP > 0)` fails in the third.

A deployment needs two commands for a rerun after a crash, and a third for a rerun of the
rerun; the three networks differ in which accounts are mocks.  Two verification tasks are a
task and one that finds what the first left in the explorer's queue; the artifacts and codes
hold one of each case the lookup tells apart.

In `ve_locks` two NFTs are made in one week and end in the same or in different ones, and
calls go on until after the ends; two tokens make merge, split and withdrawal take two
rounds, and the second token's weight and decimals make its part round twice.  In
`ve_claims` locks are made and changed in the last second of a week and in the first of
the next; tokens arrive, and are claimed, in three weeks.  The distributor is called at any
second, as in the code.  A checkpoint in the first second of a week is another matter: it counts
tokens twice (`ve_boundary`), and a lock made in that second after the total was written is
missing from it, so that the claims of that week can exceed its tokens.  `ClaimsCovered` says so:
the history variable `onTheDot`, which no action reads, collects the weeks in whose first second
a checkpoint was made; the total of every other week must be right, and the claims must be covered
as long as there is no such week.  Splitting is left to `ve_locks` (`Percents` is empty): for a
claim it is one more way to a second NFT, and it doubles the states.

Symmetry: accounts are interchangeable in the runs of Protocol and in `ve_locks`,
depositors in `sp_shares`; the runs with liveness use none.  Deadlock is checked but for
`deploy` and `verify`, which end when the bound on commands or tasks is reached; the
others go on because the price, the oracles or the clock do.

Fairness: `WF(Search)` says that an operation on the list that has begun goes on, which the
EVM guarantees (gas is not modelled).  `WF(fetchPrice)` says that the price is fetched now
and then: every borrowing, liquidation and redemption does, and anyone may call it.
`WF(ScriptStep)` says that a running command goes on by itself; a crash may end it at any
time.  In `Verify` the task takes its next step (weak fairness of `Proceeds`, with the
condition under which it is enabled written out, since TLC cannot evaluate ENABLED of it
cheaply), and the explorer works off its queue; no request has to fail or to succeed.

## What is proved

Everything below holds for every value of the constants that satisfies the named
assumptions of the modules.  TLC evaluates the assumptions in every run.  They say what
Solidity's types and the constants of the contracts guarantee (amounts are naturals,
addresses are finitely many, ratios are ordered as in `Base.sol`, prices are positive),
and, for the verification task, what a compiler does (below).  `PowersAssumption` of
PriceFeed, that powers of ten are positive, is a fact of arithmetic that the SMT backend
does not know.

`DataTheorems` has the lemmas about data that the other proofs use.  The library defines
a sum over a finite set by recursion over its subsets.  The library's own induction
theorems cannot be instantiated by the provers, so the induction is made by hand:
`MinimalSubset` (a family of subsets of a finite set that is not empty has a member with
no smaller one in the family) applied to the subsets on which a claim fails.  In this way
are proved what the recursion computes, that a sum changes by what one of its values
changes (`SumChange`), and that values that are not negative have a sum that
is not.  The other half is about sequences without repeats, out of which an element is taken
and into which one is put, and about counting: a set of numbers has a least member, what holds
of 0 and is handed on by every number up to a bound holds of the bound (`CountUp`).

`SortedTrovesProof` (assumes that addresses are finitely many and the zero address is
none of them, that real ratios lie between 0 and that of an address without a trove,
and that the list limit is positive):

* `TypeCorrect` and `ListStaysIntact`: `TypeOK` and `ListIntact` are invariants, for
  any addresses, any hints and any drift of the ratios.  `ListIntact` says that some
  ordering of the members is spelled by the pointers in both directions; unlinking and
  linking are lemmas that construct the new ordering from the old one.  To be inductive
  it needs to know, while an operation runs, that its node is out of the list and that
  there is room for it (`FrameFits`), and the invariants of the two loops
  (`DescentOnTrack`, `AscentOnTrack`): the current pair of ids is a pair of neighbours,
  and the ratio has been compared with the one the loop came from.
* `NodesStaySorted`: `NodesRemainSorted`, by cases of the actions: linking at a valid
  position and unlinking keep a sorted list sorted, and so does a drift that keeps the
  order.
* `SearchFindsAValidPosition`: whatever path the two loops take, the position `Link`
  is given passes `validInsertPosition`.  This proof does not assume that the list is
  sorted.
* `LinkedListImplementsList`: SortedTroves implements `SortedList`.  The mapping follows the
  pointers from the head (`Walk`); that it ends with the ordering of `ListIntact` is shown
  by looking at the first place where they would differ.  `TakesOut` and `PutsBetween` say
  what unlinking and linking do to that ordering; the first maps to a removal, the second to
  an insertion between neighbours whose ratios fit, by the validity of the position above;
  every other step leaves the abstract list as it is.

`PriceFeedProof`, for any answers of both oracles and any timeout: `FeedTypes` (the type
invariant), and from it, by cases of `fetchPrice`, `BrokenOracleIsRemembered`,
`LiveOracleAlwaysFollowed` and `DistrustedPriceIsNotStored` (`PriceOnlyFromTrustedOracle`).  The
last is where arithmetic matters: the code compares the two prices by a rounded percentage of the
smaller one, the property by a product.

`ProtocolProof`:

* `ProtocolInvariant`: `IInv` is inductive.  It says that the state is typed (amounts
  as integers), that `OwnersOK` relates Troves, TroveOwners and the list
  (`OwnersAgree`, and that the list has no repeats), and, while a liquidation or
  redemption runs, `FrameOK`: its local variables are typed, the state it would revert
  to satisfies `OwnersOK` too and has at least as many troves, and the trove its walk
  has come to is still in the list (`Walks`).  The last two are what makes it
  inductive: without the first a revert could lead anywhere, without the second a loop
  could close a trove that is gone.  There is one lemma per action, and the first part of the module has
  what opening, closing and re-inserting do to the three structures.
* `OwnersAlwaysAgree`: `OwnersAgree` is an invariant, for any number of accounts.  In
  particular the swap in `_removeTroveOwner` and an address that a batch names twice
  do no harm (`LowRatioIsActive`: only an active trove has a ratio below MCR).
* `SystemStaysNonEmpty`: `SystemNeverEmpties` follows from the same lemmas; the
  normal-mode loops, which do not look whether a trove is the last one, rely on the
  check in `_closeTrove` and on the revert.

`BooksProof`, on top of them:

* `BooksInvariant`: `BInv` is inductive.  Its first part, `Balanced`, is the sums of
  `Books`: supply and debt, pools and troves, stakes, surplus, counters and balances, where
  `Open` is what the running transaction has taken from troves and not yet settled.  The
  rest is what makes it inductive.  `TroveOK`: amounts are not negative, an active trove owes
  `MIN_NET_DEBT`, and its snapshots are not ahead of the reward sums, so that a pending
  reward is not negative.  `ValsOK`: the values of a liquidation add up, and nothing goes to
  the stability pool unless debt is offset, since the settlement skips the whole offset
  when there is none; the same for the redistribution.  `FrameBooks`: what a
  revert would restore balances as well, with the supply of now, because no burn or mint comes before
  the point of no return; and the loop's `remainingSIM` is what the totals leave of the
  deposits, so that the settlement can burn what it offsets.
* `BooksBalance`: `Books`, in every state and in the middle of every transaction.
* `NoDust`: `NoDustTroves`, from `TroveOK`.
* `HealthyTrovesSpared`: `HealthyTrovesProtected`.  It needs `MInv`: while a liquidation takes the
  system to be in recovery mode, the running totals `entireSystemDebt` and
  `entireSystemColl` in its frame are what the settlement will leave of the state
  (`ModeOK`); and a trove that is active now was so when the transaction began, so a
  revert opens none.

`VerifyProof` (for any networks, arguments, number of tasks and behaviour of the
explorer, and any artifacts and codes a compiler can have produced: `ArtifactsAssumption`
says that references and immutables lie within the executable section and that the deployed
code links libraries of the creation code only, `BuildAssumption` that artifacts were built by a
compiler of the configuration and that code is a sequence of bytes):

* `ReportsInvariant`: `IInv` is inductive: the three properties below with `Histories`
  (every submission belongs to a task that has begun), `Attempts` (before a minimal
  attempt is submitted the running task has sent nothing, before a full one only what was
  refused) and `Polled` (the submission that is polled is the task's last, and what it sent
  before was refused).  Without the last two an error could not be told to be final.
* `SuccessMeansVerified`, `FailureMeansDecided`, `FullInputIsTheLastResort`:
  `SuccessIsVerified`, `FailureIsFinal` and `NoUnrelatedSources`.
* `CompareIsCameFrom`: `Bytecode.compare`, which copies both codes, blanks one range after the
  other in a fold and compares the sections, decides exactly whether the code differs
  from the artifact only where addresses, immutables or call protection are
  (`CameFrom`).  Blanking is shown to be independent of order and overlap (`Blanked`), by
  the same induction over finite sets.
* `SendingInvariant`: `SInv` is inductive: code that was read stays on chain, after each step of
  the task the artifact (`Matched`) and the libraries (`Linked`) it has found are those of
  the code, and every submission was prepared in this way.  `NamedMatches`,
  `InferredMatches` and `LibrariesLinked` are about the lookup, the user's names for
  libraries and the merge with those in the code.
* `SentIsDeployed`: `SentAsDeployed`.
* `GenuineAlwaysFound`: `GenuineIsFound`; only the lookup says that nothing matches, and it
  does so only if nothing does.  Code of the OVM is left out of both: it is compared after a
  replacement.

`VeProof` (for any accounts, staking tokens, weights, decimals, percents, number of NFTs and
calls, with VeDistributor beside it):

* `VeInvariant`: `VInv` is inductive.  It says that locks and NFTs have their types, that the
  contract has what its NFTs have locked (`Held`), that lists, indices and owners of NFTs agree in
  both directions (`NFTListed`), and three things without which some call would break it.  An NFT
  that was not made yet has no lock and no owner (`Issued`), or a deposit into a new NFT would
  overwrite one.  A token that was not added is locked by nobody (`Added`): the loop of `merge` goes
  through the tokens that were, and what it left behind would lose its end.  An NFT nobody owns
  has no end, no power and no approval (`BurntIsEmpty`, `NFTApprovals`), or it could be deposited into
  or withdrawn from again.  The points are not needed: no call reads them to decide what is locked.
* The loops of `merge`, `split` and `withdrawAll` are folds.  `MergeTurns`, `SplitTurns` and
  `WithdrawTurns` show that each is a sequence of states in which one turn follows the other, from
  the library's definition and by counting.  `MergeOK`, `SplitOK` and `WithdrawOK` are the invariants of the
  loops: every token is still where it was, or it has moved and the end is that of the result.
* `LocksStayLocked`: `LockedStaysLocked`.  A change of one lock (`OneLock`) or a move between two
  (`TwoLocks`) that takes nothing from what is locked until any later time takes nothing from
  the sum; every call is one of the two.  A withdrawal is one as the lock is over.
* `TokensAreHeld`, `NFTsListed`: `TokensHeld` and `OwnersListed`, and that what nobody owns
  has no power and no end.
* `PointsInvariant`: `PInv` is inductive as long as checkpoints are made in time.  It adds to `VInv`
  that the last point of the total is the sum of the locks' slopes and biases at its time
  (`TotalsOK`), that the slope scheduled to end at any later week is the sum of the slopes of the locks that end
  then (`Scheduled`), and that the last point of every NFT is that of its lock (`UsersOK`);
  `_checkpoint` takes off the total what this last point says, not what the lock says, so
  without it nothing could be said of the total.  Cutting slope and bias off at zero then never
  takes effect, since a sum of locks is not negative.  A walk over weeks is a
  sequence of turns (`WalkTurns`); between two stops no lock ends, so that one turn moves the sum
  for one time to the sum for the next (`NextExact`).
  The hypothesis `[]CheckpointInTime` says that from the last point to now there are fewer weeks than the loop
  makes iterations.  It is the code's own assumption (`Ve.sol:660-661`, "Hopefully it won't happen
  that this won't get used in 5 years!").
* `SupplyIsExact`: with the same hypothesis, `totalSupplyAtT` is the sum of the NFTs' power for now
  and every later time its own loop reaches.
* `SupplyIsSumWithinLimit`: `SupplyIsSum`, without a hypothesis on the behaviour, for constants
  under which the whole life of the contract is shorter than the limit.  The runs' constants are such.
* `LocksAreBacked`: `LocksBacked`, with its third part `OnlyDustIsLost`.  The strengthening is `DInv`:
  what the tokens of a lock would count for is at most its weighted amount plus what its
  changes may have lost (`Covered`), one `_lossOf` for every point in the history of the NFT, and
  the list of tokens names none twice.  A burnt NFT has no weighted amount, so only the loss is left.
  The proof corrected the bound.  With two units per change, as it was stated before, it
  holds for the weights of the runs but is no invariant: `split` takes every token off
  the weighted amount but leaves one point, and a weight may exceed its denominator (the code
  only requires that it is not zero).

`PoolProof` (assumes of the two constants what holds of the contract's 1e18 and 1e9: the scale factor
is at most the precision, and its square at least):

* `PoolInvariant`: `PoolInv` is inductive.  The product is not zero, whoever has a deposit has a
  product in his snapshot to divide by, and the loss carried over from the last offset is at
  most the largest pool there was; it is the remainder of a division by the deposits
  (`LossBounds`).
* `OffsetsNeverRevert`: `OffsetNeverReverts`.  A trove's debt has a minimum, so that the loss carried over
  never exceeds debt times precision (`_sizeable`); the loss per unit is then at most 1, and from
  a product of at least the scale factor one change of scale keeps the new product above zero,
  whatever part of the pool is taken.
* `GentleOffsetsGoThrough`: in a behaviour in which no offset leaves less than about a
  `SCALE_FACTOR`-th part of the pool, except nothing at all (`DeepOffset`), the product never falls below
  the scale factor, so that every offset goes through without a premise on the product.

### What stays with TLC

* Liveness and ENABLED, which the provers do not treat: `OperationsEnd`, `TransactionsEnd`,
  `TrustReturns`, `FreshRunCompletes`, `TaskEnds`.
* `TypeOK` of Protocol (no subtraction underflows).  `BooksProof` has the troves' amounts, the
  stakes and what the pools owe in sum; what is missing is that the default pool covers every single
  pending reward.  That is `RewardsAccounted`: a bound by rounding slack over all stakes and a
  history of liquidations.  For the debt it has a further obstacle: `hasPendingRewards` looks at the
  collateral sum only.
* `LiquidationNotUndone` and the stake formula of `RewardsAccounted`: with arbitrary constants a
  stake can round to zero.  `RedemptionKeepsRatios` relies on the list being sorted by ratios that
  drift with every redistribution, by rounding even out of order.
* `BorrowersKeepTCR`: an inequality between three rounded quotients.
* `DepositsBacked`, `PayoutsBacked`, `OffsetIsShared`: sums of products of fractions with
  a bound on the accumulated rounding.
* `ClaimsCovered`: what VeDistributor owes is a sum, over NFTs and weeks not claimed yet, of quotients of
  powers read from the histories.  `PInv` speaks of the last points only; this needs every past
  point of the total and of the NFTs, and that both histories agree at the beginning of each week.
* `DeploymentSound`, `PartialWiringIsFinal`, `FailureExplained`: statements about concrete
  programs of about a hundred steps, which TLC executes completely.

## Findings

* `feed_returned`: `_storeAPI3Price` and `_storePythPrice` return the ETH price, while
  `lastGoodPrice` keeps the wstETH price (times the rate).  The protocol therefore
  computes with one when an oracle is live and with the other when it falls back.  The
  tests read `lastGoodPrice` where they mean the price returned.
* `ve_boundary`: a checkpoint of VeDistributor in the first second of a week gives the
  whole amount to the weeks before, as it should, and once more to the week that begins:
  `adjustToDistribute` answers the whole amount for an empty interval, which is meant for
  a checkpoint with no time since the last one.  `tokensPerWeek` then promises twice what
  arrived.

Disagreements with comments and assertions that are not runs:

* `StabilityPool.sol:535-536` says that the error of a compounded deposit favours the pool.
  The error fed back into the next loss is given back in full, although the surplus it had
  left in the pool shrinks with that loss; a sole depositor's compounded deposit can then
  exceed the pool.  The excess is dust: after a deposit of 10^27 and offsets of
  992085859597329921017219950 and 7736629058908850933657877 the deposit is worth 950877827
  more than the pool's 177511343761228049122173.  `DepositsBacked` allows one unit of SIM
  per `DECIMAL_PRECISION` units the pool ever held.
* `StabilityPool.sol:593` asserts that the new product is positive.  It can be zero after offsets that
  each leave less than about a billionth of the pool: with 1e18 and 1e9, offsets that
  leave between one and two parts in 1e18 (`newProductFactor` is 1) take the product from
  1e18 to 1e9, then to 1, and the third such offset fails.  `OffsetNeverReverts` states the
  premise under which it does not, `GentleOffsetsGoThrough` what keeps the premise.
* `PriceFeed.sol:284` limits the change of the price to 50% when Pyth is untrusted; the
  code does not.  The comment at `PriceFeed.sol:332` says 3% where the constant is 5%.

Observed while modelling, by design or without a statement to hold against it:

* LiquidityRewardsIssuance is never given its addresses, by the scripts or by the fixture.
* On zkevm the multisig is the third signer of a network with one, so that the deployment
  of SHADYToken cannot complete (`FailureExplained` names it).
* scripts/verify.ts exits with 0 although every verification failed; a contract that
  somebody else verified in between is reported as an error.
* VeDistributor: a lock made in the first second of a week, after the total of that week was
  written in the same second, is not in `veSupply` but has power at that moment by its own
  history; together the owners can then claim more than the tokens of the week
  (`ClaimsCovered` excludes these weeks).
* Ve: the rewards of an NFT that is merged or withdrawn before it has claimed stay in the
  distributor; a claim for a week without any power divides by zero and reverts; an
  approved address that is no operator cannot make the withdrawal that burns the NFT; with
  two tokens, rounding can burn an NFT with a few units of the second one inside; tokens
  for weeks beyond the twentieth since the last checkpoint are never distributed.
* Hazards no property covers: an exponent of Pyth outside -18..0 makes `fetchPrice` revert
  (`PriceFeed.sol:343`); collateral received is read off a balance anybody can raise
  (`BorrowerOperations.sol:255`); seconds beyond a whole minute are dropped when the fee time
  is updated (`TroveManager.sol:1405`); the base rate is asserted to be positive after a
  redemption that may round to nothing (`TroveManager.sol:1315`); `hasPendingRewards` looks at
  the collateral sum only, also when only `L_SIMDebt` has moved.

## What is not modelled, and the plan

1. That the pool of `Protocol` (any split of deposits and gains) is implemented by
   `StabilityPool`, and that the fees `Protocol` sends are what `VeDistributor` receives.
2. Controller: announced and time-locked changes of addresses and proxies.
3. `PriceFeed` composed with `Protocol`, so that a changed price is one `fetchPrice`
   produced.
4. Proofs: coverage of pending collateral by the default pool, and with it `TypeOK` of
   Protocol; the mode a borrower's operation leaves the system in (`BorrowersKeepTCR`, outside
   recovery mode); that the histories of Ve agree in the past too, and with it `ClaimsCovered`.

Not planned: HintHelpers and MultiTroveGetter (views; the models offer every hint),
SHADYToken and the lockups (one deadline, no interplay), encoding and storage
libraries; of the scripts, `--list-networks`, `verifyProxy` and `getNetworkScanUrl` (no
caller), the merging of configurations and the HTTP layer (a request is answered, failed
or unanswered); TestHelper but for `mintWSTETH`, and PermitHelper, which serve the
expectations of the tests.
