----------------------------- MODULE Deployment -----------------------------
(* Running the deployment scripts: `hardhat deploy`, whole or by tag, and  *)
(* the fixture the tests deploy with.  A program is a sequence of steps;   *)
(* this module is what hardhat-deploy and the contracts make of each step. *)
(* The process may die between two steps.  On a live network the chain and *)
(* the deployments/ files survive it; on the hardhat network nothing does. *)
EXTENDS DeployScripts

CONSTANT MaxRuns  \* bound on the number of commands the operator starts

VARIABLES
    network,     \* where the operator deploys to
    command,     \* the command that runs, or ran last
    pc,          \* its next step; 0 when nothing runs
    outcome,     \* how the last command ended
    deployments, \* name -> address: deployments/<network>/*.json, or the fixture's objects
    done,        \* <<address, function>>: calls that succeeded on the chain
    refs,        \* <<holder, name, address>>: addresses a contract has stored
    api3,        \* the real API3 proxy answers with a current price
    firstPrice,  \* lastGoodPrice as PriceFeed.setAddresses left it
    minted,      \* wstETH minted to the deployer, in units of one script run
    resumed,     \* the running command found calls of Wiring already made
    runs         \* commands started

chainVars == <<deployments, done, refs, firstPrice, minted>>
runVars == <<command, pc, outcome, resumed>>
vars == <<network, chainVars, runVars, api3, runs>>

Steps == Program[network][command]
step == Steps[pc]
running == pc > 0
persistent == network # "hardhat"

\* Variant: the proxies may be initialised again.
OneShot_proxyAgain == {"setParams", "setAddresses", "setSHADYTokenAddress", "init"}

\* Functions that can succeed only once on an address: those that end with
\* renounceOwnership, those marked initializer, and the proxy's initProxy.
OneShot == {"setParams", "setAddresses", "setSHADYTokenAddress", "init", "initProxy"}

Proxies == {"Ve", "SIMVeDistributor", "WSTETHVeDistributor", "Controller"}

\* Every contract that waits for its addresses, with the function that sets them.
\* LiquidityRewardsIssuance is left to its owner: neither the scripts nor the fixture set it.
Wiring ==
    {<<n, "setAddresses">> : n \in {"PriceFeed", "TroveManager", "BorrowerOperations", "StabilityPool",
                                    "ActivePool", "DefaultPool", "CollSurplusPool", "HintHelpers",
                                    "Ve", "CommunityIssuance"}}
    \cup {<<n, "initProxy">> : n \in Proxies}
    \cup {<<n, "init">> : n \in {"Controller", "SIMVeDistributor", "WSTETHVeDistributor"}}
    \cup {<<"SortedTroves", "setParams">>, <<"LockupContractFactory", "setSHADYTokenAddress">>}

\* The fixture's price feed is a mock that needs no addresses.
Needed == IF command = "fixture" THEN Wiring \ {<<"PriceFeed", "setAddresses">>} ELSE Wiring
WiringMade == {w \in Needed : w[1] \in DOMAIN deployments /\ <<deployments[w[1]], w[2]>> \in done}
Wired == WiringMade = Needed

-----------------------------------------------------------------------------
Init ==
    /\ network \in Networks
    /\ command = "all"
    /\ pc = 0
    /\ outcome = "none"
    /\ deployments = [n \in Accounts[network] |-> n]
    /\ done = {}
    /\ refs = {}
    /\ api3 = TRUE
    /\ firstPrice = "none"
    /\ minted = 0
    /\ resumed = FALSE
    /\ runs = 0

\* The operator starts a command.  The hardhat network begins empty every time.
Start(c) ==
    /\ ~running
    /\ runs < MaxRuns
    /\ runs' = runs + 1
    /\ c = "fixture" => network = "hardhat"
    /\ command' = c
    /\ pc' = 1
    /\ outcome' = "none"
    /\ IF persistent
       THEN /\ resumed' = (WiringMade # {})
            /\ UNCHANGED chainVars
       ELSE /\ resumed' = FALSE
            /\ deployments' = [n \in Accounts[network] |-> n]
            /\ done' = {}
            /\ refs' = {}
            /\ firstPrice' = "none"
            /\ minted' = 0
    /\ UNCHANGED <<network, api3>>

at(op) == running /\ pc <= Len(Steps) /\ step.op = op
advance == pc' = pc + 1 /\ UNCHANGED <<network, command, outcome, resumed, api3, runs>>

\* The command ends with an exception; what it did before stays.
throw(error) ==
    /\ pc' = 0
    /\ outcome' = error
    /\ UNCHANGED <<network, command, resumed, chainVars, api3, runs>>

known(names) == names \subseteq DOMAIN deployments
stored(holder, names) == {<<holder, n, deployments[n]>> : n \in names}
made(name, fn) == name \in DOMAIN deployments /\ <<deployments[name], fn>> \in done

\* deployments.get(name) for each name.
Get ==
    /\ at("get")
    /\ IF known(step.args) THEN advance /\ UNCHANGED chainVars ELSE throw("missing")

\* deploy(name, ...): a name already in deployments/ is left alone (skipIfAlreadyDeployed),
\* otherwise the constructor runs.  The fixture always makes a new contract.
Deploy ==
    /\ at("deploy")
    /\ IF step.skip /\ step.on \in DOMAIN deployments
       THEN advance /\ UNCHANGED chainVars
       ELSE IF known(step.args)
       THEN /\ deployments' = [n \in DOMAIN deployments \cup {step.on} |->
                                IF n = step.on THEN step.at ELSE deployments[n]]
            /\ refs' = refs \cup stored(step.at, step.args)
            /\ advance
            /\ UNCHANGED <<done, firstPrice, minted>>
       ELSE throw("undefined")

\* API3 answers PriceFeed.setAddresses with a price that is neither broken nor frozen.
api3Working ==
    IF "Api3ProxyMock" \in step.args
    THEN made("Api3ProxyMock", "setPrice") /\ made("Api3ProxyMock", "setUpdateTime")
    ELSE api3

rateKnown == "CrossChainRateReceiverMock" \in step.args => made("CrossChainRateReceiverMock", "setRate")

\* SHADYToken's constructor has minted to the issuance contract.
entitled(issuance) ==
    "SHADYToken" \in DOMAIN deployments /\ <<deployments["SHADYToken"], issuance, deployments[issuance]>> \in refs

\* What the contracts themselves require of a call.
accepts ==
    /\ step.fn \in OneShot => ~made(step.on, step.fn)
    /\ step.on \in Proxies /\ step.fn # "initProxy" => made(step.on, "initProxy")
    /\ step.on = "PriceFeed" => api3Working
    /\ step.on = "CommunityIssuance" => entitled("CommunityIssuance")
    /\ "Controller" \in step.args => made("Controller", "init")
    /\ "Ve" \in step.args => made("Ve", "initProxy")

\* execute(name, ...), or a call through getContractAt, and waiting for it to be mined.
Execute ==
    /\ at("execute")
    /\ IF known(step.args \cup {step.on}) /\ accepts
       THEN /\ done' = done \cup {<<deployments[step.on], step.fn>>}
            /\ refs' = refs \cup stored(deployments[step.on], step.args)
            /\ minted' = IF step.fn = "mint" THEN minted + 1 ELSE minted
            /\ firstPrice' = IF step.on # "PriceFeed" THEN firstPrice
                             ELSE IF rateKnown THEN "positive" ELSE "zero"
            /\ advance
            /\ UNCHANGED deployments
       ELSE throw(IF known(step.args \cup {step.on}) THEN "reverted" ELSE "undefined")

\* The smoke test on the hardhat network locks SHADY, opens a trove and claims.
Test ==
    /\ at("test")
    /\ IF Wired /\ minted > 0 THEN advance /\ UNCHANGED chainVars ELSE throw("reverted")

Finish ==
    /\ running
    /\ pc > Len(Steps)
    /\ throw("complete")

\* The process dies: at any point, transactions already mined stay mined.
Crash ==
    /\ running
    /\ pc' = 0
    /\ outcome' = "crashed"
    /\ UNCHANGED <<network, command, resumed, chainVars, api3, runs>>

\* The real API3 proxy stops being updated, or is updated again.
Api3Changes ==
    /\ persistent
    /\ api3' = ~api3
    /\ UNCHANGED <<network, chainVars, runVars, runs>>

ScriptStep == Get \/ Deploy \/ Execute \/ Test \/ Finish

Next ==
    \/ \E c \in Commands : Start(c)
    \/ ScriptStep
    \/ Crash
    \/ Api3Changes

Spec == Init /\ [][Next]_vars

\* A running command goes on by itself; nobody has to start or rerun one.
FairSpec == Spec /\ WF_vars(ScriptStep)

-----------------------------------------------------------------------------
TypeOK ==
    /\ network \in Networks
    /\ command \in Commands
    /\ pc \in 0..Len(Steps) + 1
    /\ outcome \in {"none", "complete", "missing", "undefined", "reverted", "crashed"}
    /\ Accounts[network] \subseteq DOMAIN deployments
    /\ \A r \in refs : r[2] \in DOMAIN deployments
    /\ firstPrice \in {"none", "zero", "positive"}

\* Once a command is through, no live contract holds the address of a contract that was
\* replaced: the fixture's testers come after the core contracts, and SIMToken stores
\* three of them.
NoStaleReference ==
    outcome = "complete" =>
        \A r \in refs : (\E n \in DOMAIN deployments : deployments[n] = r[1]) => deployments[r[2]] = r[3]

\* A command that deploys the whole system and reports no error leaves every setter called.
CompleteMeansWired ==
    outcome = "complete" /\ command \in {"all", "SHADYToken", "fixture"} => Wired

\* However often the scripts are rerun, the mock wstETH is minted once: a rerun is
\* stopped by an earlier one-shot call before it comes to mint again.
MintedOnce == minted <= 1

\* The price that PriceFeed keeps from its initialisation is never zero.
FirstPriceIsReal == firstPrice # "zero"

\* What holds of a deployment whatever was run and however often.
DeploymentSound == TypeOK /\ NoStaleReference /\ CompleteMeansWired /\ MintedOnce /\ FirstPriceIsReal

\* Wiring that was begun by an earlier command is never completed by a later one: each
\* file repeats its one-shot calls, so the rerun reverts before the last of them.
PartialWiringIsFinal == [][resumed /\ ~Wired => ~Wired']_vars

\* Accounts that resolve: the scripts' spender and multisig.
accountsKnown == {"spender", "multisig"} \subseteq Accounts[network]

\* A command is stopped by the chain only if part of the wiring was there before it, or
\* API3 had no current price, or an account of hardhat.config.ts names nobody.  It never
\* stops at a deployments.get that finds nothing: the files' dependencies and their order
\* are enough, whichever tag is deployed.
FailureExplained ==
    [][running /\ outcome' \in {"missing", "reverted", "undefined"} =>
        outcome' # "missing" /\ (resumed \/ ~api3 \/ ~accountsKnown)]_vars

\* A first run of all the scripts, or of the fixture, gets through unless the process
\* dies or the real API3 proxy is not up to date.
FreshRunCompletes ==
    (running /\ command \in {"all", "fixture"} /\ ~resumed /\ accountsKnown)
        ~> (outcome \in {"complete", "crashed"} \/ ~api3)

=============================================================================
