--------------------------- MODULE DeployScripts ---------------------------
(* What the files of deploy/ and the fixture of DeploymentHelper.ts do, as *)
(* data: one definition per file, its steps in the order of its awaits.    *)
(* Module Deployment gives the steps their meaning.                        *)
EXTENDS Naturals, Sequences, SequencesExt

CONSTANT Networks  \* the networks of hardhat.config.ts that are looked at

\* A step touches the deployment `on`; the contract a deployment makes lies at `at`.
get(names) == [op |-> "get", on |-> "", fn |-> "", args |-> names, at |-> "", skip |-> FALSE]
execute(name, fn, args) == [op |-> "execute", on |-> name, fn |-> fn, args |-> args, at |-> "", skip |-> FALSE]
test == [op |-> "test", on |-> "", fn |-> "", args |-> {}, at |-> "", skip |-> FALSE]

\* deploy(name, {skipIfAlreadyDeployed: true, args}) of the scripts.
deploy(name, args) == [op |-> "deploy", on |-> name, fn |-> "", args |-> args, at |-> name, skip |-> TRUE]

\* (await ethers.getContractFactory(contract)).deploy(args) of the fixture.
create(name, contract, args) ==
    [op |-> "deploy", on |-> name, fn |-> "", args |-> args, at |-> contract, skip |-> FALSE]

script(tag, dependencies, steps) == [tag |-> tag, dependencies |-> dependencies, steps |-> steps]
plain(name) == script(name, {}, <<deploy(name, {})>>)

\* A proxy is deployed and given the logic contract that its file depends on.
proxy(name, logic) ==
    script(name, {logic}, <<deploy(name, {}), get({logic}), execute(name, "initProxy", {logic})>>)

-----------------------------------------------------------------------------
\* hardhat.config.ts: the accounts that are the zero address on a network, which the
\* scripts replace by mocks, and those that resolve to an address.  On zkevm the
\* multisig is the third signer of a network with one.
zeroAccounts(net) ==
    CASE net = "hardhat" -> {"api3Proxy", "pyth", "rateReceiver", "wstETH"}
      [] net \in {"zkevmtestnet", "goerli"} -> {"rateReceiver", "wstETH"}
      [] net = "zkevm" -> {}

namedAccounts(net) ==
    {"api3Proxy", "pyth", "rateReceiver", "wstETH", "spender", "multisig"}
        \ (zeroAccounts(net) \cup IF net = "zkevm" THEN {"multisig"} ELSE {})

target(net, account, mock) == IF account \in zeroAccounts(net) THEN mock ELSE account
ifZero(net, account, steps) == IF account \in zeroAccounts(net) THEN steps ELSE <<>>

-----------------------------------------------------------------------------
TroveManager == plain("TroveManager")
StabilityPool == plain("StabilityPool")
BorrowerOperations == plain("BorrowerOperations")
ActivePool == plain("ActivePool")
DefaultPool == plain("DefaultPool")
CollSurplusPool == plain("CollSurplusPool")
HintHelpers == plain("HintHelpers")
SortedTroves == plain("SortedTroves")

\* Variant: the mock's timestamp is never set.
api3ProxyMock_neverUpdated == <<deploy("Api3ProxyMock", {}), execute("Api3ProxyMock", "setPrice", {})>>

\* The mocks that stand in for an oracle whose account is the zero address.
api3ProxyMock == <<
    deploy("Api3ProxyMock", {}),
    execute("Api3ProxyMock", "setPrice", {}),
    execute("Api3ProxyMock", "setUpdateTime", {})>>
pythMock == <<deploy("PythMock", {}), execute("PythMock", "setFeedId", {})>>
rateReceiverMock == <<
    deploy("CrossChainRateReceiverMock", {}),
    execute("CrossChainRateReceiverMock", "setRate", {})>>

PriceFeed(net) ==
    script("PriceFeed", {},
        <<deploy("PriceFeed", {})>>
        \o ifZero(net, "api3Proxy", api3ProxyMock)
        \o ifZero(net, "pyth", pythMock)
        \o ifZero(net, "rateReceiver", rateReceiverMock)
        \o <<execute("PriceFeed", "setAddresses",
                {target(net, "api3Proxy", "Api3ProxyMock"), target(net, "pyth", "PythMock"),
                 target(net, "rateReceiver", "CrossChainRateReceiverMock")})>>)

SIMToken ==
    LET operators == {"TroveManager", "StabilityPool", "BorrowerOperations"}
    IN  script("SIMToken", operators, <<get(operators), deploy("SIMToken", operators)>>)

CommunityIssuance == plain("CommunityIssuance")
LiquidityRewardsIssuance == plain("LiquidityRewardsIssuance")
LockupContractFactory == plain("LockupContractFactory")
VeLogo == plain("VeLogo")
VeLogic == script("VeLogic", {"VeLogo"}, <<get({"VeLogo"}), deploy("VeLogic", {"VeLogo"})>>)
Ve == proxy("Ve", "VeLogic")
VeDistributorLogic == plain("VeDistributorLogic")
SIMVeDistributor == proxy("SIMVeDistributor", "VeDistributorLogic")
WSTETHVeDistributor == proxy("WSTETHVeDistributor", "VeDistributorLogic")
ControllerLogic == plain("ControllerLogic")
Controller == proxy("Controller", "ControllerLogic")

-----------------------------------------------------------------------------
\* Connecting everything: 022_SHADYToken.ts and DeploymentHelper.ts make the same calls,
\* but for the collateral token, the receiver of fees and the multisig.
setCore(wstETH, feeReceiver) == <<
    execute("SortedTroves", "setParams", {"TroveManager", "BorrowerOperations"}),
    execute("TroveManager", "setAddresses",
        {"BorrowerOperations", "ActivePool", "DefaultPool", "StabilityPool", "CollSurplusPool",
         "PriceFeed", "SIMToken", "SortedTroves", "SHADYToken", "WSTETHVeDistributor"}),
    execute("BorrowerOperations", "setAddresses",
        {wstETH, "TroveManager", "ActivePool", "DefaultPool", "StabilityPool", "CollSurplusPool",
         "PriceFeed", "SortedTroves", "SIMToken", "SIMVeDistributor", feeReceiver}),
    execute("StabilityPool", "setAddresses",
        {wstETH, "BorrowerOperations", "TroveManager", "ActivePool", "SIMToken",
         "SortedTroves", "PriceFeed", "CommunityIssuance"}),
    execute("ActivePool", "setAddresses",
        {wstETH, "BorrowerOperations", "TroveManager", "StabilityPool", "DefaultPool", "CollSurplusPool"}),
    execute("DefaultPool", "setAddresses", {wstETH, "TroveManager", "ActivePool"}),
    execute("CollSurplusPool", "setAddresses", {wstETH, "BorrowerOperations", "TroveManager", "ActivePool"}),
    execute("HintHelpers", "setAddresses", {"SortedTroves", "TroveManager"})>>

\* Variant: the controller is not initialised.
setLockupsAndController_noInit(multisig) == <<
    execute("LockupContractFactory", "setSHADYTokenAddress", {"SHADYToken"})>>

setLockupsAndController(multisig) == <<
    execute("LockupContractFactory", "setSHADYTokenAddress", {"SHADYToken"}),
    execute("Controller", "init", {multisig})>>

setVeAndIssuance(wstETH) == <<
    execute("Ve", "setAddresses", {"TroveManager", "BorrowerOperations", "SHADYToken", "Controller"}),
    execute("CommunityIssuance", "setAddresses", {"SHADYToken", "StabilityPool"}),
    execute("SIMVeDistributor", "init", {"Controller", "Ve", "SIMToken"}),
    execute("WSTETHVeDistributor", "init", {"Controller", "Ve", wstETH})>>

\* The mock collateral token, and one unit of it for the deployer's smoke test.
wstETHMock == <<deploy("WSTETHMock", {}), execute("WSTETHMock", "mint", {})>>

connected == {
    "CommunityIssuance", "LiquidityRewardsIssuance", "Ve", "LockupContractFactory", "TroveManager",
    "BorrowerOperations", "StabilityPool", "ActivePool", "DefaultPool", "CollSurplusPool", "SortedTroves",
    "PriceFeed", "SIMToken", "SIMVeDistributor", "WSTETHVeDistributor", "Controller"}

connectAll(net) ==
    LET wstETH == target(net, "wstETH", "WSTETHMock")
    IN  ifZero(net, "wstETH", wstETHMock)
        \o <<get(connected),
             deploy("SHADYToken", {"CommunityIssuance", "LiquidityRewardsIssuance",
                                   "LockupContractFactory", "spender", "multisig"})>>
        \o setCore(wstETH, "multisig")
        \o setLockupsAndController("multisig")
        \o setVeAndIssuance(wstETH)
        \o IF net = "hardhat" THEN <<test>> ELSE <<>>

SHADYToken(net) == script("SHADYToken", connected \cup {"HintHelpers"}, connectAll(net))

MultiTroveGetter ==
    LET read == {"TroveManager", "SortedTroves"}
    IN  script("MultiTroveGetter", read, <<get(read), deploy("MultiTroveGetter", read)>>)

-----------------------------------------------------------------------------
\* hardhat-deploy runs the files in the order of their names; with a tag, the files that
\* carry it and, before each, the files it depends on, which here is the same order.
files(net) == <<
    TroveManager, StabilityPool, BorrowerOperations, ActivePool, DefaultPool, CollSurplusPool,
    HintHelpers, SortedTroves, PriceFeed(net), SIMToken, CommunityIssuance, LiquidityRewardsIssuance,
    LockupContractFactory, VeLogo, VeLogic, Ve, VeDistributorLogic, SIMVeDistributor,
    WSTETHVeDistributor, ControllerLogic, Controller, SHADYToken(net), MultiTroveGetter>>

tags == {files("hardhat")[i].tag : i \in DOMAIN files("hardhat")}

closure(net, tag) ==
    LET needed[i \in 0..Len(files(net))] ==  \* the tags wanted from file i on
            IF i = 0 THEN {tag} ELSE
            LET later == needed[i - 1]
                file == files(net)[Len(files(net)) + 1 - i]
            IN  IF file.tag \in later THEN later \cup file.dependencies ELSE later
    IN  needed[Len(files(net))]

runScripts(net, wanted) ==
    FlattenSeq([i \in DOMAIN files(net) |->
                    IF files(net)[i].tag \in wanted THEN files(net)[i].steps ELSE <<>>])

-----------------------------------------------------------------------------
\* deployFixture: the core with its tester contracts, then the SHADY contracts.
deployCore == <<
    create("TroveManager", "TroveManager", {}),
    create("StabilityPool", "StabilityPool", {}),
    create("BorrowerOperations", "BorrowerOperations", {}),
    create("ActivePool", "ActivePool", {}),
    create("DefaultPool", "DefaultPool", {}),
    create("CollSurplusPool", "CollSurplusPool", {}),
    create("HintHelpers", "HintHelpers", {}),
    create("SortedTroves", "SortedTroves", {}),
    create("PriceFeed", "PriceFeedMock", {}),
    create("SIMToken", "SIMToken", {"TroveManager", "StabilityPool", "BorrowerOperations"}),
    create("WSTETHMock", "WSTETHMock", {})>>

\* Variant: the tester contracts are given the token they replace.
replaceByTesters_oldToken == <<
    create("TroveManager", "TroveManagerTester", {}),
    create("BorrowerOperations", "BorrowerOperationsTester", {})>>

replaceByTesters == <<
    create("TroveManager", "TroveManagerTester", {}),
    create("BorrowerOperations", "BorrowerOperationsTester", {}),
    create("SIMToken", "SIMTokenTester", {"TroveManager", "StabilityPool", "BorrowerOperations"})>>

fixtureProxy(name, logic) == <<create(name, name, {}), execute(name, "initProxy", {logic})>>

deploySHADY == <<
        create("CommunityIssuance", "CommunityIssuanceTester", {}),
        create("LiquidityRewardsIssuance", "LiquidityRewardsIssuance", {}),
        create("LockupContractFactory", "LockupContractFactory", {}),
        create("VeLogo", "VeLogo", {}),
        create("VeLogic", "VeTester", {"VeLogo"}),
        create("VeDistributorLogic", "VeDistributorLogic", {}),
        create("ControllerLogic", "ControllerLogic", {})>>
    \o fixtureProxy("Controller", "ControllerLogic")
    \o fixtureProxy("Ve", "VeLogic")
    \o fixtureProxy("SIMVeDistributor", "VeDistributorLogic")
    \o fixtureProxy("WSTETHVeDistributor", "VeDistributorLogic")
    \o <<create("SHADYToken", "SHADYTokenTester",
            {"CommunityIssuance", "LiquidityRewardsIssuance", "LockupContractFactory",
             "bountyAddress", "multisigAddress"})>>

signers == {"bountyAddress", "feeReceiverAddress", "multisigAddress"}

mintWSTETH == <<execute("WSTETHMock", "mint", {})>>

connectSHADYContracts == setLockupsAndController("multisigAddress")
connectCoreContracts == setCore("WSTETHMock", "feeReceiverAddress")
connectSHADYContractsToCore == setVeAndIssuance("WSTETHMock")

deployFixture ==
    deployCore \o replaceByTesters \o deploySHADY
    \o connectSHADYContracts \o connectCoreContracts \o connectSHADYContractsToCore
    \o mintWSTETH

-----------------------------------------------------------------------------
\* What the operator may run: all the scripts, those of a tag, the tests' fixture.
Commands == tags \cup {"all", "fixture"}

stepsOf(net, command) ==
    CASE command = "all" -> runScripts(net, tags)
      [] command = "fixture" -> deployFixture
      [] OTHER -> runScripts(net, closure(net, command))

\* Program[net][command]: the steps a command runs, in order.
Program ==
    FoldSet(LAMBDA net, rest :
                (net :> FoldSet(LAMBDA c, f : (c :> stepsOf(net, c)) @@ f, <<>>, Commands)) @@ rest,
            <<>>, Networks)

\* The names that stand for an address before anything is deployed.
Accounts == [net \in Networks |-> namedAccounts(net) \cup IF net = "hardhat" THEN signers ELSE {}]

=============================================================================
