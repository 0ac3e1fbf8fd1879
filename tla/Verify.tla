------------------------------- MODULE Verify -------------------------------
(* The verification task of scripts/hardhat-verify, run from the command   *)
(* line or by scripts/verify.ts, against a block explorer.  The explorer   *)
(* queues what it is sent and decides later; requests may fail before or   *)
(* after they arrive.  An action is what the task does up to its next      *)
(* request.  Errors are named by their classes.                            *)
EXTENDS Artifacts, SequencesExt

CONSTANTS
    Networks,        \* name -> chain id: the networks of hardhat.config.ts
    customChains, apiKey, \* etherscan.customChains and etherscan.apiKey there
    compilerVersions,     \* solidity.compilers and overrides there
    Scripted,        \* the deployments scripts/verify.ts verifies, in its order
    Codes,           \* the code each of them may have on chain; <<>> if none
    UserArgs,        \* the contract names and libraries users give, with the script's own
    MaxTasks         \* bound on the tasks started

ASSUME VersionsAssumption == compilerVersions \subseteq Nat

\* The artifacts were built by the compilers of the configuration; code is a sequence of bytes.
ASSUME BuildAssumption ==
    /\ \A fqName \in DOMAIN artifacts : artifacts[fqName].buildInfo => artifacts[fqName].solcVersion \in compilerVersions
    /\ Scripted \in Seq(STRING)
    /\ \A a \in Range(Scripted) : Codes[a] \subseteq Seq(Nat)
    /\ \A given \in UserArgs : \A i \in DOMAIN given.libraries :
          i \in Nat \ {0} /\ given.libraries[i].name \in STRING \X STRING

VARIABLES
    network,      \* the network of the process
    caller,       \* a user, or scripts/verify.ts, which lets VerifyUtils catch what the task throws
    todo,         \* the deployments the script has still to verify
    exit,         \* the script's exit code
    pc,           \* the request the task waits for; "idle" between tasks
    address,      \* the contract that is verified
    args,         \* the arguments that were resolved
    contractFQN,  \* the artifact found for it
    libraries,    \* and the addresses of its libraries
    input,        \* "minimal" or "full": the compiler input of the attempt
    guid,         \* the submission that is polled
    results,      \* <<address, outcome>> of every task that ended, in order
    chain,        \* the code at each address
    submissions,  \* what the explorer was sent and what became of it
    verified      \* the addresses with verified source code

taskVars == <<pc, address, args, contractFQN, libraries, input, guid>>
scriptVars == <<caller, todo, exit>>
explorerVars == <<submissions, verified>>
vars == <<network, taskVars, scriptVars, explorerVars, results, chain>>

Addresses == Range(Scripted)
bytecode == chain[address]
unread == <<-1>>
noArgs == [contract |-> noName, libraries |-> <<>>]

-----------------------------------------------------------------------------
\* errors.ts, by what the user is told about.
ArgumentErrors == {
    "MissingAddressError", "InvalidAddressError", "InvalidContractNameError",
    "InvalidConstructorArgumentsError", "ExclusiveConstructorArgumentsError",
    "InvalidLibrariesError", "ImportingModuleError"}
NetworkErrors == {"MissingApiKeyError", "NetworkNotSupportedError", "ChainConfigNotFoundError"}
SendingErrors == {
    "ContractVerificationRequestError", "ContractVerificationInvalidStatusCodeError",
    "ContractVerificationMissingBytecodeError"}
PollingErrors == {
    "ContractStatusPollingError", "ContractStatusPollingInvalidStatusCodeError",
    "ContractStatusPollingResponseNotOkError"}
BytecodeErrors == {
    "EtherscanVersionNotSupportedError", "DeployedBytecodeNotFoundError", "CompilerVersionsMismatchError",
    "ContractNotFoundError", "BuildInfoNotFoundError", "BuildInfoCompilerVersionMismatchError",
    "DeployedBytecodeMismatchError", "DeployedBytecodeMultipleMatchesError"}
LibraryErrors == {
    "InvalidLibraryAddressError", "DuplicatedLibraryError", "LibraryNotFoundError",
    "LibraryMultipleMatchesError", "MissingLibrariesError", "LibraryAddressesMismatchError"}
AttemptErrors == {
    "UnexpectedNumberOfFilesError", "ABIArgumentLengthError", "ABIArgumentTypeError",
    "ABIArgumentOverflowError", "VerificationAPIUnexpectedMessageError", "ContractVerificationFailedError"}
\* HardhatVerifyError itself carries the explorer's message; "Error" is one no class was written for.
Errors == ArgumentErrors \cup NetworkErrors \cup SendingErrors \cup PollingErrors \cup BytecodeErrors
    \cup LibraryErrors \cup AttemptErrors \cup {"HardhatVerifyError", "Error"}

-----------------------------------------------------------------------------
\* chain-config.ts: custom chains before builtin ones, the last custom chain first.
builtinChains == <<
    <<"mainnet", 1>>, <<"goerli", 5>>, <<"optimisticEthereum", 10>>, <<"bsc", 56>>, <<"sokol", 77>>,
    <<"bscTestnet", 97>>, <<"xdai", 100>>, <<"gnosis", 100>>, <<"heco", 128>>, <<"polygon", 137>>,
    <<"opera", 250>>, <<"hecoTestnet", 256>>, <<"optimisticGoerli", 420>>, <<"moonbeam", 1284>>,
    <<"moonriver", 1285>>, <<"moonbaseAlpha", 1287>>, <<"ftmTestnet", 4002>>, <<"chiado", 10200>>,
    <<"arbitrumOne", 42161>>, <<"avalancheFujiTestnet", 43113>>, <<"avalanche", 43114>>,
    <<"polygonMumbai", 80001>>, <<"baseGoerli", 84531>>, <<"arbitrumTestnet", 421611>>,
    <<"arbitrumGoerli", 421613>>, <<"sepolia", 11155111>>, <<"aurora", 1313161554>>,
    <<"auroraTestnet", 1313161555>>, <<"harmony", 1666600000>>, <<"harmonyTest", 1666700000>>>>

candidates == [i \in DOMAIN customChains |-> customChains[Len(customChains) + 1 - i]] \o builtinChains

getCurrentChainConfig(net) ==
    LET fits == {i \in DOMAIN candidates : candidates[i][2] = Networks[net]}
    IN  IF fits # {} THEN result(candidates[Min(fits)][1])
        ELSE throws(IF net = "hardhat" THEN "NetworkNotSupportedError" ELSE "ChainConfigNotFoundError")

\* The API key is looked up under the chain's name in that list, not the network's.
resolveApiKey(chainName) ==
    IF chainName \in DOMAIN apiKey /\ apiKey[chainName] # "" THEN result(apiKey[chainName])
    ELSE throws("MissingApiKeyError")

\* The error, if any, with which `new Etherscan` fails on a network.
connectionError(net) ==
    IF getCurrentChainConfig(net).error # "" THEN getCurrentChainConfig(net).error
    ELSE resolveApiKey(getCurrentChainConfig(net).value).error

getCompilerVersions ==
    IF \E v \in compilerVersions : v < 411 THEN throws("EtherscanVersionNotSupportedError")
    ELSE result(compilerVersions)

-----------------------------------------------------------------------------
\* A module named on the command line is absent, cannot be imported, exports a wrong
\* value (reported as a failed import too: the throw is inside the try), or the value.
Modules == {"undefined", "unimportable", "wrong", "good"}

resolveConstructorArguments(params, module) ==
    IF module = "undefined" THEN result("arguments")
    ELSE IF params THEN throws("ExclusiveConstructorArgumentsError")
    ELSE IF module # "good" THEN throws("ImportingModuleError")
    ELSE result("arguments")

resolveLibraries(module, exported) ==
    IF module = "undefined" THEN result(<<>>)
    ELSE IF module # "good" THEN throws("ImportingModuleError")
    ELSE result(exported)

unqualified == <<"", "malformed">>

\* Arguments both entries check in the same way.
checkAddressAndName(addr, contract) ==
    IF addr = "undefined" THEN throws("MissingAddressError")
    ELSE IF addr = "malformed" THEN throws("InvalidAddressError")
    ELSE IF contract = unqualified THEN throws("InvalidContractNameError")
    ELSE result(addr)

\* The errors of a sequence of checks, in which the first to fail speaks.
firstError(checks) ==
    LET failed == {i \in DOMAIN checks : checks[i].error # ""}
    IN  IF failed = {} THEN "" ELSE checks[Min(failed)].error

\* verify: TASK_VERIFY_RESOLVE_ARGUMENTS.  "" is no error.
taskErrors ==
    {firstError(<<checkAddressAndName(addr, contract), resolveConstructorArguments(params, ctor),
                  resolveLibraries(libs, <<>>)>>) :
        addr \in {"undefined", "malformed", "0x"}, contract \in {noName, unqualified},
        params \in BOOLEAN, ctor \in Modules, libs \in Modules}

\* verify:verify, which takes the values themselves.
subtaskErrors ==
    {firstError(<<checkAddressAndName(addr, contract),
                  IF array THEN result(<<>>) ELSE throws("InvalidConstructorArgumentsError"),
                  IF object THEN result(<<>>) ELSE throws("InvalidLibrariesError")>>) :
        addr \in {"undefined", "malformed", "0x"}, contract \in {noName, unqualified},
        array \in BOOLEAN, object \in BOOLEAN}

-----------------------------------------------------------------------------
Init ==
    /\ network \in DOMAIN Networks
    /\ caller = "user"
    /\ todo = <<>>
    /\ exit = "none"
    /\ pc = "idle"
    /\ address = ""
    /\ args = noArgs
    /\ contractFQN = noName
    /\ libraries = <<>>
    /\ input = "minimal"
    /\ guid = 0
    /\ results = <<>>
    /\ chain = [a \in Addresses |-> unread]
    /\ submissions = <<>>
    /\ verified = {}

\* The task ends: it returns, or throws to its caller.
endFor(addr, outcome) ==
    /\ results' = Append(results, <<addr, outcome>>)
    /\ pc' = "idle"
    /\ address' = ""
    /\ args' = noArgs
    /\ contractFQN' = noName
    /\ libraries' = <<>>
    /\ input' = "minimal"
    /\ guid' = 0
    /\ UNCHANGED network
end(outcome) == endFor(address, outcome)

\* TASK_VERIFY_ETHERSCAN begins.
beginFor(addr, given) ==
    IF connectionError(network) # "" THEN endFor(addr, connectionError(network))
    ELSE /\ pc' = "isVerified"
         /\ address' = addr
         /\ args' = given
         /\ UNCHANGED <<network, contractFQN, libraries, input, guid, results>>

\* A user runs `verify1`, or a script calls one of VerifyUtils' functions.
StartTask ==
    /\ pc = "idle" /\ todo = <<>> /\ Len(results) < MaxTasks
    /\ caller' = "user"
    /\ exit' = "none"
    /\ \/ \E error \in (taskErrors \cup subtaskErrors) \ {""} : endFor("", error)
       \/ \E addr \in Addresses, given \in UserArgs : beginFor(addr, given)
    /\ UNCHANGED <<todo, chain, explorerVars>>

\* scripts/verify.ts.
StartScript ==
    /\ pc = "idle" /\ todo = <<>> /\ Len(results) + Len(Scripted) <= MaxTasks
    /\ caller' = "script"
    /\ todo' = Scripted
    /\ exit' = "none"
    /\ UNCHANGED <<network, taskVars, results, chain, explorerVars>>

\* deployments.get finds the next name, and VerifyUtils.verify is called; or it does not.
ScriptVerifies ==
    /\ caller = "script" /\ pc = "idle" /\ todo # <<>>
    /\ beginFor(Head(todo), noArgs)
    /\ todo' = Tail(todo)
    /\ UNCHANGED <<caller, exit, chain, explorerVars>>

ScriptFails ==
    /\ caller = "script" /\ pc = "idle" /\ todo # <<>>
    /\ todo' = <<>>
    /\ exit' = "1"
    /\ UNCHANGED <<network, caller, taskVars, results, chain, explorerVars>>

ScriptEnds ==
    /\ caller = "script" /\ pc = "idle" /\ todo = <<>> /\ exit = "none"
    /\ exit' = "0"
    /\ UNCHANGED <<network, caller, todo, taskVars, results, chain, explorerVars>>

-----------------------------------------------------------------------------
\* An answer whose message is not OK counts as "not verified", whatever the explorer knows.
IsVerified ==
    /\ pc = "isVerified"
    /\ \/ address \in verified /\ end("alreadyVerified")
       \/ pc' = "getCode" /\ UNCHANGED <<network, address, args, contractFQN, libraries, input, guid, results>>
    /\ UNCHANGED <<scriptVars, chain, explorerVars>>

\* eth_getCode, and what the code itself tells.  What is on chain is found out here and stays.
GetDeployedContractBytecode ==
    /\ pc = "getCode"
    /\ \E code \in Codes[address] :
        /\ bytecode \in {unread, code}
        /\ chain' = [chain EXCEPT ![address] = code]
        /\ IF getCompilerVersions.error # "" THEN end(getCompilerVersions.error)
           ELSE IF code = <<>> THEN end("DeployedBytecodeNotFoundError")
           ELSE IF ~constructible(code) THEN end("Error")
           ELSE IF getMatchingVersions(code, compilerVersions) = {} /\ ~isOvm(code)
           THEN end("CompilerVersionsMismatchError")
           ELSE pc' = "lookup" /\ UNCHANGED <<network, address, args, contractFQN, libraries, input, guid, results>>
    /\ UNCHANGED <<scriptVars, explorerVars>>

\* The contract given by name, checked against the code.
namedContract(name) ==
    LET versions == getMatchingVersions(bytecode, compilerVersions)
    IN  IF name \notin DOMAIN artifacts THEN throws("ContractNotFoundError")
        ELSE IF ~artifacts[name].buildInfo THEN throws("BuildInfoNotFoundError")
        ELSE IF artifacts[name].solcVersion \notin versions /\ ~isOvm(bytecode)
        THEN throws("BuildInfoCompilerVersionMismatchError")
        ELSE IF ~extractMatchingContractInformation(name, bytecode) THEN throws("DeployedBytecodeMismatchError")
        ELSE result(name)

\* TASK_VERIFY_ETHERSCAN_GET_CONTRACT_INFORMATION, in two steps.
GetContractInformation ==
    /\ pc = "lookup"
    /\ LET found == IF args.contract # noName THEN namedContract(args.contract)
                    ELSE extractInferredContractInformation(getMatchingVersions(bytecode, compilerVersions), bytecode)
       IN  IF found.error # "" THEN end(found.error)
           ELSE /\ contractFQN' = found.value
                /\ pc' = "link"
                /\ UNCHANGED <<network, address, args, libraries, input, guid, results>>
    /\ UNCHANGED <<scriptVars, chain, explorerVars>>

GetLibraryInformation ==
    /\ pc = "link"
    /\ LET linked == getLibraryInformation(contractFQN, args.libraries, bytecode)
       IN  IF linked.error # "" THEN end(linked.error)
           ELSE /\ libraries' = linked.value
                /\ pc' = "encode"
                /\ UNCHANGED <<network, address, args, contractFQN, input, guid, results>>
    /\ UNCHANGED <<scriptVars, chain, explorerVars>>

\* What encodeDeploy of @ethersproject/abi may throw, by the fields the predicates look at.
AbiErrors ==
    [code : {"INVALID_ARGUMENT", "NUMERIC_FAULT"}, count : BOOLEAN, argument : BOOLEAN, overflow : BOOLEAN]
isABIArgumentLengthError(e) == e.code = "INVALID_ARGUMENT" /\ e.count
isABIArgumentTypeError(e) == e.code = "INVALID_ARGUMENT" /\ e.argument
isABIArgumentOverflowError(e) == e.code = "NUMERIC_FAULT" /\ e.overflow

encodingError(e) ==
    IF isABIArgumentLengthError(e) THEN "ABIArgumentLengthError"
    ELSE IF isABIArgumentTypeError(e) THEN "ABIArgumentTypeError"
    ELSE IF isABIArgumentOverflowError(e) THEN "ABIArgumentOverflowError"
    ELSE "Error"

\* The minimal input needs the one file of that source name; then the arguments are encoded.
PrepareAttempt ==
    /\ pc = "encode"
    /\ \/ end("UnexpectedNumberOfFilesError")
       \/ \E e \in AbiErrors : end(encodingError(e))
       \/ pc' = "submit" /\ UNCHANGED <<network, address, args, contractFQN, libraries, input, guid, results>>
    /\ UNCHANGED <<scriptVars, chain, explorerVars>>

-----------------------------------------------------------------------------
(* The explorer.  A submission is queued and decided later; it passes only *)
(* if it compiles to the code on chain.  It refuses one for an address     *)
(* that is verified already.                                               *)

arrives ==
    submissions' = Append(submissions,
        [address |-> address, contract |-> contractFQN, libraries |-> libraries, given |-> args,
         input |-> input, task |-> Len(results) + 1, status |-> "queued"])

\* TASK_VERIFY_ETHERSCAN_ATTEMPT_VERIFICATION, up to the guid.
Submit ==
    /\ pc = "submit"
    /\ IF address \in verified
       THEN end("HardhatVerifyError") /\ UNCHANGED submissions
       ELSE /\ arrives
            /\ guid' = Len(submissions) + 1
            /\ pc' = "poll"
            /\ UNCHANGED <<network, address, args, contractFQN, libraries, input, results>>
    /\ UNCHANGED <<scriptVars, chain, verified>>

\* The explorer answers, but not with a guid.
SubmissionRefused ==
    /\ pc = "submit"
    /\ \E error \in {"ContractVerificationMissingBytecodeError", "HardhatVerifyError"} : end(error)
    /\ UNCHANGED <<scriptVars, chain, explorerVars>>

\* No answer, a bad status or a body that is no JSON; the request may have arrived or not.
SubmissionUnanswered ==
    /\ pc = "submit"
    /\ \E error \in {"ContractVerificationRequestError", "ContractVerificationInvalidStatusCodeError", "Error"} :
        end(error)
    /\ arrives \/ UNCHANGED submissions
    /\ UNCHANGED <<scriptVars, chain, verified>>

\* Variant: whatever is not a failure is a success.
isSuccess_unlessFailure(status) == status \notin {"queued", "fail"}

\* Variant: a refusal is taken for pending.
isPending_untilSuccess(status) == status # "pass"

isPending(status) == status = "queued"
isFailure(status) == status = "fail"
isSuccess(status) == status = "pass"

\* An attempt that failed is repeated with the full input, once.
afterFailure ==
    IF input = "minimal"
    THEN /\ input' = "full"
         /\ pc' = "submit"
         /\ UNCHANGED <<network, address, args, contractFQN, libraries, guid, results>>
    ELSE end("ContractVerificationFailedError")

\* Variant: a pending answer is taken for a refusal.
getVerificationStatus_giveUpPending ==
    IF isSuccess(submissions[guid].status) THEN end("verified") ELSE afterFailure

\* getVerificationStatus asks again as long as the answer is "Pending in queue".
getVerificationStatus ==
    IF isPending(submissions[guid].status) THEN UNCHANGED <<network, taskVars, results>>
    ELSE IF isFailure(submissions[guid].status) THEN afterFailure
    ELSE IF isSuccess(submissions[guid].status) THEN end("verified")
    ELSE end("ContractStatusPollingResponseNotOkError")

Poll ==
    /\ pc = "poll"
    /\ getVerificationStatus
    /\ UNCHANGED <<scriptVars, chain, explorerVars>>

\* Polling fails, or the explorer says something new.
PollFails ==
    /\ pc = "poll"
    /\ \E error \in PollingErrors \cup {"VerificationAPIUnexpectedMessageError", "Error"} : end(error)
    /\ UNCHANGED <<scriptVars, chain, explorerVars>>

\* The first request and eth_getCode are not guarded: the library's own error gets out.
RequestFails ==
    /\ pc \in {"isVerified", "getCode"}
    /\ end("Error")
    /\ UNCHANGED <<scriptVars, chain, explorerVars>>

-----------------------------------------------------------------------------
\* Reference: the code is the artifact's, but for the bytes only known on chain.
Blanks(code, output) ==
    LET offsets == getLibraryOffsets(output.linkReferences) \cup output.immutableReferences
            \cup getCallProtectionOffsets(code, output.object)
    IN  UNION {(o.start + 1)..(o.start + o.length) : o \in offsets}

CameFrom(code, output) ==
    LET own == _getExecutableSection(code)
        other == inferExecutableSection(output.object)
    IN  Len(own) = Len(other) /\ \A i \in DOMAIN own : i \in Blanks(code, output) \/ own[i] = other[i]

\* A submission's libraries are those of the contract, with the addresses in its code.
LinkedAsOnChain(s) ==
    LET output == artifacts[s.contract].output
    IN  /\ DOMAIN s.libraries = DOMAIN artifacts[s.contract].linkReferences
        /\ \A lib \in DOMAIN output.linkReferences : \E o \in output.linkReferences[lib] :
              s.libraries[lib].bytes = SubSeq(chain[s.address], o.start + 1, o.start + o.length)

ExplorerDecides ==
    /\ \E i \in DOMAIN submissions :
        LET s == submissions[i]
            decided(status) == submissions' = [submissions EXCEPT ![i].status = status]
        IN  /\ s.status = "queued"
            /\ \/ s.address \in verified /\ decided("already") /\ UNCHANGED verified
               \/ s.address \notin verified /\ decided("fail") /\ UNCHANGED verified
               \/ /\ s.address \notin verified
                  /\ CameFrom(chain[s.address], artifacts[s.contract].output)
                  /\ LinkedAsOnChain(s)
                  /\ decided("pass")
                  /\ verified' = verified \cup {s.address}
    /\ UNCHANGED <<network, taskVars, scriptVars, results, chain>>

Proceeds ==
    \/ ScriptVerifies \/ ScriptEnds
    \/ IsVerified \/ GetDeployedContractBytecode \/ GetContractInformation \/ GetLibraryInformation
    \/ PrepareAttempt \/ Submit \/ Poll

Fails == ScriptFails \/ SubmissionRefused \/ SubmissionUnanswered \/ PollFails \/ RequestFails

Next == StartTask \/ StartScript \/ Proceeds \/ Fails \/ ExplorerDecides

Spec == Init /\ [][Next]_vars

\* The task or the script has a step to take that changes something; asking again while the
\* submission is queued changes nothing.
AtWork ==
    \/ pc \notin {"idle", "poll"}
    \/ pc = "poll" /\ ~isPending(submissions[guid].status)
    \/ pc = "idle" /\ caller = "script" /\ exit = "none"

\* Weak fairness of Proceeds, with the condition under which it is enabled written out: the
\* task takes its next step, and the explorer works off its queue.  No request has to fail.
FairSpec ==
    /\ Spec
    /\ []<>(~AtWork) \/ []<><<Proceeds>>_vars
    /\ WF_vars(ExplorerDecides)

-----------------------------------------------------------------------------
\* Type correctness of the task's, the script's and the explorer's state.
TypeOK ==
    /\ network \in DOMAIN Networks
    /\ caller \in {"user", "script"} /\ exit \in {"none", "0", "1"}
    /\ pc \in {"idle", "isVerified", "getCode", "lookup", "link", "encode", "submit", "poll"}
    /\ address \in Addresses \cup {""}
    /\ contractFQN \in DOMAIN artifacts \cup {noName}
    /\ guid \in 0..Len(submissions)
    /\ verified \subseteq Addresses
    /\ \A i \in DOMAIN results : results[i][2] \in Errors \cup {"verified", "alreadyVerified"}
    /\ \A i \in DOMAIN submissions : submissions[i].status \in {"queued", "pass", "fail", "already"}

\* A success is reported only for a contract whose source the explorer holds: one found
\* verified before anything was sent (isVerified), or one the task's own submission verified
\* (EtherscanResponse.isSuccess), not one the explorer had from somebody else.
SuccessIsVerified ==
    \A i \in DOMAIN results :
        /\ results[i][2] = "alreadyVerified" => results[i][1] \in verified
        /\ results[i][2] = "verified" =>
              \E j \in DOMAIN submissions :
                  submissions[j].task = i /\ submissions[j].address = results[i][1] /\ submissions[j].status = "pass"

\* The errors after which what was sent may still be decided: the request, its answer or the
\* polling was cut off, or the explorer said what the task does not understand.
MayStillSucceed ==
    PollingErrors \cup {"VerificationAPIUnexpectedMessageError", "Error",
                        "ContractVerificationRequestError", "ContractVerificationInvalidStatusCodeError"}

\* Any other error is final: nothing the task sent waits in the explorer's queue or has passed,
\* so that the user may correct the arguments and start again (getVerificationStatus polls on
\* while the answer is "Pending in queue").
FailureIsFinal ==
    \A i \in DOMAIN results : results[i][2] \in Errors \ MayStillSucceed =>
        \A j \in DOMAIN submissions : submissions[j].task = i => submissions[j].status \in {"fail", "already"}

\* "We tried verifying your contract ... without including any unrelated one, but it failed": the
\* full input is sent only once the same task's minimal one was refused, and never twice.
NoUnrelatedSources ==
    \A j \in DOMAIN submissions : submissions[j].input = "full" =>
        /\ \E i \in 1..(j - 1) : submissions[i].task = submissions[j].task
        /\ \A i \in 1..(j - 1) : submissions[i].task = submissions[j].task =>
              submissions[i].input = "minimal" /\ submissions[i].status = "fail"

\* The artifacts the code on chain can have been compiled from.
Genuine(code) ==
    {fqName \in DOMAIN artifacts :
        /\ artifacts[fqName].buildInfo
        /\ satisfies(artifacts[fqName].solcVersion, inferCompilerVersion(code))
        /\ CameFrom(code, artifacts[fqName].output)}

\* What is sent for a contract is an artifact of which its code is an instance, byte for byte
\* outside of library addresses, immutables and call protection, by the compiler its metadata
\* names: the one the user named, or else the only one there is (Bytecode.compare,
\* lookupMatchingBytecode).  OVM code, which is compared after a replacement, is left out.
MatchIsGenuine ==
    \A j \in DOMAIN submissions :
        LET s == submissions[j]
            genuine == Genuine(chain[s.address])
        IN  isOvm(chain[s.address]) \/
            IF s.given.contract = noName THEN genuine = {s.contract}
            ELSE s.contract = s.given.contract /\ s.contract \in genuine

\* What is sent names every library of the contract with the address in its deployed code; one
\* that only the constructor uses, with the one address the user gave it under one of its names
\* (normalizeLibraries, mergeLibraries).
LinkedAsDeployed ==
    \A j \in DOMAIN submissions :
        LET s == submissions[j]
            given == s.given.libraries
            naming(lib) == {i \in DOMAIN given : given[i].name \in {lib, <<"", lib[2]>>}}
        IN  /\ LinkedAsOnChain(s)
            /\ \A lib \in DOMAIN s.libraries \ DOMAIN artifacts[s.contract].output.linkReferences :
                  \E i \in DOMAIN given : naming(lib) = {i} /\ s.libraries[lib] = given[i].address

\* What the explorer is sent is what is deployed: the artifact and its libraries.
SentAsDeployed == MatchIsGenuine /\ LinkedAsDeployed

\* The task ends because no artifact matches.
LookupFails == Len(results') > Len(results) /\ Last(results')[2] = "DeployedBytecodeMismatchError"

\* "The deployed bytecode doesn't match" is never said of code that is an instance of an artifact
\* at hand, whatever its libraries, immutables and metadata (nullifyBytecodeOffsets).  OVM code
\* is left out here too.
GenuineIsFound ==
    [][LookupFails =>
        \/ isOvm(bytecode)
        \/ Genuine(bytecode) \cap (IF args.contract = noName THEN DOMAIN artifacts ELSE {args.contract}) = {}]_vars

\* A task ends, although polling has no limit: the explorer decides what is in its queue, and
\* every answer other than "Pending in queue" ends the polling.
TaskEnds == pc # "idle" ~> pc = "idle"

=============================================================================
