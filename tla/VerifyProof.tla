---------------------------- MODULE VerifyProof ----------------------------
(***************************************************************************)
(* What the verification task may tell of a submission, for any artifacts, *)
(* codes, networks, arguments and any number of tasks; that the artifact   *)
(* and the libraries it sends are those of the code on chain; and that it  *)
(* finds the artifact whenever there is one.                               *)
(***************************************************************************)
EXTENDS Verify, DataTheorems

\* What the running task has sent.
own(j) == submissions[j].task = Len(results) + 1

\* A record with the fields of a submission.
isSubmission(s) ==
    s = [address |-> s.address, contract |-> s.contract, libraries |-> s.libraries, given |-> s.given,
         input |-> s.input, task |-> s.task, status |-> s.status]

\* Results and submissions are sequences, the latter of records, and no submission is of a task to come.
Histories ==
    /\ \E R : results \in Seq(R)
    /\ \E S : submissions \in Seq(S)
    /\ \A j \in DOMAIN submissions : submissions[j].task \in Nat /\ submissions[j].task <= Len(results) + 1
    /\ \A j \in DOMAIN submissions : isSubmission(submissions[j])

\* What was sent before the attempt that is made now: nothing, if that is the first, and else
\* one minimal input that was refused.
Attempts ==
    /\ input \in {"minimal", "full"}
    /\ input = "full" => pc \in {"submit", "poll"}
    /\ pc # "poll" /\ input = "minimal" => \A j \in DOMAIN submissions : ~own(j)
    /\ pc # "poll" /\ input = "full" =>
          /\ \E j \in DOMAIN submissions : own(j)
          /\ \A j \in DOMAIN submissions : own(j) => submissions[j].input = "minimal" /\ submissions[j].status = "fail"

\* The submission that is polled is the last of the task.
Polled ==
    pc = "poll" =>
        /\ guid \in DOMAIN submissions
        /\ own(guid) /\ submissions[guid].address = address /\ submissions[guid].input = input
        /\ \A j \in DOMAIN submissions : own(j) /\ j # guid =>
              input = "full" /\ submissions[j].status = "fail"

IInv == Histories /\ Attempts /\ Polled /\ SuccessIsVerified /\ FailureIsFinal /\ NoUnrelatedSources

-----------------------------------------------------------------------------
\* What Append makes of a sequence.
LEMMA AppendFacts ==
    ASSUME NEW S, NEW s \in Seq(S), NEW e
    PROVE  /\ \E T : Append(s, e) \in Seq(T)
           /\ Len(s) \in Nat /\ DOMAIN s = 1..Len(s)
           /\ Len(Append(s, e)) = Len(s) + 1
           /\ DOMAIN Append(s, e) = 1..(Len(s) + 1)
           /\ \A i \in DOMAIN s : Append(s, e)[i] = s[i]
           /\ Append(s, e)[Len(s) + 1] = e
<1>1. s \in Seq(S \cup {e})
      OBVIOUS
<1>2. Append(s, e) \in Seq(S \cup {e})
      BY <1>1
<1> QED BY <1>1, <1>2

\* Both histories, in the form the steps use.
LEMMA HistoryFacts ==
    ASSUME Histories
    PROVE  /\ Len(results) \in Nat /\ DOMAIN results = 1..Len(results)
           /\ Len(submissions) \in Nat /\ DOMAIN submissions = 1..Len(submissions)
BY DEF Histories

\* A step that neither sends nor ends anything, before the first attempt.
LEMMA QuietStep ==
    ASSUME IInv, UNCHANGED <<submissions, results, verified, input>>,
           pc # "poll", input = "minimal", pc' # "poll"
    PROVE  IInv'
BY DEF IInv, Histories, Attempts, Polled, SuccessIsVerified, FailureIsFinal, NoUnrelatedSources, own

\* What a submission adds to the history: it is the task's own, and if it holds the full input
\* the minimal one was refused.
LEMMA Arrival ==
    ASSUME IInv, UNCHANGED submissions \/ (arrives /\ pc = "submit")
    PROVE  /\ \E S : submissions' \in Seq(S)
           /\ DOMAIN submissions \subseteq DOMAIN submissions'
           /\ \A j \in DOMAIN submissions : submissions'[j] = submissions[j]
           /\ \A j \in DOMAIN submissions' \ DOMAIN submissions :
                submissions'[j].task = Len(results) + 1 /\ isSubmission(submissions'[j])
           /\ NoUnrelatedSources'
<1> USE DEF IInv
<1>1. CASE UNCHANGED submissions
      BY <1>1 DEF Histories, NoUnrelatedSources
<1>2. CASE arrives /\ pc = "submit"
  <2>1. PICK S : submissions \in Seq(S)
        BY DEF Histories
  <2>2. PICK sent : /\ submissions' = Append(submissions, sent)
                    /\ sent.task = Len(results) + 1 /\ sent.input = input /\ isSubmission(sent)
        BY <1>2 DEF arrives, isSubmission
  <2> DEFINE n == Len(submissions)
  <2>3. /\ \E T : submissions' \in Seq(T)
        /\ n \in Nat /\ DOMAIN submissions = 1..n
        /\ DOMAIN submissions' = 1..(n + 1)
        /\ \A j \in DOMAIN submissions : submissions'[j] = submissions[j]
        /\ submissions'[n + 1] = sent
    <3>1. submissions' = Append(submissions, sent)
          BY <2>2
    <3>2. n \in Nat /\ DOMAIN submissions = 1..n
          BY <2>1
    <3>3. DOMAIN submissions' = 1..(n + 1)
          BY <2>1, <3>1, AppendFacts
    <3>4. \A j \in DOMAIN submissions : submissions'[j] = submissions[j]
          BY <2>1, <3>1, AppendFacts
    <3>5. submissions'[n + 1] = sent
          BY <2>1, <3>1, AppendFacts
    <3>6. \E T : submissions' \in Seq(T)
          BY <2>1, <3>1, AppendFacts
    <3> QED BY <3>2, <3>3, <3>4, <3>5, <3>6
  <2>5. DOMAIN submissions' \ DOMAIN submissions = {n + 1}
        BY <2>3
  <2>6. ASSUME NEW j \in DOMAIN submissions', submissions'[j].input = "full"
        PROVE  /\ \E i \in 1..(j - 1) : submissions'[i].task = submissions'[j].task
               /\ \A i \in 1..(j - 1) : submissions'[i].task = submissions'[j].task =>
                     submissions'[i].input = "minimal" /\ submissions'[i].status = "fail"
    <3>1. CASE j \in DOMAIN submissions
          BY <3>1, <2>3, <2>6 DEF NoUnrelatedSources
    <3>2. CASE j = n + 1
      <4>1. input = "full" /\ submissions'[j].task = Len(results) + 1
            BY <3>2, <2>3, <2>2, <2>6
      <4>2. 1..(j - 1) = DOMAIN submissions
            BY <3>2, <2>3
      <4> QED BY <4>1, <4>2, <1>2, <2>3 DEF Attempts, own
    <3> QED BY <3>1, <3>2, <2>5
  <2>7. NoUnrelatedSources'
        BY <2>6 DEF NoUnrelatedSources
  <2>8. \A j \in DOMAIN submissions' \ DOMAIN submissions :
            submissions'[j].task = Len(results) + 1 /\ isSubmission(submissions'[j])
        BY <2>2, <2>3, <2>5
  <2>9. DOMAIN submissions \subseteq DOMAIN submissions'
        BY <2>3
  <2> QED BY <2>3, <2>7, <2>8, <2>9
<1> QED BY <1>1, <1>2

\* The task ends; what it reports agrees with what it has sent.
LEMMA EndingStep ==
    ASSUME IInv, NEW STATE addr, NEW STATE outcome, endFor(addr, outcome), UNCHANGED verified,
           UNCHANGED submissions \/ (arrives /\ pc = "submit"),
           outcome = "alreadyVerified" => addr \in verified,
           outcome = "verified" => \E j \in DOMAIN submissions :
                own(j) /\ submissions[j].address = addr /\ submissions[j].status = "pass",
           outcome \in Errors \ MayStillSucceed => /\ UNCHANGED submissions
                                                   /\ \A j \in DOMAIN submissions :
                                                         own(j) => submissions[j].status = "fail"
    PROVE  IInv'
<1> USE DEF IInv
<1> DEFINE n == Len(results)
<1>1. /\ \E R : results' \in Seq(R)
      /\ n \in Nat /\ DOMAIN results = 1..n
      /\ Len(results') = n + 1 /\ DOMAIN results' = 1..(n + 1)
      /\ \A i \in DOMAIN results : results'[i] = results[i]
      /\ results'[n + 1] = <<addr, outcome>>
  <2>1. PICK R : results \in Seq(R)
        BY DEF Histories
  <2>2. results' = Append(results, <<addr, outcome>>)
        BY DEF endFor
  <2> QED BY <2>1, <2>2, AppendFacts
<1>2. /\ \E S : submissions' \in Seq(S)
      /\ DOMAIN submissions \subseteq DOMAIN submissions'
      /\ \A j \in DOMAIN submissions : submissions'[j] = submissions[j]
      /\ \A j \in DOMAIN submissions' \ DOMAIN submissions :
            submissions'[j].task = n + 1 /\ isSubmission(submissions'[j])
      /\ NoUnrelatedSources'
      BY Arrival
<1>3. \A j \in DOMAIN submissions' :
          /\ submissions'[j].task \in Nat /\ submissions'[j].task <= n + 1
          /\ isSubmission(submissions'[j])
      BY <1>1, <1>2 DEF Histories
<1>4. Histories'
      BY <1>1, <1>2, <1>3 DEF Histories
<1>5. Attempts' /\ Polled'
  <2>1. \A j \in DOMAIN submissions' : submissions'[j].task # Len(results') + 1
        BY <1>1, <1>3
  <2>2. pc' = "idle" /\ input' = "minimal"
        BY DEF endFor
  <2> QED BY <2>1, <2>2 DEF Attempts, Polled, own
<1>6. SuccessIsVerified'
  <2>1. ASSUME NEW i \in DOMAIN results', results'[i][2] = "alreadyVerified"
        PROVE  results'[i][1] \in verified'
    <3>1. CASE i \in DOMAIN results
          BY <3>1, <2>1, <1>1 DEF SuccessIsVerified
    <3>2. CASE i = n + 1
          BY <3>2, <2>1, <1>1
    <3> QED BY <3>1, <3>2, <1>1
  <2>2. ASSUME NEW i \in DOMAIN results', results'[i][2] = "verified"
        PROVE  \E j \in DOMAIN submissions' :
                  submissions'[j].task = i /\ submissions'[j].address = results'[i][1] /\ submissions'[j].status = "pass"
    <3>1. CASE i \in DOMAIN results
          BY <3>1, <2>2, <1>1, <1>2 DEF SuccessIsVerified
    <3>2. CASE i = n + 1
          BY <3>2, <2>2, <1>1, <1>2 DEF own
    <3> QED BY <3>1, <3>2, <1>1
  <2> QED BY <2>1, <2>2 DEF SuccessIsVerified
<1>7. FailureIsFinal'
  <2> SUFFICES ASSUME NEW i \in DOMAIN results', results'[i][2] \in Errors \ MayStillSucceed,
                      NEW j \in DOMAIN submissions', submissions'[j].task = i
               PROVE  submissions'[j].status \in {"fail", "already"}
        BY DEF FailureIsFinal
  <2>1. CASE i \in DOMAIN results
        BY <2>1, <1>1, <1>2 DEF FailureIsFinal
  <2>2. CASE i = n + 1
        BY <2>2, <1>1, <1>2 DEF own
  <2> QED BY <2>1, <2>2, <1>1
<1> QED BY <1>2, <1>4, <1>5, <1>6, <1>7

\* A task that ends before it sends anything may report any error.
LEMMA EarlyEnd ==
    ASSUME IInv, NEW STATE addr, NEW STATE outcome, endFor(addr, outcome), UNCHANGED explorerVars,
           pc \notin {"submit", "poll"}, outcome \notin {"verified", "alreadyVerified"}
    PROVE  IInv'
<1>1. \A j \in DOMAIN submissions : ~own(j)
      BY DEF IInv, Attempts
<1>2. UNCHANGED submissions /\ UNCHANGED verified
      BY DEF explorerVars
<1> QED BY <1>1, <1>2, EndingStep

-----------------------------------------------------------------------------
\* What an error is called is never what a success is called.
NoSuccess(name) == name \notin {"verified", "alreadyVerified"}

\* Nor, outside of the lookup, what a contract without an artifact is reported with.
OtherError(name) == name \notin {"verified", "alreadyVerified", "DeployedBytecodeMismatchError"}

\* The errors of `new Etherscan` and of the configured compilers.
LEMMA SetupErrors == OtherError(connectionError(network)) /\ OtherError(getCompilerVersions.error)
<1>1. OtherError(getCurrentChainConfig(network).error)
      BY DEF getCurrentChainConfig, OtherError, result, throws
<1>2. OtherError(resolveApiKey(getCurrentChainConfig(network).value).error)
      BY DEF resolveApiKey, OtherError, result, throws
<1>3. OtherError(getCompilerVersions.error)
      BY DEF getCompilerVersions, OtherError, result, throws
<1> QED BY <1>1, <1>2, <1>3 DEF connectionError

\* The error of the first of three checks that fails is one of theirs.
LEMMA FirstOfThree ==
    ASSUME NEW a, NEW b, NEW c, OtherError(a.error), OtherError(b.error), OtherError(c.error)
    PROVE  OtherError(firstError(<<a, b, c>>))
<1> DEFINE checks == <<a, b, c>>
           failed == {i \in DOMAIN checks : checks[i].error # ""}
<1>1. CASE failed = {}
      BY <1>1 DEF firstError, OtherError
<1>2. CASE failed # {}
  <2>1. DOMAIN checks = {1, 2, 3}
        OBVIOUS
  <2>2. \E x \in failed : \A y \in failed : x <= y
    <3>1. failed \subseteq {1, 2, 3}
          BY <2>1
    <3> HIDE DEF failed
    <3>2. CASE 1 \in failed
          BY <3>1, <3>2
    <3>3. CASE 1 \notin failed /\ 2 \in failed
          BY <3>1, <3>3
    <3>4. CASE failed = {3}
          BY <3>4
    <3> QED BY <1>2, <3>1, <3>2, <3>3, <3>4
  <2>3. Min(failed) \in failed
    <3> HIDE DEF failed
    <3> QED BY <2>2 DEF Min
  <2>4. \A i \in {1, 2, 3} : OtherError(checks[i].error)
        OBVIOUS
  <2>5. firstError(checks) = checks[Min(failed)].error
        BY <1>2 DEF firstError
  <2> QED BY <2>1, <2>3, <2>4, <2>5
<1> QED BY <1>1, <1>2

\* The errors of both entries' argument checks.
LEMMA ArgumentChecks == \A error \in taskErrors \cup subtaskErrors : OtherError(error)
<1>1. ASSUME NEW addr, NEW contract
      PROVE  OtherError(checkAddressAndName(addr, contract).error)
      BY DEF checkAddressAndName, OtherError, result, throws
<1>2. ASSUME NEW params, NEW ctor
      PROVE  OtherError(resolveConstructorArguments(params, ctor).error)
      BY DEF resolveConstructorArguments, OtherError, result, throws
<1>3. ASSUME NEW libs, NEW exported
      PROVE  OtherError(resolveLibraries(libs, exported).error)
      BY DEF resolveLibraries, OtherError, result, throws
<1>4. ASSUME NEW right, NEW error, OtherError(error)
      PROVE  OtherError((IF right THEN result(<<>>) ELSE throws(error)).error)
      BY <1>4 DEF OtherError, result, throws
<1>5. ASSUME NEW error \in taskErrors PROVE OtherError(error)
  <2> DEFINE outcome(addr, contract, params, ctor, libs) ==
                firstError(<<checkAddressAndName(addr, contract), resolveConstructorArguments(params, ctor),
                             resolveLibraries(libs, <<>>)>>)
             outcomes == {outcome(addr, contract, params, ctor, libs) :
                addr \in {"undefined", "malformed", "0x"}, contract \in {noName, unqualified},
                params \in BOOLEAN, ctor \in Modules, libs \in Modules}
  <2>1. error \in outcomes
        BY <1>5 DEF taskErrors
  <2>2. ASSUME NEW addr, NEW contract, NEW params, NEW ctor, NEW libs
        PROVE  OtherError(outcome(addr, contract, params, ctor, libs))
        BY <1>1, <1>2, <1>3, FirstOfThree
  <2> HIDE DEF outcome
  <2> QED BY <2>1, <2>2
<1>6. ASSUME NEW error \in subtaskErrors PROVE OtherError(error)
  <2> DEFINE outcome(addr, contract, array, object) ==
                firstError(<<checkAddressAndName(addr, contract),
                             IF array THEN result(<<>>) ELSE throws("InvalidConstructorArgumentsError"),
                             IF object THEN result(<<>>) ELSE throws("InvalidLibrariesError")>>)
             outcomes == {outcome(addr, contract, array, object) :
                addr \in {"undefined", "malformed", "0x"}, contract \in {noName, unqualified},
                array \in BOOLEAN, object \in BOOLEAN}
  <2>1. error \in outcomes
        BY <1>6 DEF subtaskErrors
  <2>2. OtherError("InvalidConstructorArgumentsError") /\ OtherError("InvalidLibrariesError")
        BY DEF OtherError
  <2>3. ASSUME NEW addr, NEW contract, NEW array, NEW object
        PROVE  OtherError(outcome(addr, contract, array, object))
        BY <1>1, <1>4, <2>2, FirstOfThree
  <2> HIDE DEF outcome
  <2> QED BY <2>1, <2>3
<1> QED BY <1>5, <1>6

\* The errors of the lookup of the contract.
LEMMA LookupErrors ==
    /\ \A name : NoSuccess(namedContract(name).error)
    /\ \A versions, code : NoSuccess(extractInferredContractInformation(versions, code).error)
<1>1. ASSUME NEW name PROVE NoSuccess(namedContract(name).error)
      BY DEF namedContract, NoSuccess, result, throws
<1>2. ASSUME NEW versions, NEW code
      PROVE  NoSuccess(extractInferredContractInformation(versions, code).error)
      BY DEF extractInferredContractInformation, NoSuccess, result, throws
<1> QED BY <1>1, <1>2

\* The errors of the lookup of its libraries.
LEMMA LinkingErrors ==
    ASSUME NEW fqn, NEW userLibraries, NEW code
    PROVE  OtherError(getLibraryInformation(fqn, userLibraries, code).error)
<1>1. ASSUME NEW libs, NEW user, NEW i
      PROVE  OtherError(entryError(libs, user, i))
  <2>1. ASSUME NEW k PROVE OtherError(lookupLibrary(libs, user[k].name).error)
        BY DEF lookupLibrary, OtherError, result, throws
  <2> QED BY <2>1 DEF entryError, OtherError
<1>2. ASSUME NEW libs, NEW user
      PROVE  OtherError(normalizeLibraries(libs, user).error)
  <2> DEFINE wrong == {i \in DOMAIN user : entryError(libs, user, i) # ""}
  <2>1. OtherError(entryError(libs, user, Min(wrong)))
        BY <1>1
  <2>2. normalizeLibraries(libs, user).error \in {"", entryError(libs, user, Min(wrong))}
        BY DEF normalizeLibraries, result, throws
  <2> QED BY <2>1, <2>2 DEF OtherError
<1>3. ASSUME NEW normalized, NEW detected
      PROVE  OtherError(mergeLibraries(normalized, detected).error)
      BY DEF mergeLibraries, OtherError, result, throws
<1>4. OtherError(throws("MissingLibrariesError").error)
      BY DEF OtherError, throws
<1> QED BY <1>2, <1>3, <1>4 DEF getLibraryInformation

-----------------------------------------------------------------------------
\* The task begins, or ends for want of a network or an API key.
LEMMA BeginStep ==
    ASSUME IInv, NEW STATE addr, NEW STATE given, beginFor(addr, given), pc = "idle", UNCHANGED explorerVars
    PROVE  IInv'
<1>1. CASE connectionError(network) # ""
  <2>1. endFor(addr, connectionError(network))
        BY <1>1 DEF beginFor
  <2> QED BY <2>1, EarlyEnd, SetupErrors DEF OtherError
<1>2. CASE connectionError(network) = ""
      BY <1>2, QuietStep DEF beginFor, explorerVars, IInv, Attempts
<1> QED BY <1>1, <1>2

\* A submission arrives and is polled from then on.
LEMMA SubmitStep ==
    ASSUME IInv, Submit
    PROVE  IInv'
<1>1. CASE address \in verified
  <2>1. \A j \in DOMAIN submissions : own(j) => submissions[j].status = "fail"
        BY DEF Submit, IInv, Attempts
  <2>2. endFor(address, "HardhatVerifyError") /\ UNCHANGED submissions /\ UNCHANGED verified
        BY <1>1 DEF Submit, end
  <2> QED BY <2>1, <2>2, EndingStep
<1>2. CASE address \notin verified
  <2> USE DEF IInv
  <2>1. /\ arrives /\ pc = "submit" /\ pc' = "poll" /\ guid' = Len(submissions) + 1
        /\ UNCHANGED <<address, input, results, verified>>
        BY <1>2 DEF Submit
  <2>2. PICK S : submissions \in Seq(S)
        BY DEF Histories
  <2>3. PICK sent : /\ submissions' = Append(submissions, sent)
                    /\ sent.task = Len(results) + 1 /\ sent.input = input /\ sent.address = address
        BY <2>1 DEF arrives
  <2>4. /\ \E T : submissions' \in Seq(T)
        /\ DOMAIN submissions \subseteq DOMAIN submissions'
        /\ \A j \in DOMAIN submissions : submissions'[j] = submissions[j]
        /\ \A j \in DOMAIN submissions' \ DOMAIN submissions :
              submissions'[j].task = Len(results) + 1 /\ isSubmission(submissions'[j])
        /\ NoUnrelatedSources'
        BY <2>1, Arrival
  <2>5. guid' \in DOMAIN submissions' /\ submissions'[guid'] = sent
        BY <2>1, <2>2, <2>3, AppendFacts
  <2>6. DOMAIN submissions' = DOMAIN submissions \cup {guid'}
        BY <2>1, <2>2, <2>3, AppendFacts
  <2>7. Histories'
        BY <2>1, <2>4, HistoryFacts DEF Histories
  <2>8. Attempts'
        BY <2>1 DEF Attempts
  <2>9. Polled'
    <3>1. own(guid)' /\ submissions'[guid'].address = address' /\ submissions'[guid'].input = input'
          BY <2>1, <2>3, <2>5 DEF own
    <3>2. ASSUME NEW j \in DOMAIN submissions', own(j)', j # guid'
          PROVE  input' = "full" /\ submissions'[j].status = "fail"
          BY <3>2, <2>1, <2>4, <2>6 DEF Attempts, own
    <3> QED BY <3>1, <3>2, <2>5 DEF Polled
  <2>10. SuccessIsVerified'
         BY <2>1, <2>4 DEF SuccessIsVerified
  <2>11. FailureIsFinal'
    <3> SUFFICES ASSUME NEW i \in DOMAIN results, results[i][2] \in Errors \ MayStillSucceed,
                        NEW j \in DOMAIN submissions', submissions'[j].task = i
                 PROVE  submissions'[j].status \in {"fail", "already"}
          BY <2>1 DEF FailureIsFinal
    <3>1. i # Len(results) + 1
          BY HistoryFacts
    <3> QED BY <3>1, <2>4 DEF FailureIsFinal
  <2> QED BY <2>4, <2>7, <2>8, <2>9, <2>10, <2>11
<1> QED BY <1>1, <1>2

\* An answer to the poll: wait on, try the full input, or end.
LEMMA PollStep ==
    ASSUME IInv, Poll
    PROVE  IInv'
<1> USE DEF IInv
<1>1. /\ pc = "poll" /\ guid \in DOMAIN submissions /\ own(guid)
      /\ submissions[guid].address = address /\ submissions[guid].input = input
      /\ \A j \in DOMAIN submissions : own(j) /\ j # guid => input = "full" /\ submissions[j].status = "fail"
      BY DEF Poll, Polled
<1>2. UNCHANGED submissions /\ UNCHANGED verified /\ getVerificationStatus
      BY DEF Poll, explorerVars
<1>3. CASE isPending(submissions[guid].status)
  <2>1. UNCHANGED <<pc, address, input, guid, results>>
        BY <1>2, <1>3 DEF getVerificationStatus, taskVars
  <2> QED BY <1>2, <2>1 DEF Histories, Attempts, Polled, SuccessIsVerified, FailureIsFinal, NoUnrelatedSources, own
<1>4. CASE isFailure(submissions[guid].status) /\ input = "minimal"
  <2>1. input' = "full" /\ pc' = "submit" /\ UNCHANGED results
        BY <1>2, <1>4 DEF getVerificationStatus, afterFailure, isFailure, isPending
  <2>2. Attempts'
        BY <1>1, <1>2, <1>4, <2>1 DEF Attempts, own, isFailure
  <2> QED BY <1>2, <2>1, <2>2 DEF Histories, Polled, SuccessIsVerified, FailureIsFinal, NoUnrelatedSources
<1>5. CASE isFailure(submissions[guid].status) /\ input # "minimal"
  <2>1. endFor(address, "ContractVerificationFailedError")
        BY <1>2, <1>5 DEF getVerificationStatus, afterFailure, isFailure, isPending, end
  <2>2. \A j \in DOMAIN submissions : own(j) => submissions[j].status = "fail"
        BY <1>1, <1>5 DEF isFailure
  <2> QED BY <1>2, <2>1, <2>2, EndingStep
<1>6. CASE isSuccess(submissions[guid].status)
  <2>1. endFor(address, "verified")
        BY <1>2, <1>6 DEF getVerificationStatus, isSuccess, isFailure, isPending, end
  <2>2. "verified" \notin Errors
        BY DEF Errors, ArgumentErrors, NetworkErrors, SendingErrors, PollingErrors, BytecodeErrors, LibraryErrors,
               AttemptErrors
  <2> QED BY <1>1, <1>2, <1>6, <2>1, <2>2, EndingStep DEF isSuccess
<1>7. CASE /\ ~isPending(submissions[guid].status) /\ ~isFailure(submissions[guid].status)
           /\ ~isSuccess(submissions[guid].status)
  <2>1. endFor(address, "ContractStatusPollingResponseNotOkError")
        BY <1>2, <1>7 DEF getVerificationStatus, end
  <2>2. "ContractStatusPollingResponseNotOkError" \in MayStillSucceed
        BY DEF MayStillSucceed, PollingErrors
  <2> QED BY <1>2, <2>1, <2>2, EndingStep
<1> QED BY <1>3, <1>4, <1>5, <1>6, <1>7

\* A request of the attempt fails, or is answered by an error.
LEMMA AttemptFails ==
    ASSUME IInv, SubmissionRefused \/ SubmissionUnanswered \/ PollFails
    PROVE  IInv'
<1>1. CASE SubmissionRefused
  <2>1. PICK error \in {"ContractVerificationMissingBytecodeError", "HardhatVerifyError"} : endFor(address, error)
        BY <1>1 DEF SubmissionRefused, end
  <2>2. \A j \in DOMAIN submissions : own(j) => submissions[j].status = "fail"
        BY <1>1 DEF SubmissionRefused, IInv, Attempts
  <2>3. UNCHANGED submissions /\ UNCHANGED verified
        BY <1>1 DEF SubmissionRefused, explorerVars
  <2> QED BY <2>1, <2>2, <2>3, EndingStep
<1>2. CASE SubmissionUnanswered
  <2>1. PICK error \in {"ContractVerificationRequestError", "ContractVerificationInvalidStatusCodeError", "Error"} :
            endFor(address, error)
        BY <1>2 DEF SubmissionUnanswered, end
  <2>2. error \in MayStillSucceed
        BY DEF MayStillSucceed
  <2>3. (UNCHANGED submissions \/ (arrives /\ pc = "submit")) /\ UNCHANGED verified
        BY <1>2 DEF SubmissionUnanswered
  <2> QED BY <2>1, <2>2, <2>3, EndingStep
<1>3. CASE PollFails
  <2>1. PICK error \in PollingErrors \cup {"VerificationAPIUnexpectedMessageError", "Error"} : endFor(address, error)
        BY <1>3 DEF PollFails, end
  <2>2. error \in MayStillSucceed /\ error \notin {"verified", "alreadyVerified"}
        BY DEF MayStillSucceed, PollingErrors
  <2>3. UNCHANGED submissions /\ UNCHANGED verified
        BY <1>3 DEF PollFails, explorerVars
  <2> QED BY <2>1, <2>2, <2>3, EndingStep
<1> QED BY <1>1, <1>2, <1>3

\* The explorer takes a decision: one submission leaves the queue.
LEMMA DecisionStep ==
    ASSUME IInv, ExplorerDecides
    PROVE  IInv'
<1> USE DEF IInv
<1>1. UNCHANGED <<pc, address, input, guid, results>> /\ verified \subseteq verified'
      BY DEF ExplorerDecides, taskVars
<1>2. PICK i \in DOMAIN submissions, status \in {"already", "fail", "pass"} :
          submissions[i].status = "queued" /\ submissions' = [submissions EXCEPT ![i].status = status]
      BY DEF ExplorerDecides
<1>3. DOMAIN submissions' = DOMAIN submissions
      BY <1>2
<1>4. \A j \in DOMAIN submissions : submissions[j].status # "queued" => submissions'[j] = submissions[j]
      BY <1>2
<1>5. \A j \in DOMAIN submissions :
          /\ submissions'[j].task = submissions[j].task /\ submissions'[j].address = submissions[j].address
          /\ submissions'[j].input = submissions[j].input /\ isSubmission(submissions'[j])
  <2>1. ASSUME NEW j \in DOMAIN submissions, j # i
        PROVE  submissions'[j] = submissions[j]
        BY <1>2, <2>1
  <2>2. isSubmission(submissions[i])
        BY DEF Histories
  <2>3. /\ submissions'[i].task = submissions[i].task /\ submissions'[i].address = submissions[i].address
        /\ submissions'[i].input = submissions[i].input /\ isSubmission(submissions'[i])
        BY <1>2, <2>2 DEF isSubmission
  <2> QED BY <2>1, <2>3 DEF Histories
<1>6. Histories'
  <2>1. \E S : submissions' \in Seq(S)
    <3>1. PICK S : submissions \in Seq(S)
          BY DEF Histories
    <3> DEFINE decided == [submissions[i] EXCEPT !.status = status]
    <3>2. submissions' = [submissions EXCEPT ![i] = decided]
          BY <1>2
    <3>3. submissions \in Seq(S \cup {decided}) /\ decided \in S \cup {decided}
          BY <3>1
    <3> HIDE DEF decided
    <3> QED BY <3>2, <3>3, <1>2
  <2> QED BY <2>1, <1>1, <1>3, <1>5 DEF Histories
<1>7. Attempts'
      BY <1>1, <1>3, <1>4, <1>5 DEF Attempts, own
<1>8. Polled'
      BY <1>1, <1>3, <1>4, <1>5 DEF Polled, own
<1>9. SuccessIsVerified'
      BY <1>1, <1>3, <1>4, <1>5 DEF SuccessIsVerified
<1>10. FailureIsFinal'
      BY <1>1, <1>3, <1>4, <1>5 DEF FailureIsFinal
<1>11. NoUnrelatedSources'
  <2>1. \A j \in DOMAIN submissions : 1..(j - 1) \subseteq DOMAIN submissions
        BY HistoryFacts
  <2> QED BY <2>1, <1>3, <1>4, <1>5 DEF NoUnrelatedSources
<1> QED BY <1>6, <1>7, <1>8, <1>9, <1>10, <1>11

\* A step of the task before it sends anything.
LEMMA PreparationStep ==
    ASSUME IInv,
           \/ IsVerified \/ GetDeployedContractBytecode \/ GetContractInformation \/ GetLibraryInformation
           \/ PrepareAttempt \/ RequestFails
    PROVE  IInv'
<1>1. pc \in {"isVerified", "getCode", "lookup", "link", "encode"} /\ input = "minimal"
      BY DEF IsVerified, GetDeployedContractBytecode, GetContractInformation, GetLibraryInformation, PrepareAttempt,
             RequestFails, IInv, Attempts
<1>2. UNCHANGED explorerVars /\ UNCHANGED submissions /\ UNCHANGED verified
      BY DEF IsVerified, GetDeployedContractBytecode, GetContractInformation, GetLibraryInformation, PrepareAttempt,
             RequestFails, explorerVars
<1>3. ASSUME UNCHANGED <<input, results>>, pc' \in {"getCode", "lookup", "link", "encode", "submit"}
      PROVE  IInv'
      BY <1>1, <1>2, <1>3, QuietStep
<1>4. ASSUME NEW STATE error, endFor(address, error), NoSuccess(error)
      PROVE  IInv'
      BY <1>1, <1>2, <1>4, EarlyEnd DEF NoSuccess
<1>5. CASE IsVerified
  <2>1. CASE address \in verified /\ endFor(address, "alreadyVerified")
    <3>1. \A j \in DOMAIN submissions : ~own(j)
          BY <1>1 DEF IInv, Attempts
    <3> QED BY <3>1, <2>1, <1>2, EndingStep
  <2> QED BY <2>1, <1>3, <1>5 DEF IsVerified, end
<1>6. CASE GetDeployedContractBytecode
  <2>1. \/ endFor(address, getCompilerVersions.error)
        \/ endFor(address, "DeployedBytecodeNotFoundError")
        \/ endFor(address, "Error")
        \/ endFor(address, "CompilerVersionsMismatchError")
        \/ pc' = "lookup" /\ UNCHANGED <<input, results>>
        BY <1>6 DEF GetDeployedContractBytecode, end
  <2> QED BY <2>1, <1>3, <1>4, SetupErrors DEF NoSuccess, OtherError
<1>7. CASE GetContractInformation
  <2> DEFINE found == IF args.contract # noName THEN namedContract(args.contract)
                      ELSE extractInferredContractInformation(getMatchingVersions(bytecode, compilerVersions), bytecode)
  <2>1. endFor(address, found.error) \/ (pc' = "link" /\ UNCHANGED <<input, results>>)
        BY <1>7 DEF GetContractInformation, end
  <2>2. NoSuccess(found.error)
        BY LookupErrors
  <2> HIDE DEF found
  <2> QED BY <2>1, <2>2, <1>3, <1>4
<1>8. CASE GetLibraryInformation
  <2> DEFINE linked == getLibraryInformation(contractFQN, args.libraries, bytecode)
  <2>1. endFor(address, linked.error) \/ (pc' = "encode" /\ UNCHANGED <<input, results>>)
        BY <1>8 DEF GetLibraryInformation, end
  <2>2. NoSuccess(linked.error)
        BY LinkingErrors DEF NoSuccess, OtherError
  <2> HIDE DEF linked
  <2> QED BY <2>1, <2>2, <1>3, <1>4
<1>9. CASE PrepareAttempt
  <2>1. \/ \E error \in {"UnexpectedNumberOfFilesError", "ABIArgumentLengthError", "ABIArgumentTypeError",
                          "ABIArgumentOverflowError", "Error"} : endFor(address, error)
        \/ pc' = "submit" /\ UNCHANGED <<input, results>>
        BY <1>9 DEF PrepareAttempt, end, encodingError
  <2> QED BY <2>1, <1>3, <1>4 DEF NoSuccess
<1>10. CASE RequestFails
  <2>1. endFor(address, "Error")
        BY <1>10 DEF RequestFails, end
  <2> QED BY <2>1, <1>4 DEF NoSuccess
<1> QED BY <1>5, <1>6, <1>7, <1>8, <1>9, <1>10

\* A step of the script between its tasks.
LEMMA ScriptStep ==
    ASSUME IInv, StartScript \/ ScriptFails \/ ScriptEnds
    PROVE  IInv'
<1>1. pc = "idle" /\ UNCHANGED <<submissions, verified, pc, input, results>>
      BY DEF StartScript, ScriptFails, ScriptEnds, taskVars, explorerVars
<1> QED BY <1>1, QuietStep DEF IInv, Attempts

-----------------------------------------------------------------------------
\* IInv holds at first and is kept by every step.
THEOREM ReportsInvariant == Spec => []IInv
<1>1. Init => IInv
  <2> SUFFICES ASSUME Init PROVE IInv
        OBVIOUS
  <2>1. results = <<>> /\ submissions = <<>> /\ pc = "idle" /\ input = "minimal"
        BY DEF Init
  <2>2. results \in Seq({}) /\ submissions \in Seq({}) /\ DOMAIN results = {} /\ DOMAIN submissions = {}
        BY <2>1
  <2> QED BY <2>1, <2>2 DEF IInv, Histories, Attempts, Polled, SuccessIsVerified, FailureIsFinal, NoUnrelatedSources
<1>2. IInv /\ [Next]_vars => IInv'
  <2> SUFFICES ASSUME IInv, [Next]_vars PROVE IInv'
        OBVIOUS
  <2>1. CASE StartTask
    <3>1. pc = "idle" /\ UNCHANGED explorerVars
          BY <2>1 DEF StartTask
    <3>2. CASE \E error \in (taskErrors \cup subtaskErrors) \ {""} : endFor("", error)
          BY <3>1, <3>2, ArgumentChecks, EarlyEnd DEF OtherError
    <3>3. CASE \E addr \in Addresses, given \in UserArgs : beginFor(addr, given)
          BY <3>1, <3>3, BeginStep
    <3> QED BY <2>1, <3>2, <3>3 DEF StartTask
  <2>2. CASE ScriptVerifies
        BY <2>2, BeginStep DEF ScriptVerifies
  <2>3. CASE StartScript \/ ScriptFails \/ ScriptEnds
        BY <2>3, ScriptStep
  <2>4. CASE \/ IsVerified \/ GetDeployedContractBytecode \/ GetContractInformation \/ GetLibraryInformation
             \/ PrepareAttempt \/ RequestFails
        BY <2>4, PreparationStep
  <2>5. CASE Submit
        BY <2>5, SubmitStep
  <2>6. CASE Poll
        BY <2>6, PollStep
  <2>7. CASE SubmissionRefused \/ SubmissionUnanswered \/ PollFails
        BY <2>7, AttemptFails
  <2>8. CASE ExplorerDecides
        BY <2>8, DecisionStep
  <2>9. CASE UNCHANGED vars
        BY <2>9 DEF vars, taskVars, explorerVars, IInv, Histories, Attempts, Polled, SuccessIsVerified, FailureIsFinal,
               NoUnrelatedSources, own
  <2> QED BY <2>1, <2>2, <2>3, <2>4, <2>5, <2>6, <2>7, <2>8, <2>9 DEF Next, Proceeds, Fails
<1> QED BY <1>1, <1>2, PTL DEF Spec

\* "Successfully verified contract ..." is said only of a submission of the same task that passed,
\* "already been verified" only of a contract that was (verify1-task.ts), whatever is on chain,
\* whatever artifacts there are and however many tasks and script runs there were before.
THEOREM SuccessMeansVerified == Spec => []SuccessIsVerified
<1>1. IInv => SuccessIsVerified
      BY DEF IInv
<1> QED BY <1>1, ReportsInvariant, PTL

\* After an error that is no cut-off request or unknown answer, nothing the task sent is undecided
\* or has passed (getVerificationStatus, attemptVerification).
THEOREM FailureMeansDecided == Spec => []FailureIsFinal
<1>1. IInv => FailureIsFinal
      BY DEF IInv
<1> QED BY <1>1, ReportsInvariant, PTL

\* The full compiler input is sent once at most, and only after the explorer refused the minimal
\* one (the two attempts of TASK_VERIFY_ETHERSCAN).
THEOREM FullInputIsTheLastResort == Spec => []NoUnrelatedSources
<1>1. IInv => NoUnrelatedSources
      BY DEF IInv
<1> QED BY <1>1, ReportsInvariant, PTL

-----------------------------------------------------------------------------
(* The comparison of bytecodes says what it should: equal outside of the   *)
(* bytes that are only known on chain.                                     *)

\* The smaller and the larger of two numbers.
LEMMA MinMaxOfTwo ==
    ASSUME NEW a \in Int, NEW b \in Int
    PROVE  /\ a <= b => Min({a, b}) = a /\ Max({a, b}) = b
           /\ b <= a => Min({a, b}) = b /\ Max({a, b}) = a
BY DEF Min, Max

\* s is the beginning of t.
Begins(s, t) == Len(s) <= Len(t) /\ \A i \in 1..Len(s) : s[i] = t[i]

\* A slice from the beginning, and the one a non-negative end makes.
LEMMA SliceTo ==
    ASSUME NEW S, NEW s \in Seq(S), NEW stop \in Int
    PROVE  /\ sliceTo(s, stop) \in Seq(S) /\ Begins(sliceTo(s, stop), s)
           /\ stop >= 0 /\ stop <= Len(s) => Len(sliceTo(s, stop)) = stop
           /\ stop >= Len(s) => Len(sliceTo(s, stop)) = Len(s)
<1> DEFINE n == IF stop >= 0 THEN Min({stop, Len(s)}) ELSE Max({0, Len(s) + stop})
<1>1. Len(s) \in Nat
      OBVIOUS
<1>2. /\ n \in 0..Len(s)
      /\ stop >= 0 /\ stop <= Len(s) => n = stop
      /\ stop >= Len(s) => n = Len(s)
  <2>1. CASE stop >= 0
    <3>1. n = Min({stop, Len(s)})
          BY <2>1
    <3> HIDE DEF n
    <3> QED BY <1>1, <2>1, <3>1, MinMaxOfTwo
  <2>2. CASE ~(stop >= 0)
    <3>1. n = Max({0, Len(s) + stop})
          BY <2>2
    <3>2. 0 \in Int /\ Len(s) + stop \in Int
          BY <1>1
    <3>3. n = 0 \/ (n = Len(s) + stop /\ 0 <= n)
      <4>1. PICK x \in Int : x = Len(s) + stop
            BY <3>2
      <4>2. n = Max({0, x})
            BY <3>1, <4>1
      <4>3. (0 <= x => Max({0, x}) = x) /\ (x <= 0 => Max({0, x}) = 0)
        <5>1. PICK none \in Int : none = 0
              OBVIOUS
        <5>2. /\ none <= x => Max({none, x}) = x
              /\ x <= none => Max({none, x}) = none
              BY ONLY MinMaxOfTwo, none \in Int, x \in Int
        <5> QED BY ONLY <5>1, <5>2
      <4> HIDE DEF n
      <4> QED BY <4>1, <4>2, <4>3
    <3> HIDE DEF n
    <3> QED BY <1>1, <2>2, <3>3
  <2> QED BY <2>1, <2>2
<1>3. sliceTo(s, stop) = SubSeq(s, 1, n)
      BY DEF sliceTo
<1> HIDE DEF n
<1> QED BY <1>1, <1>2, <1>3 DEF Begins

\* A slice to the end.
LEMMA SliceFrom ==
    ASSUME NEW S, NEW s \in Seq(S), NEW k \in 0..Len(s)
    PROVE  /\ sliceFrom(s, k) \in Seq(S) /\ Len(sliceFrom(s, k)) = Len(s) - k
           /\ \A i \in 1..Len(s) - k : sliceFrom(s, k)[i] = s[i + k]
<1>1. Len(s) \in Nat
      OBVIOUS
<1>2. CASE k = Len(s)
  <2>1. sliceFrom(s, k) = <<>>
        BY <1>1, <1>2 DEF sliceFrom
  <2> QED BY <1>1, <1>2, <2>1
<1>3. CASE k < Len(s)
      BY <1>1, <1>3 DEF sliceFrom
<1> QED BY <1>1, <1>2, <1>3

\* A byte that an offset covers.
covers(o, i) == o.start < i /\ i <= o.start + o.length

\* The offset lies within a code of that length.
within(o, n) == o.start \in Nat /\ o.length \in Nat /\ o.start + o.length <= n

\* A code with zeros wherever one of the offsets covers it.
Blanked(b, offsets) == [i \in 1..Len(b) |-> IF \E o \in offsets : covers(o, i) THEN 0 ELSE b[i]]

LEMMA BlankedType ==
    ASSUME NEW S, 0 \in S, NEW b \in Seq(S), NEW offsets
    PROVE  Blanked(b, offsets) \in Seq(S) /\ Len(Blanked(b, offsets)) = Len(b)
<1>1. \A i \in 1..Len(b) : b[i] \in S
      OBVIOUS
<1>2. \A i \in 1..Len(b) : (IF \E o \in offsets : covers(o, i) THEN 0 ELSE b[i]) \in S
      BY <1>1
<1>3. Blanked(b, offsets) \in [1..Len(b) -> S]
      BY <1>2 DEF Blanked
<1>4. Len(b) \in Nat
      OBVIOUS
<1> QED BY <1>3, <1>4

\* Nullifying one offset within the code blanks what it covers.
LEMMA NullifiedOne ==
    ASSUME NEW S, 0 \in S, NEW b \in Seq(S), NEW o, within(o, Len(b))
    PROVE  /\ nullified(b, o) \in Seq(S) /\ Len(nullified(b, o)) = Len(b)
           /\ \A i \in 1..Len(b) : /\ covers(o, i) => nullified(b, o)[i] = 0
                                   /\ ~covers(o, i) => nullified(b, o)[i] = b[i]
<1>1. PICK st \in Nat, ln \in Nat, m \in 0..Len(b) : st = o.start /\ ln = o.length /\ m = st + ln
      BY DEF within
<1> DEFINE p == sliceTo(b, st)
           z == [i \in 1..ln |-> 0]
           q == sliceFrom(b, m)
<1>2. p \in Seq(S) /\ Len(p) = st /\ \A i \in 1..st : p[i] = b[i]
      BY <1>1, SliceTo DEF Begins
<1>3. z \in Seq(S) /\ Len(z) = ln /\ \A i \in 1..ln : z[i] = 0
  <2>1. z \in [1..ln -> S]
        OBVIOUS
  <2> QED BY <2>1
<1>4. q \in Seq(S) /\ Len(q) = Len(b) - m /\ \A i \in 1..Len(b) - m : q[i] = b[i + m]
      BY SliceFrom
<1>5. nullified(b, o) = (p \o z) \o q
      BY <1>1 DEF nullified
<1> HIDE DEF p, z, q
<1>6. /\ p \o z \in Seq(S) /\ Len(p \o z) = Len(p) + Len(z)
      /\ \A i \in 1..Len(p) + Len(z) : (p \o z)[i] = IF i <= Len(p) THEN p[i] ELSE z[i - Len(p)]
      <2>1. p \in Seq(S) /\ z \in Seq(S)
            BY <1>2, <1>3
      <2> QED BY <2>1, Concatenation
<1>7. PICK r \in Seq(S) : /\ r = p \o z /\ Len(r) = m
                          /\ \A i \in 1..m : r[i] = IF i <= st THEN p[i] ELSE z[i - st]
  <2>1. Len(p) = st /\ Len(z) = ln /\ m = st + ln
        BY <1>1, <1>2, <1>3
  <2>2. /\ p \o z \in Seq(S) /\ Len(p \o z) = m
        /\ \A i \in 1..m : (p \o z)[i] = IF i <= st THEN p[i] ELSE z[i - st]
        BY <1>6, <2>1
  <2> QED BY <2>2
<1>8. Len(b) \in Nat
      OBVIOUS
<1>9. /\ r \o q \in Seq(S) /\ Len(r \o q) = Len(b)
      /\ \A i \in 1..Len(b) : (r \o q)[i] = IF i <= m THEN r[i] ELSE q[i - m]
  <2>1. r \in Seq(S) /\ q \in Seq(S)
        BY <1>4
  <2>2. /\ r \o q \in Seq(S) /\ Len(r \o q) = Len(r) + Len(q)
        /\ \A i \in 1..Len(r) + Len(q) : (r \o q)[i] = IF i <= Len(r) THEN r[i] ELSE q[i - Len(r)]
        BY <2>1, Concatenation
  <2>3. Len(r) = m /\ Len(q) = Len(b) - m
        BY <1>4, <1>7
  <2>4. Len(r) + Len(q) = Len(b)
        BY <2>3, <1>8
  <2> QED BY <2>2, <2>3, <2>4
<1>10. ASSUME NEW i \in 1..Len(b)
       PROVE  /\ covers(o, i) => (r \o q)[i] = 0
              /\ ~covers(o, i) => (r \o q)[i] = b[i]
  <2>1. PICK l \in Nat, x \in 1..Len(b) : l = Len(b) /\ x = i
        BY <1>8
  <2>2. /\ st \in Int /\ m \in Int /\ ln \in Int /\ l \in Int /\ x \in Int
        /\ 0 <= m /\ m <= l /\ 1 <= x /\ x <= l /\ m = st + ln /\ 0 <= ln
        BY <1>1, <2>1
  <2>3. covers(o, i) <=> st < x /\ x <= m
        BY <1>1, <2>1 DEF covers
  <2>4. (x <= m => (r \o q)[i] = r[x]) /\ (~(x <= m) => (r \o q)[i] = q[x - m])
        BY <1>9, <2>1
  <2>5. CASE x <= st
    <3>1. x \in 1..st /\ x <= m /\ x \in 1..m
          BY <2>2, <2>5
    <3> QED BY <1>2, <1>7, <2>1, <2>2, <2>3, <2>4, <2>5, <3>1
  <2>6. CASE st < x /\ x <= m
    <3>1. x - st \in 1..ln /\ x \in 1..m /\ ~(x <= st)
          BY <2>2, <2>6
    <3>2. r[x] = z[x - st]
          BY <1>7, <3>1
    <3> QED BY <1>3, <2>3, <2>4, <2>6, <3>1, <3>2
  <2>7. CASE m < x
    <3>1. x - m \in 1..l - m /\ x - m + m = x /\ ~(x <= m) /\ ~covers(o, i)
          BY <2>2, <2>3, <2>7
    <3> QED BY <1>4, <2>1, <2>4, <3>1
  <2>8. x <= st \/ (st < x /\ x <= m) \/ m < x
        BY <2>2
  <2> QED BY <2>5, <2>6, <2>7, <2>8
<1> QED BY <1>5, <1>7, <1>9, <1>10

\* Blanking one offset more is nullifying it afterwards.
LEMMA BlankedStep ==
    ASSUME NEW S, 0 \in S, NEW b \in Seq(S), NEW offsets, NEW o \in offsets, within(o, Len(b))
    PROVE  Blanked(b, offsets) = nullified(Blanked(b, offsets \ {o}), o)
<1>1. PICK c \in Seq(S) : c = Blanked(b, offsets \ {o})
      BY BlankedType
<1>2. Len(c) = Len(b) /\ \A i \in 1..Len(b) : c[i] = IF \E x \in offsets \ {o} : covers(x, i) THEN 0 ELSE b[i]
      BY <1>1, BlankedType DEF Blanked
<1>3. PICK d \in Seq(S) : d = nullified(c, o)
      BY <1>2, NullifiedOne
<1>4. /\ Len(d) = Len(b)
      /\ \A i \in 1..Len(b) : /\ covers(o, i) => d[i] = 0
                              /\ ~covers(o, i) => d[i] = c[i]
      BY <1>2, <1>3, NullifiedOne
<1>5. PICK e \in Seq(S) : e = Blanked(b, offsets)
      BY BlankedType
<1>6. Len(e) = Len(b) /\ \A i \in 1..Len(b) : e[i] = IF \E x \in offsets : covers(x, i) THEN 0 ELSE b[i]
      BY <1>5, BlankedType DEF Blanked
<1>7. ASSUME NEW i \in 1..Len(b) PROVE d[i] = e[i]
      BY <1>2, <1>4, <1>6
<1>8. d = e
      BY <1>4, <1>6, <1>7
<1> QED BY <1>1, <1>3, <1>5, <1>8

\* A solution of the recursion by which FoldSet nullifies a set of offsets.
Nullifies(g, b, offsets) ==
    g = [s \in SUBSET offsets |-> IF s = {} THEN b ELSE nullified(g[s \ {Chosen(s)}], Chosen(s))]

\* The fold of nullifyBytecodeOffsets.
nullifyAll(b, offsets) == FoldSet(LAMBDA offset, c : nullified(c, offset), b, offsets)

\* Nullifying a set of offsets, in whatever order FoldSet takes them, blanks what they cover.
LEMMA NullifyAll ==
    ASSUME NEW S, 0 \in S, NEW b \in Seq(S), NEW offsets, IsFiniteSet(offsets),
           \A o \in offsets : within(o, Len(b))
    PROVE  nullifyAll(b, offsets) = Blanked(b, offsets)
<1> DEFINE h == [s \in SUBSET offsets |-> Blanked(b, s)]
           g == CHOOSE f : Nullifies(f, b, offsets)
<1>1. Blanked(b, {}) = b
  <2>1. PICK c \in Seq(S) : c = Blanked(b, {}) /\ Len(c) = Len(b)
        BY BlankedType
  <2>2. \A i \in 1..Len(b) : c[i] = b[i]
        BY <2>1 DEF Blanked
  <2> QED BY <2>1, <2>2
<1>2. ASSUME NEW s \in SUBSET offsets, s # {}
      PROVE  /\ Chosen(s) \in s /\ s \ {Chosen(s)} \in SUBSET offsets
             /\ Blanked(b, s) = nullified(Blanked(b, s \ {Chosen(s)}), Chosen(s))
  <2>1. PICK o \in s : o = Chosen(s)
        BY <1>2, ChosenIn
  <2>2. within(o, Len(b))
        BY <2>1
  <2> QED BY <2>1, <2>2, BlankedStep
<1>3. Nullifies(h, b, offsets)
  <2>1. ASSUME NEW s \in SUBSET offsets
        PROVE  h[s] = IF s = {} THEN b ELSE nullified(h[s \ {Chosen(s)}], Chosen(s))
        BY <1>1, <1>2
  <2>2. h = [s \in SUBSET offsets |-> h[s]]
        OBVIOUS
  <2> HIDE DEF h
  <2> QED BY <2>1, <2>2 DEF Nullifies
<1>4. Nullifies(g, b, offsets)
      BY <1>3
<1> DEFINE G == {s \in SUBSET offsets : g[s] = Blanked(b, s)}
<1> HIDE DEF g, h
<1>5. ASSUME NEW s \in SUBSET offsets
      PROVE  g[s] = IF s = {} THEN b ELSE nullified(g[s \ {Chosen(s)}], Chosen(s))
      BY <1>4 DEF Nullifies
<1>6. {} \in G
      BY <1>1, <1>5
<1>7. ASSUME NEW s \in SUBSET offsets, s # {}, s \ {Chosen(s)} \in G
      PROVE  s \in G
      BY <1>2, <1>5, <1>7
<1>8. offsets \in G
  <2> HIDE DEF G
  <2> QED BY <1>6, <1>7, SubsetInduction
<1>9. nullifyAll(b, offsets) = g[offsets]
      BY DEF nullifyAll, g, FoldSet, MapThenFoldSet, Nullifies, Chosen
<1>10. g[offsets] = Blanked(b, offsets)
       BY <1>8
<1> QED BY <1>9, <1>10

\* The sections compare works on: beginnings of the code and of the compiler's output.
LEMMA Sections ==
    ASSUME NEW code \in Seq(Nat), constructible(code), NEW fqName \in DOMAIN artifacts
    PROVE  LET object == artifacts[fqName].output.object
               section == _getExecutableSection(code)
               reference == inferExecutableSection(object)
           IN  /\ section \in Seq(Nat) /\ Begins(section, code)
               /\ reference \in Seq(Nat \cup {Placeholder}) /\ Begins(reference, object)
<1> DEFINE object == artifacts[fqName].output.object
           section == _getExecutableSection(code)
           reference == inferExecutableSection(object)
<1>1. section \in Seq(Nat) /\ Begins(section, code)
  <2>1. Len(code) \in Nat /\ Len(code) >= 2
        BY DEF constructible, readableLength, METADATA_LENGTH
  <2>2. getMetadataSectionLength(code) \in Nat
        BY <2>1 DEF getMetadataSectionLength, METADATA_LENGTH
  <2>3. PICK k \in Int : k = Len(code) - getMetadataSectionLength(code)
        BY <2>1, <2>2
  <2> QED BY <2>3, SliceTo DEF _getExecutableSection
<1>2. object \in Seq(Nat \cup {Placeholder})
      BY ArtifactsAssumption DEF wellFormed
<1>3. reference \in Seq(Nat \cup {Placeholder}) /\ Begins(reference, object)
  <2>1. Len(object) \in Nat /\ \A i \in 1..Len(object) : object[i] \in Nat \cup {Placeholder}
        BY <1>2
  <2>2. CASE Len(object) >= METADATA_LENGTH /\ Placeholder \notin {object[Len(object) - 1], object[Len(object)]}
    <3>1. object[Len(object) - 1] \in Nat /\ object[Len(object)] \in Nat
          BY <2>1, <2>2 DEF METADATA_LENGTH
    <3>2. getMetadataSectionLength(object) \in Nat
      <4> HIDE DEF object
      <4> QED BY <3>1 DEF getMetadataSectionLength, METADATA_LENGTH
    <3>3. PICK k \in Int : k = Len(object) - getMetadataSectionLength(object)
          BY <2>1, <3>2
    <3>4. reference = sliceTo(object, k)
          BY <2>2, <3>3 DEF inferExecutableSection, _getExecutableSection
    <3> HIDE DEF object, reference
    <3> QED BY <1>2, <3>4, SliceTo
  <2>3. CASE ~(Len(object) >= METADATA_LENGTH /\ Placeholder \notin {object[Len(object) - 1], object[Len(object)]})
    <3>1. reference = object
          BY <2>3 DEF inferExecutableSection
    <3> QED BY <1>2, <2>1, <3>1 DEF Begins
  <2> QED BY <2>2, <2>3
<1> QED BY <1>1, <1>3

\* The compiler left zeros where a library will hold its address.
LEMMA CallProtection ==
    ASSUME NEW S, NEW object \in Seq(S),
           sliceTo(object, AddressSize + 1) = <<PUSH20>> \o [i \in 1..AddressSize |-> 0]
    PROVE  /\ Len(object) > AddressSize /\ object[1] = PUSH20
           /\ \A i \in 2..AddressSize + 1 : object[i] = 0
<1> DEFINE zeros == [i \in 1..AddressSize |-> 0]
           head == <<PUSH20>>
<1>1. AddressSize \in Nat
      BY AddressSizeAssumption
<1>2. zeros \in Seq({PUSH20, 0}) /\ Len(zeros) = AddressSize /\ \A i \in 1..AddressSize : zeros[i] = 0
  <2>1. zeros \in [1..AddressSize -> {PUSH20, 0}]
        OBVIOUS
  <2> QED BY <1>1, <2>1
<1>3. head \in Seq({PUSH20, 0}) /\ Len(head) = 1 /\ head[1] = PUSH20
      OBVIOUS
<1> HIDE DEF zeros, head
<1>4. /\ Len(head \o zeros) = Len(head) + Len(zeros)
      /\ \A i \in 1..Len(head) + Len(zeros) :
            (head \o zeros)[i] = IF i <= Len(head) THEN head[i] ELSE zeros[i - Len(head)]
      BY <1>2, <1>3, Concatenation
<1>5. PICK p : p = head \o zeros /\ Len(p) = AddressSize + 1
      BY <1>1, <1>2, <1>3, <1>4
<1>6. p[1] = PUSH20 /\ \A i \in 2..AddressSize + 1 : p[i] = 0
  <2>1. p[1] = PUSH20
        BY <1>1, <1>2, <1>3, <1>4, <1>5
  <2>2. ASSUME NEW i \in 2..AddressSize + 1 PROVE p[i] = 0
    <3>1. i - 1 \in 1..AddressSize /\ ~(i <= 1) /\ i \in 1..1 + AddressSize
          BY <1>1
    <3> QED BY <1>2, <1>3, <1>4, <1>5, <3>1
  <2> QED BY <2>1, <2>2
<1>7. PICK k \in Int : k = AddressSize + 1 /\ k >= 1
      BY <1>1
<1>8. p = sliceTo(object, k) /\ Begins(p, object)
      BY <1>5, <1>7, SliceTo DEF head, zeros
<1>9. Len(object) \in Nat
      OBVIOUS
<1> QED BY <1>1, <1>5, <1>6, <1>7, <1>8, <1>9 DEF Begins

\* The first byte of a code that is not empty.
LEMMA FirstByte ==
    ASSUME NEW S, NEW s \in Seq(S), Len(s) >= 1
    PROVE  sliceTo(s, 1) = <<PUSH20>> <=> s[1] = PUSH20
<1>1. PICK t \in Seq(S) : t = sliceTo(s, 1) /\ Len(t) = 1 /\ t[1] = s[1]
  <2>1. PICK k \in Int : k = 1
        OBVIOUS
  <2>2. Len(s) \in Nat
        OBVIOUS
  <2>3. sliceTo(s, k) \in Seq(S) /\ Begins(sliceTo(s, k), s) /\ Len(sliceTo(s, k)) = k
    <3>1. k >= 0 /\ k <= Len(s)
          BY <2>1, <2>2
    <3> QED BY <3>1, SliceTo
  <2> QED BY <2>1, <2>3 DEF Begins
<1>2. t = <<t[1]>>
      BY <1>1
<1> QED BY <1>1, <1>2

\* The compiler's output begins like that of a library.
Protects(object) == sliceTo(object, AddressSize + 1) = <<PUSH20>> \o [i \in 1..AddressSize |-> 0]

\* The offset of the call protection, if there is one.
LEMMA ProtectionOffsets ==
    ASSUME NEW S, NEW s \in Seq(S), NEW object
    PROVE  /\ IsFiniteSet(getCallProtectionOffsets(s, object))
           /\ \A o \in getCallProtectionOffsets(s, object) :
                 Protects(object) /\ o = [start |-> 1, length |-> AddressSize]
           /\ Len(s) >= 1 /\ Protects(object) /\ s[1] = PUSH20 =>
                 getCallProtectionOffsets(s, object) = {[start |-> 1, length |-> AddressSize]}
           /\ Len(s) >= 1 /\ s[1] # PUSH20 => getCallProtectionOffsets(s, object) = {}
<1>1. Len(s) >= 1 => (sliceTo(s, 1) = <<PUSH20>> <=> s[1] = PUSH20)
      BY FirstByte
<1>2. getCallProtectionOffsets(s, object) =
        IF Protects(object) /\ sliceTo(s, 1) = <<PUSH20>> THEN {[start |-> 1, length |-> AddressSize]} ELSE {}
      BY DEF getCallProtectionOffsets, Protects
<1>3. IsFiniteSet({[start |-> 1, length |-> AddressSize]}) /\ IsFiniteSet({})
      BY FS_Singleton, FS_EmptySet
<1> QED BY <1>1, <1>2, <1>3

\* What is only known on chain of the code of an artifact, wherever the code comes from.
Known(output) == getLibraryOffsets(output.linkReferences) \cup output.immutableReferences

\* nullifyBytecodeOffsets on a section as long as the artifact's.
LEMMA NullifySection ==
    ASSUME NEW fqName \in DOMAIN artifacts, NEW section \in Seq(Nat \cup {Placeholder}),
           Len(section) = Len(inferExecutableSection(artifacts[fqName].output.object))
    PROVE  LET output == artifacts[fqName].output
           IN  nullifyBytecodeOffsets(section, output) =
                  Blanked(section, Known(output) \cup getCallProtectionOffsets(section, output.object))
<1>1. PICK output : output = artifacts[fqName].output
      OBVIOUS
<1> DEFINE protection == getCallProtectionOffsets(section, output.object)
           offsets == Known(output) \cup protection
<1>2. wellFormed(artifacts[fqName])
      BY ArtifactsAssumption
<1>3. /\ IsFiniteSet(Known(output))
      /\ \A o \in Known(output) : within(o, Len(section))
      /\ Protects(output.object) => Len(section) > AddressSize
      BY <1>1, <1>2 DEF wellFormed, Known, within, Protects
<1>4. IsFiniteSet(protection) /\ \A o \in protection : within(o, Len(section))
  <2>1. /\ IsFiniteSet(protection)
        /\ \A o \in protection : Protects(output.object) /\ o = [start |-> 1, length |-> AddressSize]
        BY ProtectionOffsets
  <2>2. ASSUME NEW o \in protection PROVE within(o, Len(section))
    <3>1. Protects(output.object) /\ o.start = 1 /\ o.length = AddressSize
          BY <2>1
    <3>2. Len(section) \in Nat /\ Len(section) > AddressSize /\ AddressSize \in Nat
          BY <1>3, <3>1, AddressSizeAssumption
    <3> QED BY <3>1, <3>2 DEF within
  <2> QED BY <2>1, <2>2
<1>5. IsFiniteSet(offsets) /\ \A o \in offsets : within(o, Len(section))
  <2> HIDE DEF protection
  <2> QED BY <1>3, <1>4, FS_Union
<1>6. nullifyBytecodeOffsets(section, output) = nullifyAll(section, offsets)
      BY DEF nullifyAll, nullifyBytecodeOffsets, Known, getImmutableOffsets
<1>7. nullifyAll(section, offsets) = Blanked(section, offsets)
  <2> HIDE DEF offsets
  <2>1. 0 \in Nat \cup {Placeholder}
        OBVIOUS
  <2> QED BY <1>5, <2>1, NullifyAll
<1>8. nullifyBytecodeOffsets(section, output) = Blanked(section, offsets)
      BY <1>6, <1>7
<1> QED BY <1>1, <1>8

\* Sequences that agree at every index are the same.
LEMMA SameElements ==
    ASSUME NEW S, NEW x \in Seq(S), NEW y \in Seq(S), Len(x) = Len(y), \A i \in 1..Len(x) : x[i] = y[i]
    PROVE  x = y
OBVIOUS

\* Bytecode.compare says yes exactly if the code is an instance of the artifact's.
LEMMA CompareIsCameFrom ==
    ASSUME NEW code \in Seq(Nat), constructible(code), ~isOvm(code), NEW fqName \in DOMAIN artifacts
    PROVE  compare(code, artifacts[fqName].output) <=> CameFrom(code, artifacts[fqName].output)
<1>1. PICK output : output = artifacts[fqName].output
      OBVIOUS
<1>2. PICK object \in Seq(Nat \cup {Placeholder}) : object = output.object
      BY <1>1, ArtifactsAssumption DEF wellFormed
<1>3. PICK section \in Seq(Nat \cup {Placeholder}) : section = _getExecutableSection(code) /\ Begins(section, code)
  <2>1. \A s \in Seq(Nat) : s \in Seq(Nat \cup {Placeholder})
        OBVIOUS
  <2> QED BY <2>1, Sections
<1>4. PICK reference \in Seq(Nat \cup {Placeholder}) :
          reference = inferExecutableSection(object) /\ Begins(reference, object)
      BY <1>1, <1>2, Sections
<1>5. compare(code, output) <=>
          /\ Len(section) = Len(reference)
          /\ nullifyBytecodeOffsets(section, output) = nullifyBytecodeOffsets(reference, output)
      BY <1>2, <1>3, <1>4 DEF compare
<1>6. CameFrom(code, output) <=>
          /\ Len(section) = Len(reference)
          /\ \A i \in DOMAIN section : i \in Blanks(code, output) \/ section[i] = reference[i]
      BY <1>2, <1>3, <1>4 DEF CameFrom
<1>7. ASSUME Len(section) = Len(reference)
      PROVE  nullifyBytecodeOffsets(section, output) = nullifyBytecodeOffsets(reference, output) <=>
             \A i \in DOMAIN section : i \in Blanks(code, output) \/ section[i] = reference[i]
  <2> DEFINE blanksS == Known(output) \cup getCallProtectionOffsets(section, object)
             blanksR == Known(output) \cup getCallProtectionOffsets(reference, object)
             blanksC == Known(output) \cup getCallProtectionOffsets(code, object)
  <2>1. PICK n \in Nat : n = Len(section) /\ n = Len(reference) /\ DOMAIN section = 1..n
        BY <1>7
  <2>2. PICK s : /\ s = nullifyBytecodeOffsets(section, output) /\ s = Blanked(section, blanksS)
                 /\ s \in Seq(Nat \cup {Placeholder}) /\ Len(s) = n
    <3>1. nullifyBytecodeOffsets(section, output) = Blanked(section, blanksS)
          BY <1>1, <1>2, <1>4, <1>7, NullifySection
    <3>2. 0 \in Nat \cup {Placeholder}
          OBVIOUS
    <3> HIDE DEF blanksS
    <3> QED BY <2>1, <3>1, <3>2, BlankedType
  <2>3. PICK r : /\ r = nullifyBytecodeOffsets(reference, output) /\ r = Blanked(reference, blanksR)
                 /\ r \in Seq(Nat \cup {Placeholder}) /\ Len(r) = n
    <3>1. nullifyBytecodeOffsets(reference, output) = Blanked(reference, blanksR)
          BY <1>1, <1>2, <1>4, <1>7, NullifySection
    <3>2. 0 \in Nat \cup {Placeholder}
          OBVIOUS
    <3> HIDE DEF blanksR
    <3> QED BY <2>1, <3>1, <3>2, BlankedType
  <2>4. ASSUME NEW i \in 1..n
        PROVE  s[i] = r[i] <=> (i \in Blanks(code, output) \/ section[i] = reference[i])
    <3> DEFINE known == \E o \in Known(output) : covers(o, i)
    <3>1. s[i] = IF \E o \in blanksS : covers(o, i) THEN 0 ELSE section[i]
          BY <2>1, <2>2 DEF Blanked
    <3>2. r[i] = IF \E o \in blanksR : covers(o, i) THEN 0 ELSE reference[i]
          BY <2>1, <2>3 DEF Blanked
    <3>3. i \in Blanks(code, output) <=> \E o \in blanksC : covers(o, i)
      <4>1. i \in Int
            OBVIOUS
      <4>2. Blanks(code, output) = UNION {(o.start + 1)..(o.start + o.length) : o \in blanksC}
            BY <1>2 DEF Blanks, Known
      <4>3. ASSUME NEW o \in blanksC
            PROVE  i \in (o.start + 1)..(o.start + o.length) <=> covers(o, i)
        <5>1. o.start \in Nat /\ o.length \in Nat
          <6>1. \A x \in Known(output) : x.start \in Nat /\ x.length \in Nat
                BY <1>1, ArtifactsAssumption DEF wellFormed, Known
          <6>2. \A x \in getCallProtectionOffsets(code, object) : x = [start |-> 1, length |-> AddressSize]
                BY ProtectionOffsets
          <6>3. AddressSize \in Nat
                BY AddressSizeAssumption
          <6> QED BY <6>1, <6>2, <6>3
        <5> QED BY <4>1, <5>1 DEF covers
      <4> HIDE DEF blanksC
      <4> QED BY <4>2, <4>3
    <3>4. section[1] = code[1] /\ reference[1] = object[1] /\ reference[i] = object[i] /\ n >= 1 /\ Len(code) >= 1
          BY <1>3, <1>4, <2>1 DEF Begins
    <3>5. getCallProtectionOffsets(section, object) = getCallProtectionOffsets(code, object)
      <4>1. Len(section) >= 1
            BY <2>1, <3>4
      <4>2. PICK c : c = code[1] /\ c = section[1]
            BY <3>4
      <4>3. CASE Protects(object)
            BY <3>4, <4>1, <4>2, <4>3, ProtectionOffsets
      <4>4. CASE ~Protects(object)
        <5>1. getCallProtectionOffsets(section, object) = {} /\ getCallProtectionOffsets(code, object) = {}
              BY <4>4 DEF getCallProtectionOffsets, Protects
        <5> QED BY <5>1
      <4> QED BY <4>3, <4>4
    <3>6. ASSUME NEW x \in Seq(Nat \cup {Placeholder}), NEW o \in getCallProtectionOffsets(x, object), covers(o, i)
          PROVE  reference[i] = 0
      <4>1. Protects(object) /\ o.start = 1 /\ o.length = AddressSize
            BY <3>6, ProtectionOffsets
      <4>2. i \in 2..AddressSize + 1
            BY <3>6, <4>1, AddressSizeAssumption DEF covers
      <4> QED BY <3>4, <4>1, <4>2, CallProtection DEF Protects
    <3>7. blanksC = blanksS
          BY <3>5
    <3>8. CASE known
          BY <3>1, <3>2, <3>3, <3>7, <3>8
    <3>9. CASE ~known
      <4>1. r[i] = reference[i]
            BY <3>2, <3>6, <3>9
      <4>2. (\E o \in blanksS : covers(o, i)) => reference[i] = 0
            BY <3>6, <3>9
      <4> QED BY <3>1, <3>3, <3>7, <4>1, <4>2
    <3> QED BY <3>8, <3>9
  <2>5. s = r <=> \A i \in 1..n : s[i] = r[i]
    <3>1. PICK S : S = Nat \cup {Placeholder}
          OBVIOUS
    <3>2. s \in Seq(S) /\ r \in Seq(S) /\ Len(s) = Len(r) /\ Len(s) = n
          BY <2>2, <2>3, <3>1
    <3> QED BY <3>2, SameElements
  <2> QED BY <2>1, <2>2, <2>3, <2>4, <2>5
<1> QED BY <1>1, <1>5, <1>6, <1>7

-----------------------------------------------------------------------------
(* Libraries: every one the contract refers to is linked, and with the     *)
(* address that the code holds or the user gave.                           *)

\* A finite set of at most one element has at most one.
LEMMA AtMostOne ==
    ASSUME NEW M, IsFiniteSet(M), ~(Cardinality(M) > 1), NEW x \in M, NEW y \in M
    PROVE  x = y
<1> SUFFICES ASSUME x # y PROVE FALSE
    OBVIOUS
<1>1. IsFiniteSet({x}) /\ Cardinality({x}) = 1
      BY FS_Singleton
<1>2. IsFiniteSet({x} \cup {y}) /\ Cardinality({x} \cup {y}) = 2
      BY <1>1, FS_AddElement
<1>3. Cardinality({x} \cup {y}) <= Cardinality(M) /\ Cardinality(M) \in Nat
      BY FS_Subset, FS_CardinalityType
<1> QED BY <1>2, <1>3

\* A function that may throw has not; a library's name without its source.
Ok(r) == r.error = ""
NoSource == ""

\* The ways the user may name a library: by its fully qualified name or by its name alone.
namesOf(lib) == {lib, <<NoSource, lib[2]>>}

\* What lookupLibrary finds is the only library that goes by that name.
LEMMA LibraryFound ==
    ASSUME NEW libs \in SUBSET (STRING \X STRING), IsFiniteSet(libs), NEW name \in STRING \X STRING,
           Ok(lookupLibrary(libs, name))
    PROVE  \E lib \in libs : /\ lookupLibrary(libs, name) = result(lib)
                             /\ \A l \in libs : name \in namesOf(l) <=> l = lib
<1> DEFINE M == {lib \in libs : lib[2] = name[2] /\ name[1] \in {NoSource, lib[1]}}
<1>1. M # {} /\ ~(Cardinality(M) > 1) /\ lookupLibrary(libs, name) = result(CHOOSE lib \in M : TRUE)
      BY Zenon DEF lookupLibrary, throws, result, Ok, NoSource
<1>2. IsFiniteSet(M)
      BY FS_Subset
<1>3. \A l \in libs : name \in namesOf(l) <=> l \in M
  <2> TAKE l \in libs
  <2>1. l = <<l[1], l[2]>> /\ name = <<name[1], name[2]>>
        OBVIOUS
  <2>2. name \in namesOf(l) <=> name = <<l[1], l[2]>> \/ name = <<NoSource, l[2]>>
        BY <2>1 DEF namesOf
  <2>3. name = <<l[1], l[2]>> <=> name[1] = l[1] /\ name[2] = l[2]
        BY <2>1
  <2>4. name = <<NoSource, l[2]>> <=> name[1] = NoSource /\ name[2] = l[2]
        BY <2>1
  <2> QED BY <2>2, <2>3, <2>4
<1>4. PICK lib \in M : lib = CHOOSE l \in M : TRUE
      BY <1>1
<1> HIDE DEF M
<1>5. \A l \in M : l = lib
      BY <1>1, <1>2, AtMostOne
<1>6. lib \in libs
      BY <1>4 DEF M
<1> QED BY <1>1, <1>3, <1>4, <1>5, <1>6

\* The user's entries, once they have passed the checks of normalizeLibraries: every address
\* is the one entry's for its library.
LEMMA LibrariesNormalized ==
    ASSUME NEW libs \in SUBSET (STRING \X STRING), IsFiniteSet(libs), NEW given,
           \A i \in DOMAIN given : i \in Nat \ {0} /\ given[i].name \in STRING \X STRING,
           Ok(normalizeLibraries(libs, given))
    PROVE  /\ DOMAIN normalizeLibraries(libs, given).value \subseteq libs
           /\ \A lib \in DOMAIN normalizeLibraries(libs, given).value : \E i \in DOMAIN given :
                 /\ {k \in DOMAIN given : given[k].name \in namesOf(lib)} = {i}
                 /\ normalizeLibraries(libs, given).value[lib] = given[i].address
<1> DEFINE found(k) == lookupLibrary(libs, given[k].name)
           wrong == {i \in DOMAIN given : entryError(libs, given, i) # NoSource}
           list == [i \in DOMAIN given |-> found(i).value]
           value == [lib \in Range(list) |-> given[CHOOSE i \in DOMAIN list : list[i] = lib].address]
<1>1. wrong = {}
  <2> SUFFICES ASSUME wrong # {} PROVE FALSE
      OBVIOUS
  <2>1. wrong \in SUBSET Nat
        OBVIOUS
  <2>2. Min(wrong) \in wrong
    <3> HIDE DEF wrong
    <3>1. \E m \in wrong : \A y \in wrong : m <= y
          BY <2>1, LeastNumber
    <3> QED BY <3>1 DEF Min
  <2>3. entryError(libs, given, Min(wrong)) # NoSource
        BY <2>2
  <2>4. normalizeLibraries(libs, given) = throws(entryError(libs, given, Min(wrong)))
        BY Zenon DEF normalizeLibraries, NoSource
  <2>5. normalizeLibraries(libs, given).error = entryError(libs, given, Min(wrong))
        BY <2>4 DEF throws
  <2> QED BY <2>3, <2>5, Zenon DEF Ok, NoSource
<1>2. normalizeLibraries(libs, given).value = value
  <2>1. normalizeLibraries(libs, given) = result(value)
        BY <1>1, Zenon DEF normalizeLibraries, NoSource
  <2>2. \A v : result(v).value = v
        BY Zenon DEF result
  <2> QED BY <2>1, <2>2
<1>3. ASSUME NEW i \in DOMAIN given
      PROVE  /\ Ok(found(i))
             /\ \A k \in 1..(i - 1) : found(k) # found(i)
  <2>1. entryError(libs, given, i) = NoSource
        BY <1>1
  <2> QED BY <2>1, Zenon DEF entryError, NoSource, Ok
<1>4. ASSUME NEW i \in DOMAIN given
      PROVE  \E lib \in libs : /\ found(i) = result(lib)
                               /\ \A l \in libs : given[i].name \in namesOf(l) <=> l = lib
      BY <1>3, LibraryFound
<1> HIDE DEF found, wrong
<1>5. \A i \in DOMAIN given : \A k \in DOMAIN given : found(i) = found(k) => i = k
  <2> SUFFICES ASSUME NEW i \in DOMAIN given, NEW k \in DOMAIN given, found(i) = found(k)
               PROVE  i = k
      OBVIOUS
  <2>1. i \in Nat /\ k \in Nat /\ i >= 1 /\ k >= 1
        OBVIOUS
  <2>2. k \notin 1..(i - 1) /\ i \notin 1..(k - 1)
        BY <1>3
  <2> QED BY <2>1, <2>2
<1>6. DOMAIN list = DOMAIN given /\ DOMAIN value = Range(list)
      OBVIOUS
<1>7. ASSUME NEW lib \in Range(list)
      PROVE  /\ lib \in libs
             /\ \E i \in DOMAIN given :
                   /\ {k \in DOMAIN given : given[k].name \in namesOf(lib)} = {i}
                   /\ value[lib] = given[i].address
  <2>1. \E i \in DOMAIN list : list[i] = lib
        BY <1>7 DEF Range
  <2>2. PICK i \in DOMAIN list : list[i] = lib /\ i = CHOOSE j \in DOMAIN list : list[j] = lib
        BY <2>1
  <2>3. value[lib] = given[i].address
        BY <2>2
  <2>4. i \in DOMAIN given /\ found(i).value = lib
        BY <2>2
  <2>5. PICK l \in libs : found(i) = result(l) /\ \A m \in libs : given[i].name \in namesOf(m) <=> m = l
        BY <1>4, <2>4
  <2>6. l = lib
    <3>1. result(l).value = l
          BY Zenon DEF result
    <3> QED BY <2>4, <2>5, <3>1
  <2>7. ASSUME NEW k \in DOMAIN given, given[k].name \in namesOf(lib)
        PROVE  k = i
    <3>1. found(k) = result(lib)
          BY <1>4, <2>5, <2>6, <2>7
    <3> QED BY <1>5, <2>4, <2>5, <2>6, <3>1
  <2>8. given[i].name \in namesOf(lib)
        BY <2>5, <2>6
  <2> QED BY <2>3, <2>4, <2>5, <2>6, <2>7, <2>8
<1> HIDE DEF value, list
<1> QED BY <1>2, <1>6, <1>7

\* What is linked is what LinkedAsDeployed asks for: every library, those in the code with the
\* address there, the others with the one the user gave them.
Linked(fqName, given, code, libs) ==
    LET detectable == artifacts[fqName].output.linkReferences
    IN  /\ DOMAIN libs = DOMAIN artifacts[fqName].linkReferences
        /\ \A lib \in DOMAIN detectable : \E o \in detectable[lib] :
              libs[lib].bytes = SubSeq(code, o.start + 1, o.start + o.length)
        /\ \A lib \in DOMAIN libs \ DOMAIN detectable : \E i \in DOMAIN given :
              {k \in DOMAIN given : given[k].name \in namesOf(lib)} = {i} /\ libs[lib] = given[i].address

\* Every address is read at one of the library's references.
DetectedIn(detected, refs, code) ==
    /\ DOMAIN detected = DOMAIN refs
    /\ \A lib \in DOMAIN refs : \E o \in refs[lib] :
          detected[lib].bytes = SubSeq(code, o.start + 1, o.start + o.length)

\* So does getLibraryAddressesFromBytecode, which looks for the first.
LEMMA LibraryDetected ==
    ASSUME NEW fqName \in DOMAIN artifacts, NEW code,
           NEW refs, refs = artifacts[fqName].output.linkReferences
    PROVE  DetectedIn(getLibraryAddressesFromBytecode(refs, code), refs, code)
<1> DEFINE detected == getLibraryAddressesFromBytecode(refs, code)
           first(lib) == CHOOSE o \in refs[lib] : \A p \in refs[lib] : o.start <= p.start
<1>2. /\ DOMAIN detected = DOMAIN refs
      /\ \A lib \in DOMAIN refs :
            detected[lib].bytes = SubSeq(code, first(lib).start + 1, first(lib).start + first(lib).length)
      BY Zenon DEF getLibraryAddressesFromBytecode, detected, first
<1>3. ASSUME NEW lib \in DOMAIN refs PROVE first(lib) \in refs[lib]
  <2>1. refs[lib] # {} /\ \A o \in refs[lib] : o.start \in Nat
        BY ArtifactsAssumption DEF wellFormed, getLibraryOffsets
  <2> DEFINE starts == {o.start : o \in refs[lib]}
  <2>2. starts \in SUBSET Nat /\ starts # {}
        BY <2>1
  <2>3. PICK m \in starts : \A y \in starts : m <= y
    <3> HIDE DEF starts
    <3> QED BY <2>2, LeastNumber
  <2>4. PICK o \in refs[lib] : o.start = m
        OBVIOUS
  <2>5. \A p \in refs[lib] : o.start <= p.start
        BY <2>3, <2>4
  <2> QED BY <2>5
<1> HIDE DEF detected, first
<1>4. ASSUME NEW lib \in DOMAIN refs
      PROVE  \E o \in refs[lib] : detected[lib].bytes = SubSeq(code, o.start + 1, o.start + o.length)
      BY <1>2, <1>3
<1> QED BY <1>2, <1>4 DEF detected, DetectedIn

\* getLibraryInformation either throws or links every library of the contract.
LEMMA LibrariesLinked ==
    ASSUME NEW fqName \in DOMAIN artifacts, NEW code, NEW given,
           \A i \in DOMAIN given : i \in Nat \ {0} /\ given[i].name \in STRING \X STRING,
           Ok(getLibraryInformation(fqName, given, code))
    PROVE  Linked(fqName, given, code, getLibraryInformation(fqName, given, code).value)
<1>1. PICK libs : libs = DOMAIN artifacts[fqName].linkReferences
      OBVIOUS
<1>2. PICK refs : refs = artifacts[fqName].output.linkReferences
      OBVIOUS
<1>3. libs \in SUBSET (STRING \X STRING) /\ IsFiniteSet(libs) /\ DOMAIN refs \subseteq libs
      BY <1>1, <1>2, ArtifactsAssumption DEF wellFormed
<1> DEFINE normalized == normalizeLibraries(libs, given)
           detected == getLibraryAddressesFromBytecode(refs, code)
           merged == mergeLibraries(normalized.value, detected)
<1>4. /\ Ok(normalized) /\ Ok(merged) /\ ~(Cardinality(DOMAIN merged.value) < Cardinality(libs))
      /\ getLibraryInformation(fqName, given, code) = merged
      BY <1>1, <1>2, Zenon DEF getLibraryInformation, Ok, throws
<1>5. /\ DOMAIN normalized.value \subseteq libs
      /\ \A lib \in DOMAIN normalized.value : \E i \in DOMAIN given :
            {k \in DOMAIN given : given[k].name \in namesOf(lib)} = {i} /\ normalized.value[lib] = given[i].address
  <2>1. Ok(normalizeLibraries(libs, given))
        BY <1>4
  <2> QED BY <1>3, <2>1, LibrariesNormalized
<1>6. /\ DOMAIN detected = DOMAIN refs
      /\ \A lib \in DOMAIN refs : \E o \in refs[lib] :
            detected[lib].bytes = SubSeq(code, o.start + 1, o.start + o.length)
  <2>1. DetectedIn(getLibraryAddressesFromBytecode(refs, code), refs, code)
        BY ONLY <1>2, LibraryDetected, fqName \in DOMAIN artifacts
  <2> QED BY <2>1, Zenon DEF DetectedIn
<1>7. ASSUME NEW a, NEW b, Ok(mergeLibraries(a, b))
      PROVE  /\ DOMAIN mergeLibraries(a, b).value = DOMAIN a \cup DOMAIN b
             /\ \A lib \in DOMAIN b : mergeLibraries(a, b).value[lib] = b[lib]
             /\ \A lib \in DOMAIN a \ DOMAIN b : mergeLibraries(a, b).value[lib] = a[lib]
  <2> DEFINE both == [lib \in DOMAIN a \cup DOMAIN b |-> IF lib \in DOMAIN b THEN b[lib] ELSE a[lib]]
  <2>1. mergeLibraries(a, b).value = both
    <3>1. mergeLibraries(a, b) = result(both)
          BY <1>7, Zenon DEF mergeLibraries, Ok, throws
    <3>2. \A v : result(v).value = v
          BY Zenon DEF result
    <3> QED BY <3>1, <3>2
  <2> QED BY <2>1
<1> HIDE DEF normalized, detected
<1>8. PICK m : m = merged.value
      OBVIOUS
<1>9. /\ DOMAIN m = DOMAIN normalized.value \cup DOMAIN refs
      /\ \A lib \in DOMAIN refs : m[lib] = detected[lib]
      /\ \A lib \in DOMAIN normalized.value \ DOMAIN refs : m[lib] = normalized.value[lib]
      BY <1>4, <1>6, <1>7, <1>8
<1>10. ~(Cardinality(DOMAIN m) < Cardinality(libs))
       BY <1>4, <1>8
<1>11. DOMAIN m = libs
  <2>1. PICK D : D = DOMAIN m /\ D \in SUBSET libs
        BY <1>3, <1>5, <1>9
  <2>2. ~(Cardinality(D) < Cardinality(libs))
        BY <1>10, <2>1
  <2>3. IsFiniteSet(D) /\ Cardinality(D) \in Nat /\ Cardinality(libs) \in Nat
        BY <1>3, <2>1, FS_Subset, FS_CardinalityType
  <2>4. D # libs => Cardinality(D) < Cardinality(libs)
    <3>1. Cardinality(D) <= Cardinality(libs) /\ (Cardinality(D) = Cardinality(libs) => D = libs)
          BY <1>3, <2>1, FS_Subset
    <3> QED BY <2>3, <3>1
  <2> QED BY <2>1, <2>2, <2>4
<1>12. Linked(fqName, given, code, m)
       BY <1>1, <1>2, <1>5, <1>6, <1>9, <1>11 DEF Linked
<1>13. getLibraryInformation(fqName, given, code).value = m
       BY <1>4, <1>8
<1> QED BY <1>12, <1>13

-----------------------------------------------------------------------------
(* What is sent is what is deployed.                                       *)

\* Code that was read off the chain and has a metadata length.
Read(code) == code \in Seq(Nat) /\ constructible(code)

\* The artifact is one the code is an instance of: the one named, or else the only one.
Matched(fqName, given, code) ==
    /\ fqName \in DOMAIN artifacts
    /\ \/ isOvm(code)
       \/ given.contract = noName /\ Genuine(code) = {fqName}
       \/ given.contract # noName /\ fqName = given.contract /\ fqName \in Genuine(code)

\* The lookup takes an artifact for a match exactly if the code is an instance of it.
LEMMA GenuineMatches ==
    ASSUME NEW code, Read(code), ~isOvm(code), NEW fqName \in DOMAIN artifacts
    PROVE  fqName \in Genuine(code) <=>
              /\ artifacts[fqName].buildInfo
              /\ artifacts[fqName].solcVersion \in getMatchingVersions(code, compilerVersions)
              /\ extractMatchingContractInformation(fqName, code)
<1>1. extractMatchingContractInformation(fqName, code) <=> CameFrom(code, artifacts[fqName].output)
  <2>1. code \in Seq(Nat) /\ constructible(code)
        BY DEF Read
  <2>2. compare(code, artifacts[fqName].output) <=> CameFrom(code, artifacts[fqName].output)
        BY <2>1, CompareIsCameFrom
  <2> QED BY <2>2 DEF extractMatchingContractInformation
<1>2. artifacts[fqName].buildInfo =>
        (artifacts[fqName].solcVersion \in getMatchingVersions(code, compilerVersions) <=>
            satisfies(artifacts[fqName].solcVersion, inferCompilerVersion(code)))
      BY BuildAssumption DEF getMatchingVersions
<1> QED BY <1>1, <1>2 DEF Genuine

\* The name of the error when no artifact matches.
Mismatch == "DeployedBytecodeMismatchError"

\* A contract the user named is the one he meant, and is refused only if it is not.
LEMMA NamedMatches ==
    ASSUME NEW STATE name, Read(bytecode)
    PROVE  /\ Ok(namedContract(name)) =>
                 /\ namedContract(name).value = name /\ name \in DOMAIN artifacts
                 /\ isOvm(bytecode) \/ name \in Genuine(bytecode)
           /\ namedContract(name).error = Mismatch => isOvm(bytecode) \/ name \notin Genuine(bytecode)
<1> DEFINE versions == getMatchingVersions(bytecode, compilerVersions)
           matches == extractMatchingContractInformation(name, bytecode)
<1>1. ASSUME Ok(namedContract(name))
      PROVE  /\ namedContract(name).value = name /\ name \in DOMAIN artifacts
             /\ artifacts[name].buildInfo /\ matches
             /\ artifacts[name].solcVersion \in versions \/ isOvm(bytecode)
  <2> HIDE DEF versions, matches
  <2>1. namedContract(name) =
            IF name \notin DOMAIN artifacts THEN throws("ContractNotFoundError")
            ELSE IF ~artifacts[name].buildInfo THEN throws("BuildInfoNotFoundError")
            ELSE IF artifacts[name].solcVersion \notin versions /\ ~isOvm(bytecode)
            THEN throws("BuildInfoCompilerVersionMismatchError")
            ELSE IF ~matches THEN throws(Mismatch)
            ELSE result(name)
        BY Zenon DEF namedContract, versions, matches, Mismatch
  <2>2. /\ ~Ok(throws("ContractNotFoundError")) /\ ~Ok(throws("BuildInfoNotFoundError"))
        /\ ~Ok(throws("BuildInfoCompilerVersionMismatchError")) /\ ~Ok(throws(Mismatch))
        BY Zenon DEF Ok, throws, Mismatch
  <2>3. result(name).value = name
        BY Zenon DEF result
  <2> QED BY <1>1, <2>1, <2>2, <2>3
<1>2. ASSUME namedContract(name).error = Mismatch
      PROVE  name \in DOMAIN artifacts /\ ~matches
      BY <1>2, Zenon DEF namedContract, throws, result, Mismatch
<1> QED BY <1>1, <1>2, GenuineMatches

\* A contract that was not named is the only one it can be, and none is found only if there is none.
LEMMA InferredMatches ==
    ASSUME Read(bytecode), NEW STATE versions, versions = getMatchingVersions(bytecode, compilerVersions),
           NEW STATE found, found = extractInferredContractInformation(versions, bytecode)
    PROVE  /\ Ok(found) => found.value \in DOMAIN artifacts /\ (isOvm(bytecode) \/ Genuine(bytecode) = {found.value})
           /\ found.error = Mismatch => isOvm(bytecode) \/ Genuine(bytecode) = {}
<1> DEFINE matches == lookupMatchingBytecode(versions, bytecode)
<1>1. matches \subseteq DOMAIN artifacts /\ (isOvm(bytecode) \/ matches = Genuine(bytecode))
  <2>1. matches \subseteq DOMAIN artifacts /\ Genuine(bytecode) \subseteq DOMAIN artifacts
        BY DEF lookupMatchingBytecode, Genuine
  <2>2. ASSUME ~isOvm(bytecode), NEW fqName \in DOMAIN artifacts
        PROVE  fqName \in matches <=> fqName \in Genuine(bytecode)
        BY <2>2, GenuineMatches DEF lookupMatchingBytecode
  <2> QED BY <2>1, <2>2
<1>2. IsFiniteSet(matches)
      BY <1>1, ArtifactsAssumption, FS_Subset
<1> HIDE DEF matches
<1>3. /\ Ok(found) => /\ matches # {} /\ ~(Cardinality(matches) > 1)
                      /\ found.value = CHOOSE fqName \in matches : TRUE
      /\ found.error = Mismatch => matches = {}
  <2>1. found = IF matches = {} THEN throws(Mismatch)
                ELSE IF Cardinality(matches) > 1 THEN throws("DeployedBytecodeMultipleMatchesError")
                ELSE result(CHOOSE fqName \in matches : TRUE)
        BY Zenon DEF extractInferredContractInformation, matches, Mismatch
  <2>2. ~Ok(throws(Mismatch)) /\ ~Ok(throws("DeployedBytecodeMultipleMatchesError"))
        BY Zenon DEF Ok, throws, Mismatch
  <2>3. throws("DeployedBytecodeMultipleMatchesError").error # Mismatch
        BY Zenon DEF throws, Mismatch
  <2>4. \A v : result(v).value = v /\ result(v).error # Mismatch
        BY Zenon DEF result, Mismatch
  <2> QED BY <2>1, <2>2, <2>3, <2>4
<1>4. ASSUME Ok(found) PROVE matches = {found.value}
  <2>1. found.value \in matches
        BY <1>3, <1>4
  <2>2. \A x \in matches : x = found.value
        BY <1>2, <1>3, <1>4, <2>1, AtMostOne
  <2> QED BY <2>1, <2>2
<1> QED BY <1>1, <1>3, <1>4

\* A submission for the code on chain: the artifact matches it, and its libraries are linked as it is.
Prepared(s, code) ==
    /\ s.address \in Addresses /\ Read(code)
    /\ Matched(s.contract, s.given, code)
    /\ Linked(s.contract, s.given.libraries, code, s.libraries)

ChainOK == chain \in [Addresses -> Seq(Nat) \cup {unread}]
SentOK == \A j \in DOMAIN submissions : Prepared(submissions[j], chain[submissions[j].address])

\* What the task has found out so far is right.
TaskOK ==
    /\ args \in UserArgs \cup {noArgs}
    /\ pc \in {"idle", "isVerified", "getCode", "lookup", "link", "encode", "submit", "poll"}
    /\ pc # "idle" => address \in Addresses
    /\ pc \in {"lookup", "link", "encode", "submit", "poll"} => Read(bytecode)
    /\ pc \in {"link", "encode", "submit", "poll"} => Matched(contractFQN, args, bytecode)
    /\ pc \in {"encode", "submit", "poll"} => Linked(contractFQN, args.libraries, bytecode, libraries)

SInv == ChainOK /\ todo \in Seq(Addresses) /\ TaskOK /\ SentOK

\* What the user's libraries are like, given by him or by the script.
LEMMA GivenLibraries ==
    ASSUME args \in UserArgs \cup {noArgs}
    PROVE  \A i \in DOMAIN args.libraries : i \in Nat \ {0} /\ args.libraries[i].name \in STRING \X STRING
<1>1. CASE args \in UserArgs
      BY <1>1, BuildAssumption
<1>2. CASE args = noArgs
  <2>1. args.libraries = <<>>
        BY <1>2, Zenon DEF noArgs
  <2>2. DOMAIN <<>> = {}
        BY ONLY TRUE
  <2> QED BY <2>1, <2>2
<1> QED BY <1>1, <1>2

\* A task that ends leaves nothing to be sent.
LEMMA EndIsSound ==
    ASSUME NEW STATE addr, NEW STATE outcome, endFor(addr, outcome)
    PROVE  TaskOK'
<1>1. pc' = "idle" /\ args' = noArgs
      BY Zenon DEF endFor
<1> QED BY <1>1, Zenon DEF TaskOK

\* What was sent before stays right as long as the code it is about stays.
LEMMA SentStays ==
    ASSUME SentOK, UNCHANGED <<chain, submissions>>
    PROVE  SentOK'
BY DEF SentOK

\* The task begins, or ends at once.
LEMMA BeginIsSound ==
    ASSUME NEW STATE addr, addr \in Addresses, NEW STATE given, given \in UserArgs \cup {noArgs},
           beginFor(addr, given)
    PROVE  TaskOK'
<1>1. \/ endFor(addr, connectionError(network))
      \/ pc' = "isVerified" /\ address' = addr /\ args' = given
      BY Zenon DEF beginFor
<1>2. CASE endFor(addr, connectionError(network))
      BY <1>2, EndIsSound
<1>3. CASE pc' = "isVerified" /\ address' = addr /\ args' = given
      BY <1>3 DEF TaskOK
<1> QED BY <1>1, <1>2, <1>3

\* The code of an address that was not read is no code.
LEMMA UnreadIsNoCode == unread \notin Seq(Nat)
<1>1. PICK u : u = unread
      OBVIOUS
<1>2. Len(u) = 1 /\ u[1] = -1
      BY <1>1 DEF unread
<1>3. ASSUME NEW s \in Seq(Nat), Len(s) = 1 PROVE s[1] \in Nat
  <2>1. s \in [1..Len(s) -> Nat]
        BY ONLY s \in Seq(Nat)
  <2>2. 1 \in 1..Len(s)
        BY <1>3
  <2> QED BY ONLY <2>1, <2>2
<1>4. -1 \notin Nat
      OBVIOUS
<1> QED BY <1>1, <1>2, <1>3, <1>4

\* A task that has read code finds the same code ever after.
LEMMA CodeStays ==
    ASSUME ChainOK, address \in Addresses, NEW code \in Codes[address], bytecode \in {unread, code},
           chain' = [chain EXCEPT ![address] = code]
    PROVE  /\ ChainOK'
           /\ chain'[address] = code /\ code \in Seq(Nat)
           /\ \A a \in Addresses : Read(chain[a]) => chain'[a] = chain[a]
<1>1. code \in Seq(Nat)
      BY BuildAssumption DEF Addresses
<1>2. chain[address] \in {unread, code}
      BY DEF bytecode
<1>3. ASSUME NEW a \in Addresses, Read(chain[a]) PROVE chain[a] # unread
      BY <1>3, UnreadIsNoCode DEF Read
<1>4. chain'[address] = code /\ \A a \in Addresses : a # address => chain'[a] = chain[a]
      BY DEF ChainOK
<1>5. chain' \in [Addresses -> Seq(Nat) \cup {unread}]
      BY <1>1 DEF ChainOK
<1>6. ASSUME NEW a \in Addresses, Read(chain[a]) PROVE chain'[a] = chain[a]
      BY <1>2, <1>3, <1>4, <1>6
<1> QED BY <1>1, <1>4, <1>5, <1>6 DEF ChainOK

\* No task runs after the step.
EndsTask == pc' = "idle" /\ args' = noArgs

LEMMA IdleIsSound == ASSUME EndsTask PROVE TaskOK'
BY Zenon DEF EndsTask, TaskOK

LEMMA EndEnds == ASSUME NEW STATE outcome, end(outcome) PROVE EndsTask
BY Zenon DEF end, endFor, EndsTask

\* A task or the script is started, the script goes on or stops.
LEMMA StartIsSound ==
    ASSUME SInv, StartTask \/ StartScript \/ ScriptVerifies \/ ScriptFails \/ ScriptEnds
    PROVE  SInv'
<1>1. UNCHANGED <<chain, submissions>>
      BY Zenon DEF StartTask, StartScript, ScriptVerifies, ScriptFails, ScriptEnds, explorerVars
<1>2. ChainOK' /\ SentOK'
      BY <1>1, SentStays DEF SInv, ChainOK
<1>3. Scripted \in Seq(Addresses)
  <2>1. PICK n \in Nat : n = Len(Scripted)
        BY BuildAssumption
  <2>2. Scripted \in [1..n -> Addresses]
    <3>1. DOMAIN Scripted = 1..n /\ Scripted \in [1..n -> STRING]
          BY <2>1, BuildAssumption
    <3>2. \A i \in 1..n : Scripted[i] \in Addresses
          BY <3>1 DEF Addresses, Range
    <3> QED BY <3>1, <3>2
  <2> QED BY ONLY <2>2, n \in Nat
<1>4. todo' \in Seq(Addresses) /\ (ScriptVerifies => Head(todo) \in Addresses)
  <2>1. \/ todo' \in {todo, Scripted, <<>>}
        \/ todo # <<>> /\ todo' = Tail(todo)
        BY Zenon DEF StartTask, StartScript, ScriptVerifies, ScriptFails, ScriptEnds
  <2>2. ScriptVerifies => todo # <<>>
        BY Zenon DEF ScriptVerifies
  <2>3. todo \in Seq(Addresses)
        BY DEF SInv
  <2>4. <<>> \in Seq(Addresses)
        OBVIOUS
  <2>5. todo # <<>> => Head(todo) \in Addresses /\ Tail(todo) \in Seq(Addresses)
        BY <2>3
  <2> QED BY <1>3, <2>1, <2>2, <2>3, <2>4, <2>5
<1>5. TaskOK'
  <2>1. CASE StartTask
    <3>1. \/ \E addr, error : endFor(addr, error)
          \/ \E addr \in Addresses, given \in UserArgs : beginFor(addr, given)
          BY <2>1, Zenon DEF StartTask
    <3> QED BY <3>1, EndIsSound, BeginIsSound
  <2>2. CASE ScriptVerifies
    <3>1. beginFor(Head(todo), noArgs)
          BY <2>2 DEF ScriptVerifies
    <3> QED BY <1>4, <2>2, <3>1, BeginIsSound
  <2>3. CASE StartScript \/ ScriptFails \/ ScriptEnds
    <3>1. UNCHANGED <<pc, address, args, contractFQN, libraries, chain>>
          BY <1>1, <2>3, Zenon DEF StartScript, ScriptFails, ScriptEnds, taskVars
    <3> QED BY <3>1 DEF SInv, TaskOK, bytecode
  <2> QED BY <2>1, <2>2, <2>3
<1> QED BY <1>2, <1>4, <1>5 DEF SInv

\* The code is read, and what it tells checked.
LEMMA ReadingIsSound ==
    ASSUME SInv, GetDeployedContractBytecode
    PROVE  SInv'
<1>1. pc = "getCode" /\ address \in Addresses
  <2>1. pc = "getCode"
        BY Zenon DEF GetDeployedContractBytecode
  <2> QED BY <2>1 DEF SInv, TaskOK
<1>2. PICK code \in Codes[address] :
         /\ bytecode \in {unread, code} /\ chain' = [chain EXCEPT ![address] = code]
         /\ \/ EndsTask
            \/ constructible(code) /\ pc' = "lookup" /\ UNCHANGED <<address, args>>
  <2>1. PICK code \in Codes[address] :
          /\ bytecode \in {unread, code} /\ chain' = [chain EXCEPT ![address] = code]
          /\ \/ \E o : end(o)
             \/ constructible(code) /\ pc' = "lookup" /\ UNCHANGED <<address, args>>
        BY Zenon DEF GetDeployedContractBytecode
  <2> QED BY <2>1, EndEnds
<1>3. /\ ChainOK'
      /\ chain'[address] = code /\ code \in Seq(Nat)
      /\ \A a \in Addresses : Read(chain[a]) => chain'[a] = chain[a]
      BY <1>1, <1>2, CodeStays DEF SInv
<1>4. UNCHANGED <<todo, submissions>>
      BY Zenon DEF GetDeployedContractBytecode, scriptVars, explorerVars
<1>5. SentOK'
      BY <1>3, <1>4 DEF SInv, SentOK, Prepared
<1>6. TaskOK'
  <2>1. CASE EndsTask
        BY <2>1, IdleIsSound
  <2>2. CASE constructible(code) /\ pc' = "lookup" /\ UNCHANGED <<address, args>>
    <3>1. Read(bytecode)'
          BY <1>3, <2>2 DEF Read, bytecode
    <3> QED BY <1>1, <2>2, <3>1 DEF SInv, TaskOK
  <2> QED BY <1>2, <2>1, <2>2
<1> QED BY <1>3, <1>4, <1>5, <1>6 DEF SInv

\* The contract is looked up.
LEMMA LookupIsSound ==
    ASSUME SInv, GetContractInformation
    PROVE  TaskOK'
<1> DEFINE versions == getMatchingVersions(bytecode, compilerVersions)
           found == IF args.contract # noName THEN namedContract(args.contract)
                    ELSE extractInferredContractInformation(versions, bytecode)
<1>1. pc = "lookup" /\ chain' = chain /\ Read(bytecode)
  <2>1. pc = "lookup" /\ chain' = chain
        BY Zenon DEF GetContractInformation
  <2> QED BY <2>1 DEF SInv, TaskOK
<1>2. \/ EndsTask
      \/ Ok(found) /\ contractFQN' = found.value /\ pc' = "link" /\ UNCHANGED <<address, args>>
  <2>1. \/ end(found.error)
        \/ Ok(found) /\ contractFQN' = found.value /\ pc' = "link" /\ UNCHANGED <<address, args>>
        BY Zenon DEF GetContractInformation, Ok
  <2> HIDE DEF found
  <2> QED BY <2>1, EndEnds
<1>3. ASSUME Ok(found) PROVE Matched(found.value, args, bytecode)
  <2>1. CASE args.contract # noName
    <3>1. PICK name : name = args.contract
          OBVIOUS
    <3>2. found = namedContract(name)
          BY <2>1, <3>1
    <3> HIDE DEF found
    <3>3. found.value = name /\ name \in DOMAIN artifacts /\ (isOvm(bytecode) \/ name \in Genuine(bytecode))
          BY <1>1, <1>3, <3>2, NamedMatches
    <3> QED BY <2>1, <3>1, <3>3 DEF Matched
  <2>2. CASE args.contract = noName
    <3>1. found = extractInferredContractInformation(versions, bytecode)
          BY <2>2
    <3> HIDE DEF found
    <3>2. found.value \in DOMAIN artifacts /\ (isOvm(bytecode) \/ Genuine(bytecode) = {found.value})
          BY <1>1, <1>3, <3>1, InferredMatches
    <3> QED BY <2>2, <3>2 DEF Matched
  <2> QED BY <2>1, <2>2
<1> HIDE DEF found
<1>4. CASE EndsTask
      BY <1>4, IdleIsSound
<1>5. CASE Ok(found) /\ contractFQN' = found.value /\ pc' = "link" /\ UNCHANGED <<address, args>>
  <2>1. bytecode' = bytecode
        BY <1>1, <1>5 DEF bytecode
  <2> QED BY <1>1, <1>3, <1>5, <2>1 DEF SInv, TaskOK
<1> QED BY <1>2, <1>4, <1>5

\* Its libraries are looked up.
LEMMA LinkingIsSound ==
    ASSUME SInv, GetLibraryInformation
    PROVE  TaskOK'
<1> DEFINE linked == getLibraryInformation(contractFQN, args.libraries, bytecode)
<1>1. /\ pc = "link" /\ chain' = chain /\ Read(bytecode) /\ address \in Addresses
      /\ args \in UserArgs \cup {noArgs} /\ Matched(contractFQN, args, bytecode)
  <2>1. pc = "link" /\ chain' = chain
        BY Zenon DEF GetLibraryInformation
  <2> QED BY <2>1 DEF SInv, TaskOK
<1>2. \/ EndsTask
      \/ Ok(linked) /\ libraries' = linked.value /\ pc' = "encode" /\ UNCHANGED <<address, args, contractFQN>>
  <2>1. \/ end(linked.error)
        \/ Ok(linked) /\ libraries' = linked.value /\ pc' = "encode" /\ UNCHANGED <<address, args, contractFQN>>
        BY Zenon DEF GetLibraryInformation, Ok
  <2> HIDE DEF linked
  <2> QED BY <2>1, EndEnds
<1>3. ASSUME Ok(linked) PROVE Linked(contractFQN, args.libraries, bytecode, linked.value)
  <2>1. contractFQN \in DOMAIN artifacts
        BY <1>1 DEF Matched
  <2>2. \A i \in DOMAIN args.libraries : i \in Nat \ {0} /\ args.libraries[i].name \in STRING \X STRING
        BY <1>1, GivenLibraries
  <2> QED BY <1>3, <2>1, <2>2, LibrariesLinked
<1> HIDE DEF linked
<1>4. CASE EndsTask
      BY <1>4, IdleIsSound
<1>5. CASE Ok(linked) /\ libraries' = linked.value /\ pc' = "encode" /\ UNCHANGED <<address, args, contractFQN>>
  <2>1. bytecode' = bytecode
        BY <1>1, <1>5 DEF bytecode
  <2> QED BY <1>1, <1>3, <1>5, <2>1 DEF TaskOK
<1> QED BY <1>2, <1>4, <1>5

\* The task goes on with what it has found.
GoesOn ==
    /\ UNCHANGED <<address, args, contractFQN, libraries>>
    /\ \/ pc' \in {pc, "getCode"}
       \/ pc \in {"encode", "submit", "poll"} /\ pc' \in {"submit", "poll"}

\* Every other step of the task ends it, or goes on.
LEMMA OtherSteps ==
    ASSUME IsVerified \/ PrepareAttempt \/ Submit \/ Poll
           \/ SubmissionRefused \/ SubmissionUnanswered \/ PollFails \/ RequestFails
    PROVE  /\ UNCHANGED <<todo, chain>>
           /\ pc # "idle"
           /\ EndsTask \/ GoesOn
           /\ \/ UNCHANGED submissions
              \/ pc = "submit" /\ arrives
<1>1. CASE IsVerified
  <2>1. /\ UNCHANGED <<todo, chain, submissions>> /\ pc # "idle"
        /\ \/ \E o : end(o)
           \/ pc' = "getCode" /\ UNCHANGED <<address, args, contractFQN, libraries>>
        BY <1>1, Zenon DEF IsVerified, scriptVars, explorerVars
  <2> QED BY <2>1, EndEnds DEF GoesOn
<1>2. CASE PrepareAttempt
  <2>1. /\ UNCHANGED <<todo, chain, submissions>> /\ pc = "encode"
        /\ \/ \E o : end(o)
           \/ pc' = "submit" /\ UNCHANGED <<address, args, contractFQN, libraries>>
        BY <1>2, Zenon DEF PrepareAttempt, scriptVars, explorerVars
  <2> QED BY <2>1, EndEnds DEF GoesOn
<1>3. CASE Submit
  <2>1. /\ UNCHANGED <<todo, chain>> /\ pc = "submit"
        /\ \/ \E o : end(o) /\ UNCHANGED submissions
           \/ arrives /\ pc' = "poll" /\ UNCHANGED <<address, args, contractFQN, libraries>>
        BY <1>3, Zenon DEF Submit, scriptVars
  <2> QED BY <2>1, EndEnds DEF GoesOn
<1>4. CASE Poll
  <2>1. UNCHANGED <<todo, chain, submissions>> /\ pc = "poll" /\ getVerificationStatus
        BY <1>4, Zenon DEF Poll, scriptVars, explorerVars
  <2>2. \/ \E o : end(o)
        \/ pc' = pc /\ UNCHANGED <<address, args, contractFQN, libraries>>
        \/ pc' = "submit" /\ UNCHANGED <<address, args, contractFQN, libraries>>
        BY <2>1, Zenon DEF getVerificationStatus, afterFailure, taskVars
  <2> QED BY <2>1, <2>2, EndEnds DEF GoesOn
<1>5. CASE SubmissionRefused \/ PollFails \/ RequestFails
  <2>1. UNCHANGED <<todo, chain, submissions>> /\ pc # "idle" /\ \E o : end(o)
        BY <1>5, Zenon DEF SubmissionRefused, PollFails, RequestFails, scriptVars, explorerVars
  <2> QED BY <2>1, EndEnds
<1>6. CASE SubmissionUnanswered
  <2>1. UNCHANGED <<todo, chain>> /\ pc = "submit" /\ (\E o : end(o)) /\ (arrives \/ UNCHANGED submissions)
        BY <1>6, Zenon DEF SubmissionUnanswered, scriptVars
  <2> QED BY <2>1, EndEnds
<1> QED BY <1>1, <1>2, <1>3, <1>4, <1>5, <1>6

\* What arrives was prepared by the task.
LEMMA ArrivalIsSound ==
    ASSUME Histories, SInv, pc = "submit", arrives, chain' = chain
    PROVE  SentOK'
<1> DEFINE s == [address |-> address, contract |-> contractFQN, libraries |-> libraries, given |-> args,
                 input |-> input, task |-> Len(results) + 1, status |-> "queued"]
<1>1. Prepared(s, chain[address])
      BY DEF SInv, TaskOK, Prepared, bytecode
<1>2. s.address = address
      OBVIOUS
<1>3. submissions' = Append(submissions, s)
      BY DEF arrives
<1> HIDE DEF s
<1>4. PICK S : submissions \in Seq(S)
      BY DEF Histories
<1>5. /\ DOMAIN submissions = 1..Len(submissions) /\ Len(submissions) \in Nat
      /\ DOMAIN submissions' = 1..(Len(submissions) + 1)
      /\ \A j \in DOMAIN submissions : submissions'[j] = submissions[j]
      /\ submissions'[Len(submissions) + 1] = s
      BY <1>3, <1>4, AppendFacts
<1>6. ASSUME NEW j \in DOMAIN submissions' PROVE Prepared(submissions'[j], chain[submissions'[j].address])
  <2>1. CASE j \in DOMAIN submissions
        BY <1>5, <2>1 DEF SInv, SentOK
  <2>2. CASE j = Len(submissions) + 1
        BY <1>1, <1>2, <1>5, <2>2
  <2> QED BY <1>5, <2>1, <2>2
<1> QED BY <1>6 DEF SentOK

\* The explorer's decision changes what became of a submission, not what it says.
LEMMA DecisionIsSound ==
    ASSUME Histories, SInv, ExplorerDecides
    PROVE  SInv'
<1>1. UNCHANGED <<todo, chain, pc, address, args, contractFQN, libraries>>
      BY Zenon DEF ExplorerDecides, taskVars, scriptVars
<1>2. PICK i, status : i \in DOMAIN submissions /\ submissions' = [submissions EXCEPT ![i].status = status]
      BY Zenon DEF ExplorerDecides
<1>3. /\ DOMAIN submissions' = DOMAIN submissions
      /\ \A j \in DOMAIN submissions : j # i => submissions'[j] = submissions[j]
      /\ submissions'[i] = [submissions[i] EXCEPT !.status = status]
      BY <1>2 DEF Histories
<1>4. ASSUME NEW j \in DOMAIN submissions
      PROVE  /\ submissions'[j].address = submissions[j].address
             /\ submissions'[j].contract = submissions[j].contract
             /\ submissions'[j].given = submissions[j].given
             /\ submissions'[j].libraries = submissions[j].libraries
  <2>1. isSubmission(submissions[i])
        BY <1>2 DEF Histories
  <2>2. CASE j = i
        BY <1>3, <2>1, <2>2 DEF isSubmission
  <2> QED BY <1>3, <2>2
<1>5. SentOK'
      BY <1>1, <1>3, <1>4 DEF SInv, SentOK, Prepared
<1> QED BY <1>1, <1>5 DEF SInv, ChainOK, TaskOK, bytecode

\* What is on chain, what the task has found out and what it has sent agree, always.
THEOREM SendingInvariant == Spec => []SInv
<1>1. Init => SInv
  <2> SUFFICES ASSUME Init PROVE SInv
      OBVIOUS
  <2>1. pc = "idle" /\ args = noArgs /\ todo = <<>> /\ submissions = <<>> /\ chain = [a \in Addresses |-> unread]
        BY Zenon DEF Init
  <2>2. ChainOK
        BY <2>1 DEF ChainOK
  <2>3. SentOK
        BY <2>1 DEF SentOK
  <2>4. TaskOK
        BY <2>1, Zenon DEF TaskOK
  <2>5. todo \in Seq(Addresses)
        BY <2>1
  <2> QED BY <2>2, <2>3, <2>4, <2>5 DEF SInv
<1>2. IInv /\ SInv /\ [Next]_vars => SInv'
  <2> SUFFICES ASSUME IInv, SInv, [Next]_vars PROVE SInv'
      OBVIOUS
  <2>1. Histories
        BY Zenon DEF IInv
  <2>2. CASE StartTask \/ StartScript \/ ScriptVerifies \/ ScriptFails \/ ScriptEnds
        BY <2>2, StartIsSound
  <2>3. CASE GetDeployedContractBytecode
        BY <2>3, ReadingIsSound
  <2>4. CASE GetContractInformation \/ GetLibraryInformation
    <3>1. UNCHANGED <<chain, todo, submissions>>
          BY <2>4, Zenon DEF GetContractInformation, GetLibraryInformation, scriptVars, explorerVars
    <3>2. TaskOK'
          BY <2>4, LookupIsSound, LinkingIsSound
    <3> QED BY <3>1, <3>2, SentStays DEF SInv, ChainOK
  <2>5. CASE IsVerified \/ PrepareAttempt \/ Submit \/ Poll
             \/ SubmissionRefused \/ SubmissionUnanswered \/ PollFails \/ RequestFails
    <3>1. /\ UNCHANGED <<todo, chain>> /\ pc # "idle"
          /\ EndsTask \/ GoesOn
          /\ (UNCHANGED submissions) \/ (pc = "submit" /\ arrives)
          BY <2>5, OtherSteps
    <3>2. SentOK'
          BY <2>1, <3>1, SentStays, ArrivalIsSound DEF SInv
    <3>3. TaskOK'
      <4>1. CASE EndsTask
            BY <4>1, IdleIsSound
      <4>2. CASE GoesOn
            BY <3>1, <4>2 DEF SInv, TaskOK, GoesOn, bytecode
      <4> QED BY <3>1, <4>1, <4>2
    <3> QED BY <3>1, <3>2, <3>3 DEF SInv, ChainOK
  <2>6. CASE ExplorerDecides
        BY <2>1, <2>6, DecisionIsSound
  <2>7. CASE UNCHANGED vars
    <3>1. UNCHANGED <<todo, chain, pc, address, args, contractFQN, libraries, submissions>>
          BY <2>7, Zenon DEF vars, taskVars, scriptVars, explorerVars
    <3> QED BY <3>1 DEF SInv, ChainOK, SentOK, TaskOK, bytecode
  <2> QED BY <2>2, <2>3, <2>4, <2>5, <2>6, <2>7, Zenon DEF Next, Proceeds, Fails
<1> QED BY <1>1, <1>2, ReportsInvariant, PTL DEF Spec

\* What the explorer is sent is what is deployed: the artifact the code on chain is an instance of,
\* linked to the libraries in it.
THEOREM SentIsDeployed == Spec => []SentAsDeployed
<1>1. SInv => SentAsDeployed
  <2> SUFFICES ASSUME SInv PROVE SentAsDeployed
      OBVIOUS
  <2>1. \A j \in DOMAIN submissions : Prepared(submissions[j], chain[submissions[j].address])
        BY DEF SInv, SentOK
  <2>2. MatchIsGenuine
        BY <2>1 DEF MatchIsGenuine, Prepared, Matched
  <2>3. ASSUME NEW j \in DOMAIN submissions
        PROVE  /\ LinkedAsOnChain(submissions[j])
               /\ \A lib \in DOMAIN submissions[j].libraries
                        \ DOMAIN artifacts[submissions[j].contract].output.linkReferences :
                     \E i \in DOMAIN submissions[j].given.libraries :
                        /\ {k \in DOMAIN submissions[j].given.libraries :
                               submissions[j].given.libraries[k].name \in namesOf(lib)} = {i}
                        /\ submissions[j].libraries[lib] = submissions[j].given.libraries[i].address
        BY <2>1 DEF Prepared, Linked, LinkedAsOnChain
  <2>4. LinkedAsDeployed
        BY <2>3, Zenon DEF LinkedAsDeployed, namesOf, NoSource
  <2> QED BY <2>2, <2>4 DEF SentAsDeployed
<1> QED BY <1>1, SendingInvariant, PTL

\* What a task that ends says.
LEMMA EndSays ==
    ASSUME Histories, NEW STATE addr, NEW STATE outcome, endFor(addr, outcome), LookupFails
    PROVE  outcome = Mismatch
<1>1. results' = Append(results, <<addr, outcome>>)
      BY Zenon DEF endFor
<1>2. PICK R : results \in Seq(R)
      BY DEF Histories
<1>3. PICK e : e = <<addr, outcome>>
      OBVIOUS
<1>4. Len(results') = Len(results) + 1 /\ results'[Len(results) + 1] = e
      BY <1>1, <1>2, <1>3, AppendFacts
<1>5. Last(results') = e
      BY <1>4 DEF Last
<1> QED BY <1>3, <1>5 DEF LookupFails, Mismatch

\* And it says nothing of the kind with another error.
LEMMA OtherEnd ==
    ASSUME Histories, NEW STATE addr, NEW STATE outcome, endFor(addr, outcome),
           outcome # Mismatch
    PROVE  ~LookupFails
BY EndSays

\* As long as no task ends, nothing is said.
LEMMA NothingSaid ==
    ASSUME Histories, results' = results
    PROVE  ~LookupFails
<1>1. PICK R : results \in Seq(R)
      BY DEF Histories
<1>2. Len(results) \in Nat
      BY <1>1
<1> QED BY <1>2 DEF LookupFails

\* Only the lookup of the contract says that no artifact matches.
LEMMA OnlyLookupFails ==
    ASSUME Histories, [Next]_vars, ~GetContractInformation
    PROVE  ~LookupFails
<1>1. CASE \E addr, o : endFor(addr, o) /\ o # Mismatch
  <2>1. PICK addr, o : endFor(addr, o) /\ o # Mismatch
        BY <1>1
  <2> QED BY <2>1, OtherEnd
<1>2. CASE results' = results
      BY <1>2, NothingSaid
<1>3. ASSUME NEW STATE addr, NEW STATE given, beginFor(addr, given)
      PROVE  (\E a, o : endFor(a, o) /\ o # Mismatch) \/ results' = results
  <2>1. PICK error : error = connectionError(network)
        OBVIOUS
  <2>2. endFor(addr, error) \/ results' = results
        BY <1>3, <2>1, Zenon DEF beginFor
  <2>3. error # Mismatch
        BY <2>1, SetupErrors DEF OtherError, Mismatch
  <2> QED BY <2>2, <2>3
<1>4. CASE StartTask
  <2>1. \/ \E a : \E error \in taskErrors \cup subtaskErrors : endFor(a, error)
        \/ \E addr, given : beginFor(addr, given)
        BY <1>4, Zenon DEF StartTask
  <2>2. \A error \in taskErrors \cup subtaskErrors : error # Mismatch
        BY ArgumentChecks DEF OtherError, Mismatch
  <2> QED BY <1>1, <1>2, <1>3, <2>1, <2>2
<1>5. CASE ScriptVerifies
  <2>1. \E addr, given : beginFor(addr, given)
        BY <1>5, Zenon DEF ScriptVerifies
  <2> QED BY <1>1, <1>2, <1>3, <2>1
<1>6. CASE StartScript \/ ScriptFails \/ ScriptEnds \/ ExplorerDecides \/ UNCHANGED vars
  <2>1. results' = results
        BY <1>6, Zenon DEF StartScript, ScriptFails, ScriptEnds, ExplorerDecides, vars
  <2> QED BY <1>2, <2>1
<1>7. CASE IsVerified \/ Submit \/ Poll \/ SubmissionRefused \/ SubmissionUnanswered \/ PollFails \/ RequestFails
  <2>1. \/ \E o \in {"alreadyVerified", "HardhatVerifyError", "verified", "ContractVerificationFailedError",
                      "ContractStatusPollingResponseNotOkError", "ContractVerificationMissingBytecodeError",
                      "ContractVerificationRequestError", "ContractVerificationInvalidStatusCodeError", "Error",
                      "VerificationAPIUnexpectedMessageError"} \cup PollingErrors : endFor(address, o)
        \/ results' = results
        BY <1>7, Zenon DEF IsVerified, Submit, Poll, SubmissionRefused, SubmissionUnanswered, PollFails, RequestFails,
                           getVerificationStatus, afterFailure, end
  <2> QED BY <1>1, <1>2, <2>1 DEF Mismatch, PollingErrors
<1>8. CASE PrepareAttempt
  <2>1. \/ \E o \in {"UnexpectedNumberOfFilesError", "ABIArgumentLengthError", "ABIArgumentTypeError",
                      "ABIArgumentOverflowError", "Error"} : endFor(address, o)
        \/ results' = results
        BY <1>8 DEF PrepareAttempt, end, encodingError
  <2> QED BY <1>1, <1>2, <2>1 DEF Mismatch
<1>9. CASE GetDeployedContractBytecode
  <2>1. \/ \E o \in {getCompilerVersions.error, "DeployedBytecodeNotFoundError", "Error",
                      "CompilerVersionsMismatchError"} : endFor(address, o)
        \/ results' = results
        BY <1>9, Zenon DEF GetDeployedContractBytecode, end
  <2>2. getCompilerVersions.error # Mismatch
        BY SetupErrors DEF OtherError, Mismatch
  <2> QED BY <1>1, <1>2, <2>1, <2>2 DEF Mismatch
<1>10. CASE GetLibraryInformation
  <2>1. \/ endFor(address, getLibraryInformation(contractFQN, args.libraries, bytecode).error)
        \/ results' = results
        BY <1>10, Zenon DEF GetLibraryInformation, end
  <2>2. getLibraryInformation(contractFQN, args.libraries, bytecode).error # Mismatch
        BY LinkingErrors DEF OtherError, Mismatch
  <2> QED BY <1>1, <1>2, <2>1, <2>2
<1> QED BY <1>4, <1>5, <1>6, <1>7, <1>8, <1>9, <1>10, Zenon DEF Next, Proceeds, Fails

\* "The deployed bytecode doesn't match" is never said of code that is an instance of an artifact the
\* task may take: what nullifyBytecodeOffsets leaves to compare is what both have in common.
THEOREM GenuineAlwaysFound == Spec => GenuineIsFound
<1> DEFINE None ==
        \/ isOvm(bytecode)
        \/ Genuine(bytecode) \cap (IF args.contract = noName THEN DOMAIN artifacts ELSE {args.contract}) = {}
<1>1. IInv /\ SInv /\ [Next]_vars => [LookupFails => None]_vars
  <2> SUFFICES ASSUME IInv, SInv, [Next]_vars, LookupFails PROVE None
      OBVIOUS
  <2>1. Histories
        BY Zenon DEF IInv
  <2>2. GetContractInformation
        BY <2>1, OnlyLookupFails
  <2> DEFINE versions == getMatchingVersions(bytecode, compilerVersions)
             found == IF args.contract # noName THEN namedContract(args.contract)
                      ELSE extractInferredContractInformation(versions, bytecode)
  <2>3. Read(bytecode)
    <3>1. pc = "lookup"
          BY <2>2, Zenon DEF GetContractInformation
    <3> QED BY <3>1 DEF SInv, TaskOK
  <2>4. found.error = Mismatch
    <3>1. endFor(address, found.error) \/ results' = results
          BY <2>2, Zenon DEF GetContractInformation, end
    <3> HIDE DEF found
    <3> QED BY <2>1, <3>1, EndSays, NothingSaid
  <2>5. CASE args.contract # noName
    <3>1. PICK name : name = args.contract
          OBVIOUS
    <3>2. namedContract(name).error = Mismatch
          BY <2>4, <2>5, <3>1
    <3>3. isOvm(bytecode) \/ name \notin Genuine(bytecode)
          BY <2>3, <3>2, NamedMatches
    <3> QED BY <2>5, <3>1, <3>3
  <2>6. CASE args.contract = noName
    <3>1. found = extractInferredContractInformation(versions, bytecode)
          BY <2>6
    <3> HIDE DEF found
    <3>2. isOvm(bytecode) \/ Genuine(bytecode) = {}
          BY <2>3, <2>4, <3>1, InferredMatches
    <3> QED BY <2>6, <3>2
  <2> QED BY <2>5, <2>6
<1> QED BY <1>1, ReportsInvariant, SendingInvariant, PTL DEF Spec, GenuineIsFound, None
=============================================================================
