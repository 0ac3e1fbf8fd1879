----------------------------- MODULE Artifacts -----------------------------
(* solc/artifacts.ts: which artifact the code on chain belongs to, and the *)
(* addresses of the libraries it is linked with.  An artifact is a record  *)
(*   output           the compiler's deployed code and its references      *)
(*   linkReferences   the libraries of its creation code                   *)
(*   buildInfo        is there a build-info for it                         *)
(*   solcVersion      the compiler of that build-info                      *)
(* A library's fully qualified name is a pair of source and name.          *)
EXTENDS Bytecode, Functions

CONSTANT artifacts  \* fully qualified name -> artifact

noName == <<"", "">>

\* What the compiler guarantees of an artifact: the addresses to be linked and the immutables
\* lie in the executable section, so does the address at the beginning of a library, and the
\* deployed code refers to libraries of the creation code only.
wellFormed(artifact) ==
    LET output == artifact.output
        section == inferExecutableSection(output.object)
    IN  /\ output.object \in Seq(Nat \cup {Placeholder})
        /\ IsFiniteSet(DOMAIN artifact.linkReferences)
        /\ DOMAIN artifact.linkReferences \subseteq STRING \X STRING
        /\ DOMAIN output.linkReferences \subseteq DOMAIN artifact.linkReferences
        /\ \A lib \in DOMAIN output.linkReferences : output.linkReferences[lib] # {}
        /\ IsFiniteSet(getLibraryOffsets(output.linkReferences) \cup output.immutableReferences)
        /\ \A o \in getLibraryOffsets(output.linkReferences) \cup output.immutableReferences :
              o.start \in Nat /\ o.length \in Nat /\ o.start + o.length <= Len(section)
        /\ sliceTo(output.object, AddressSize + 1) = <<PUSH20>> \o [i \in 1..AddressSize |-> 0] =>
              Len(section) > AddressSize

ASSUME ArtifactsAssumption ==
    IsFiniteSet(DOMAIN artifacts) /\ \A fqName \in DOMAIN artifacts : wellFormed(artifacts[fqName])

extractMatchingContractInformation(contractFQN, bytecode) == compare(bytecode, artifacts[contractFQN].output)

lookupMatchingBytecode(matchingCompilerVersions, bytecode) ==
    {fqName \in DOMAIN artifacts :
        /\ artifacts[fqName].buildInfo
        /\ artifacts[fqName].solcVersion \in matchingCompilerVersions \/ isOvm(bytecode)
        /\ extractMatchingContractInformation(fqName, bytecode)}

\* The result of a function that may throw.
result(value) == [error |-> "", value |-> value]
throws(error) == [error |-> error, value |-> <<>>]

extractInferredContractInformation(matchingCompilerVersions, bytecode) ==
    LET contractMatches == lookupMatchingBytecode(matchingCompilerVersions, bytecode)
    IN  IF contractMatches = {} THEN throws("DeployedBytecodeMismatchError")
        ELSE IF Cardinality(contractMatches) > 1 THEN throws("DeployedBytecodeMultipleMatchesError")
        ELSE result(CHOOSE fqName \in contractMatches : TRUE)

-----------------------------------------------------------------------------
(* Libraries.  The user names a library by its fully qualified name or by  *)
(* its name alone (the source left empty), and writes its address in lower *)
(* or mixed case, without the 0x, or not as an address at all.             *)

isAddress(address) == address.form # "none"
toLowerCase(address) == IF address.form = "mixed" THEN [address EXCEPT !.form = "lower"] ELSE address

lookupLibrary(allLibraries, userLibraryName) ==
    LET matchingLibraries ==
            {lib \in allLibraries : lib[2] = userLibraryName[2] /\ userLibraryName[1] \in {"", lib[1]}}
    IN  IF matchingLibraries = {} THEN throws("LibraryNotFoundError")
        ELSE IF Cardinality(matchingLibraries) > 1 THEN throws("LibraryMultipleMatchesError")
        ELSE result(CHOOSE lib \in matchingLibraries : TRUE)

\* The error of the i-th of the user's entries, those before it having passed.
entryError(allLibraries, userLibraries, i) ==
    LET found(k) == lookupLibrary(allLibraries, userLibraries[k].name)
    IN  IF ~isAddress(userLibraries[i].address) THEN "InvalidLibraryAddressError"
        ELSE IF found(i).error # "" THEN found(i).error
        ELSE IF \E k \in 1..(i - 1) : found(k) = found(i) THEN "DuplicatedLibraryError"
        ELSE ""

normalizeLibraries(allLibraries, userLibraries) ==
    LET wrong == {i \in DOMAIN userLibraries : entryError(allLibraries, userLibraries, i) # ""}
        found == [i \in DOMAIN userLibraries |-> lookupLibrary(allLibraries, userLibraries[i].name).value]
    IN  IF wrong # {} THEN throws(entryError(allLibraries, userLibraries, Min(wrong)))
        ELSE result([lib \in Range(found) |-> userLibraries[CHOOSE i \in DOMAIN found : found[i] = lib].address])

\* The address a library is linked with, as it stands at the library's first reference.
getLibraryAddressesFromBytecode(linkReferences, bytecode) ==
    [lib \in DOMAIN linkReferences |->
        LET first == CHOOSE o \in linkReferences[lib] : \A p \in linkReferences[lib] : o.start <= p.start
        IN  [bytes |-> SubSeq(bytecode, first.start + 1, first.start + first.length), form |-> "lower"]]

mergeLibraries(normalizedLibraries, detectedLibraries) ==
    IF \E lib \in DOMAIN normalizedLibraries \cap DOMAIN detectedLibraries :
            toLowerCase(normalizedLibraries[lib]) # detectedLibraries[lib]
    THEN throws("LibraryAddressesMismatchError")
    ELSE result([lib \in DOMAIN normalizedLibraries \cup DOMAIN detectedLibraries |->
                    IF lib \in DOMAIN detectedLibraries THEN detectedLibraries[lib] ELSE normalizedLibraries[lib]])

getLibraryInformation(contractFQN, userLibraries, bytecode) ==
    LET allLibraries == DOMAIN artifacts[contractFQN].linkReferences
        detectable == artifacts[contractFQN].output.linkReferences
        normalized == normalizeLibraries(allLibraries, userLibraries)
        merged == mergeLibraries(normalized.value, getLibraryAddressesFromBytecode(detectable, bytecode))
    IN  IF normalized.error # "" THEN normalized
        ELSE IF merged.error # "" THEN merged
        ELSE IF Cardinality(DOMAIN merged.value) < Cardinality(allLibraries) THEN throws("MissingLibrariesError")
        ELSE merged

=============================================================================
