\* Two tasks, by users or by the script, with every kind of code and of user's arguments.
CONSTANTS
    AddressSize = 1
    PUSH20 <- PUSH
    Placeholder <- LinkHere
    OVM_FIND_OPCODES = 200
    OVM_REPLACE_OPCODES = 201
    SOLC = 7
    artifacts <- SomeArtifacts
    Networks <- SomeNetworks
    customChains <- SomeCustomChains
    apiKey <- SomeKeys
    compilerVersions = {819, 706}
    Scripted <- ScriptOfTwo
    Codes <- SomeCodes
    UserArgs <- SomeArgs
    MaxTasks = 2
SPECIFICATION FairSpec
INVARIANTS SuccessIsVerified FailureIsFinal NoUnrelatedSources SentAsDeployed
PROPERTIES GenuineIsFound TaskEnds
CHECK_DEADLOCK FALSE
