SPECIFICATION FairSpec
CONSTANTS
    Networks = {"hardhat", "zkevmtestnet", "zkevm"}
    MaxRuns = 3
INVARIANTS DeploymentSound
PROPERTIES PartialWiringIsFinal FailureExplained FreshRunCompletes
CHECK_DEADLOCK FALSE
