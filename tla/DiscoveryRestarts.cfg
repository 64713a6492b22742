SPECIFICATION Spec
CONSTANTS
    Name = {"a", "b"}
    Pod <- TwoPodsOfA
    NameOf <- NameOfPod
    Rank <- AlphabetRank
    Mounts <- AnyMesh
    Unreadable = {"a"}
    Unnamed <- UnnamedB
    Config = Config
    None = None
    MaxRetries = 2
    MaxGlitches = 1
    MaxCuts = 1
    MaxRestarts = 1
INVARIANTS
    TypeOK
    RetryBudget
    VerdictMatchesPeers
CHECK_DEADLOCK FALSE
