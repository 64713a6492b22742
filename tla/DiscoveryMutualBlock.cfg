SPECIFICATION FairSpec
CONSTANTS
    Name = {"a", "b"}
    Pod <- OnePodEach
    NameOf <- NameOfPod
    Rank <- AlphabetRank
    Mounts <- FullMesh
    Unreadable = {}
    Unnamed = {}
    Config = Config
    None = None
    MaxRetries = 2
    MaxGlitches = 0
    MaxCuts = 0
    MaxRestarts = 1
INVARIANTS
    NoMutualBlock
CHECK_DEADLOCK FALSE
