SPECIFICATION FairSpec
CONSTANTS
    Name = {"a", "b", "c"}
    Pod <- OnePodEach
    NameOf <- NameOfPod
    Rank <- AlphabetRank
    Mounts <- AnyMesh
    Unreadable = {}
    Unnamed = {}
    Config = Config
    None = None
    MaxRetries = 2
    MaxGlitches = 1
    MaxCuts = 1
    MaxRestarts = 0
INVARIANTS
    TurnTaking
    NoWaitCycle
PROPERTIES
    EventuallyDecides
CHECK_DEADLOCK FALSE
