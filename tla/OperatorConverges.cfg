SPECIFICATION FairSpec
CONSTANTS
    Unit = {"a1", "b1", "u1"}
    Group = {"a", "b", "none"}
    GroupOf <- GroupByName
    NoGroup = "none"
    Version = {"v1"}
    None = None
    Deployed = {"a1", "u1"}
    MaxChanges = 1
    MaxFaults = 1
    MaxUnseen = 1
INVARIANTS
    TypeOK
    ChildrenConverge
    Isolation
PROPERTIES
    EventuallyInMesh
CHECK_DEADLOCK FALSE
