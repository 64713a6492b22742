SPECIFICATION Spec
CONSTANTS
    Unit = {"a1"}
    Group = {"a", "b", "none"}
    GroupOf <- GroupByName
    NoGroup = "none"
    Version = {"v1", "v2"}
    None = None
    Deployed = {"a1"}
    MaxChanges = 1
    MaxFaults = 0
    MaxUnseen = 0
INVARIANTS
    SourceRedeploys
CHECK_DEADLOCK FALSE
