SPECIFICATION Spec
CONSTANTS
    Unit = {"a1", "a2"}
    Group = {"a", "b", "none"}
    GroupOf <- GroupByName
    NoGroup = "none"
    Version = {"v1"}
    None = None
    Deployed = {}
    MaxChanges = 2
    MaxFaults = 0
    MaxUnseen = 0
INVARIANTS
    EndpointsRedeploy
CHECK_DEADLOCK FALSE
