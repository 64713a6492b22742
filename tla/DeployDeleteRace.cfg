SPECIFICATION FairSpec
CONSTANTS
    Req <- DeployAndDelete
    Arrivals <- OnlyDeployAndDelete
    Group = {"app", "job"}
    Unit = {"app-py"}
    Content = {"v1", "v2", "big"}
    Server = {"api-1", "api-2"}
    ReqKind <- KindOfReq
    ReqGroup <- GroupOfReq
    ReqServer <- ServerOfReq
    Mode <- ModeOfReq
    Legacy <- LegacyOfReq
    Planned <- PlannedOfReq
    Oversized = {"big"}
    PlannerEnabled = {}
    NoUnits = NoUnits
    None = None
    MaxFaults = 0
    MaxCrashes = 0
    MaxHeld = 0
INVARIANTS
    OutcomeIsSerial
CHECK_DEADLOCK FALSE
