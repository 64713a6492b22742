SPECIFICATION FairSpec
CONSTANTS
    Req <- AllRequests
    Arrivals <- Workloads
    Group = {"app", "job"}
    Unit = {"app-node", "app-py", "app-node-p0", "job-py"}
    Content = {"v1", "v2", "big"}
    Server = {"api-1", "api-2"}
    ReqKind <- KindOfReq
    ReqGroup <- GroupOfReq
    ReqServer <- ServerOfReq
    Mode <- ModeOfReq
    Legacy <- LegacyOfReq
    Planned <- PlannedOfReq
    Oversized = {"big"}
    PlannerEnabled = {"api-1"}
    NoUnits = NoUnits
    None = None
    MaxFaults = 1
    MaxCrashes = 1
    MaxHeld = 1
INVARIANTS
    TypeOK
    FunctionHasSource
    AcceptedOnly
    SuccessIsExact
PROPERTIES
    OnlyDeleteEmpties
    EndpointsOutliveFunction
    EveryRequestEnds
CHECK_DEADLOCK FALSE
