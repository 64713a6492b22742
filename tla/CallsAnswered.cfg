SPECIFICATION FairSpec
CONSTANTS
    Unit = {"a1", "a2", "b1"}
    Rank <- RankOf
    FnName = {"ask", "one", "tell", "two"}
    Group = {"a", "b", ""}
    GroupOf <- GroupByName
    NoGroup = ""
    Sources <- SourcesOf
    None = None
    Call <- Clients
    Via <- ViaOf
    Path <- PathOf
    CallGroup <- CallGroupOf
    CallName <- CallNameOf
    CallUnit <- CallUnitOf
    Async = {"tell"}
    Remote <- RemoteOf
    MaxChanges = 1
    MaxFailures = 1
    MaxStops = 1
INVARIANTS
    TypeOK
    StaysInGroup
PROPERTIES
    RoutesAreOfOneMoment
    RespondsOnce
    EveryCallIsAnswered
    LoopsComeFree
CHECK_DEADLOCK FALSE
