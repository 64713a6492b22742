SPECIFICATION FairSpec
CONSTANTS
    Version = {v1, v2}
    None = None
    MaxChanges = 2
    MaxErrors = 1
    MaxPods = 1
INVARIANTS
    TypeOK
    StatusConverges
PROPERTIES
    EventuallyReported
CHECK_DEADLOCK FALSE
