SPECIFICATION Spec
CONSTANTS
    None = None
    Requests = {r1}
    Inputs <- EveryTier
    Clicks = {c1}
    HasWriter = TRUE
    Events = {}
    MaxFaults = 0
INVARIANTS
    EveryBranchAudited
CHECK_DEADLOCK FALSE
