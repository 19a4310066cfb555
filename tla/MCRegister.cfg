SPECIFICATION Spec
CONSTANTS
    Requests = {r1, r2}
    Servers = {"a", "mcp"}
    Durable = {"a"}
    Listings <- MCListings
    MaxWrites = 2
    MaxFaults = 1
    Findings <- MCFindings
    Target <- MCTarget
    ObserveOnly <- MCObserve
    HolderOrder <- MCOrder
    BootList <- MCBoot
    BootCaptured = TRUE
    MaxRestarts = 1
    MaxEntries <- MCEntries
    None = None
CONSTRAINT MCApart
SYMMETRY MCSymmetry
INVARIANTS
    TypeOK
    DecisionSurvives
    OnlyOvertakenVerifies
    OnlyOvertakenRevives
PROPERTIES
    RepeatIsHarmless
CHECK_DEADLOCK FALSE
