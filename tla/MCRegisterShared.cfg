SPECIFICATION Spec
CONSTANTS
    Requests = {r1}
    Servers = {"a", "b"}
    Durable = {"a", "b"}
    Listings <- MCListings
    MaxWrites = 1
    MaxFaults = 0
    Findings <- MCFindings
    Target <- MCTarget
    ObserveOnly <- MCObserve
    HolderOrder <- MCOrder
    BootList <- MCBoot
    BootCaptured = TRUE
    MaxRestarts = 0
    MaxEntries <- MCEntries
    None = None
INVARIANTS
    DecisionSurvives
CHECK_DEADLOCK FALSE
