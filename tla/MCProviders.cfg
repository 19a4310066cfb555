SPECIFICATION Spec
CONSTANTS
    Places <- MCPlaces
    Kind <- MCKind
    Grants <- MCGrants
    Initially <- MCInitially
    MaxRetries = 1
    Budgets <- MCBudgets
    Absent = "nothing"
    Empty = "empty"
    None = None
    Orgs = {"one", "two"}
    Membership <- MCMembership
    Team <- MCTeam
    RepositoryLists <- MCLists
    SystemOrder <- MCSystems
    Row <- MCRow
    BatchSize = 2
    MaxAttempts = 2
INVARIANTS
    TypeOK
    RestoredIsExact
    AppliedIsComplete
    GrantsWerePreviewed
    FreshIsStored
PROPERTIES
    SuccessIsTrue
    EveryCallEnds
    RunIsRecorded
CHECK_DEADLOCK FALSE
