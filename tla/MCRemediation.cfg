SPECIFICATION Spec
CONSTANTS
    Holders = {"alice", "bob"}
    Places <- MCPlaces
    SignalsOf <- MCSignals
    TemplateOf <- MCTemplates
    DecadesOf <- MCDecades
    Weights <- MCWeights
    Listings <- MCListings
    HolderOrder <- MCHolderOrder
    HashOrder <- MCHashOrder
    Models = {"lite", "haiku"}
    Fallback = "lite"
    MaxDecisions = 3
    None = None
INVARIANTS
    TypeOK
    NeverWidens
    KeysAreItsOwn
    OrderDoesNotMatter
    AutomaticIsSafe
    WorseIsNotLower
PROPERTIES
    OneActionChanges
    RefusedAgainIsHarmless
CHECK_DEADLOCK FALSE
