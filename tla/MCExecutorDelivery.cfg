SPECIFICATION Spec
CONSTANTS
    None = None
    alice = alice  bob = bob  wiki = wiki  vault = vault
    Plans = {p1}
    Actions = {0}
    Identities = {alice, bob}
    Rights = {wiki}
    RightOf <- OneRight
    SubjectOf <- AboutAlice
    Keyed = {0}
    InitialGrants <- AliceOnly
    Deliveries = {d1, d2, d3}
    Rollbacks = {r1}
    Events = {"dynamo", "s3", "provider", "audit", "crash", "admin"}
    MaxFaults = 3
SYMMETRY Interchangeable
INVARIANTS
    TypeOK
    AtMostOneApply
    Reversible
PROPERTIES
    OnlyReturnsWhatItTook
CHECK_DEADLOCK FALSE
