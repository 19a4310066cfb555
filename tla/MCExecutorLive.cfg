SPECIFICATION FairSpec
CONSTANTS
    None = None
    alice = alice  bob = bob  wiki = wiki  vault = vault
    Plans = {p1}
    Actions = {0}
    Identities = {alice, bob}
    Rights = {wiki}
    RightOf <- OneRight
    SubjectOf <- AboutAlice
    Keyed = {0}
    InitialGrants <- AliceOnly
    Deliveries = {d1, d2, d3}
    Rollbacks = {}
    Events = {"s3", "provider", "audit", "expiry", "admin"}
    MaxFaults = 1
INVARIANTS
    LeaseExclusive
PROPERTIES
    LockSettles
CHECK_DEADLOCK FALSE
