SPECIFICATION Spec
CONSTANTS
    None = None
    alice = alice  bob = bob  wiki = wiki  vault = vault
    Plans = {p1}
    Actions = {0, 1}
    Identities = {alice, bob}
    Rights = {wiki, vault}
    RightOf <- TwoRights
    SubjectOf <- AboutBoth
    Keyed = {0, 1}
    InitialGrants <- AliceBob
    Deliveries = {d1, d2, d3}
    Rollbacks = {}
    Events = {"dynamo", "s3", "provider", "audit"}
    MaxFaults = 1
SYMMETRY Interchangeable
INVARIANTS
    NeverNeither
    AuditTellsTheTruth
CHECK_DEADLOCK FALSE
