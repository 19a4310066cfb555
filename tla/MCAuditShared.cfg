SPECIFICATION Spec
CONSTANTS
    None = None
    w1 = w1  w2 = w2  w3 = w3
    Writers = {w1, w2, w3}
    Script <- Crowd
    FirstPage <- OnePage
    Events = {"s3", "tamper"}
    MaxFaults = 2
INVARIANTS
    DamageConfined
    SealedBySuccessor
PROPERTIES
    NeverHeals
CHECK_DEADLOCK FALSE
