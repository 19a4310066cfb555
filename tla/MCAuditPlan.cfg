SPECIFICATION Spec
CONSTANTS
    None = None
    w1 = w1  w2 = w2  w3 = w3
    Writers = {w1}
    Script <- PlanThenRollback
    FirstPage <- OnePage
    Events = {"s3"}
    MaxFaults = 5
INVARIANTS
    TypeOK
    ChainVerifies
PROPERTIES
    LogSpec
CHECK_DEADLOCK FALSE
