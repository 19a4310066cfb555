SPECIFICATION FairSpec
CONSTANTS
    None = None
    Requests = {r1}
    Inputs <- EveryInput
    Clicks = {c1, c2, c3}
    HasWriter = TRUE
    Events = {"lambda", "audit", "callback"}
    MaxFaults = 2
INVARIANTS
    TypeOK
    AnswerWasRecorded
    ToldIsTaken
    SuccessIsRecorded
PROPERTIES
    EveryExecutionEnds
CHECK_DEADLOCK FALSE
