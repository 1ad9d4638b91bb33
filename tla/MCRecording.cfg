SPECIFICATION Spec
CONSTANTS
    MaxSequence = 4
    EventCapacity = 2
    Limit = 2
INVARIANTS
    RecordsFaithful
    SuccessIsComplete
    LossIsShown
    LatestFaithful
CHECK_DEADLOCK FALSE
