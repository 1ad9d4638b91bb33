SPECIFICATION Spec
CONSTANTS
    MaxId = 2
    EventCapacity = 1
    Buffered = 1
INVARIANTS
    FailureReported
CHECK_DEADLOCK FALSE
