SPECIFICATION Spec
CONSTANTS
    MaxConnections = 1
    MaxId = 3
    MaxRequest = 3
    MaxCount = 1
    EventDepth = 1
    Payloads <- Control
INVARIANTS
    InvalidDisablesStart
CHECK_DEADLOCK FALSE
