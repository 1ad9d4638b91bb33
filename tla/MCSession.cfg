SPECIFICATION Spec
CONSTANTS
    MaxConnections = 2
    MaxId = 4
    MaxRequest = 6
    MaxCount = 2
    EventDepth = 1
    Payloads <- EveryPacket
INVARIANTS
    SameAnswer
    EventsAccounted
PROPERTIES
    ImplementsDevice
CHECK_DEADLOCK FALSE
