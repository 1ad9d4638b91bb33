SPECIFICATION FairSpec
CONSTANTS
    MaxConnections = 2
    MaxId = 4
    MaxRequest = 6
    MaxCount = 2
    MaxSequence = 1
    Payloads <- EveryPacket
INVARIANTS
    SameAnswer
PROPERTIES
    ImplementsDevice
    ScheduleEnds
CHECK_DEADLOCK FALSE
