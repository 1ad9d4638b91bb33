SPECIFICATION FairSpec
CONSTANTS
    MaxId = 3
    EventCapacity = 1
    Buffered = 1
INVARIANTS
    SocketExclusive
    IdsInOrder
    LastInDoubt
PROPERTIES
    EndsOnceClosed
CHECK_DEADLOCK FALSE
