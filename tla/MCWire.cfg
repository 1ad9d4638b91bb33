SPECIFICATION Spec
CONSTANTS
    W_HEADER = 2
    W_MAX = 2
    Requests <- MCRequests
    Batches <- MCBatches
    MaxPackets = 3
    Limit = 1
    Turn = 1
    Refused = Refused
    Garbled = Garbled
INVARIANTS
    ParsedInOrder
    RoomLeft
    IncompleteExpires
CHECK_DEADLOCK FALSE
