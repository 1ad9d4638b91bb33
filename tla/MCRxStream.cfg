SPECIFICATION StreamSpec
CONSTANTS
    RxDepth = 2
    Batch = 2
    MaxSequence = 4
    EventCapacity = 1
INVARIANTS
    Partition
    InOrder
    StatusSound
    GapsExplained
    NothingSkipped
PROPERTIES
    EveryFrameServed
