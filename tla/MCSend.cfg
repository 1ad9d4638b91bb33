SPECIFICATION FairSpec
CONSTANTS
    Count = 2
    MaxConnections = 1
    MaxId = 4
    MaxCount = 2
INVARIANTS
    SuccessIsTrue
    IntentFirst
    RecordIsTrue
PROPERTIES
    EndsStopped
CHECK_DEADLOCK FALSE
