SPECIFICATION FairSpec
CONSTANTS
    Requests <- OneRequest
    MaxCount = 3
    Intervals <- MCIntervals
    MinInterval = 1
    LeaseMs = 2
    TxDeadlineMs = 1
    EventDepth = 1
    MaxLag = 1
INVARIANTS
    TypeOK
    OutcomeExact
    TransmitOnlyWithPermission
    OneVerdict
    EventAccounting
PROPERTIES
    SendWithinLease
    NoCatchUpBurst
    LeaseEnforced
    ScheduleEnds
    ImplementsContract
