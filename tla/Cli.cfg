SPECIFICATION FairSpec
CONSTANTS
    PipeSize = 2
    Payload <- SmallPayload
    MaxBytes = 2
    MaxWrites = 3
CHECK_DEADLOCK FALSE
INVARIANTS
    TypeOK
    OutputComplete
PROPERTY NoPipeDeadlock
