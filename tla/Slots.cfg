SPECIFICATION Spec
CONSTANTS
    Replicas = {q1, q2}
    Sessions = {s1, s2, s3}
    Limit = 1
    Timeouts = {3}
    MaxSessionSeconds = 2
    MaxTime = 2
    Nobody = Nobody
CHECK_DEADLOCK FALSE
SYMMETRY Symmetry
INVARIANTS
    TypeOK
    PendingExact
    WithinLimit
    SlotOutlivesSession
PROPERTIES
    LiveSlotKept
    RejectJustified
    ImplementsPool
