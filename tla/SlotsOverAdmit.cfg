SPECIFICATION Spec
CONSTANTS
    Replicas = {q1}
    Sessions = {s1, s2}
    Limit = 1
    Timeouts = {2}
    MaxSessionSeconds = 2
    MaxTime = 1
    Nobody = Nobody
CHECK_DEADLOCK FALSE
INVARIANT LiveWithinLimit
