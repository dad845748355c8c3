SPECIFICATION FairSpec
CONSTANTS
    Replicas = {q1}
    Sessions = {s1, s2, s3}
    Limit = 1
    Timeouts = {1}
    MaxSessionSeconds = 2
    MaxTime = 0
    Nobody = Nobody
CHECK_DEADLOCK FALSE
PROPERTY EveryCreateAnswered
