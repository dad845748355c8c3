SPECIFICATION FairSpec
CONSTANTS
    Sessions = {s1, s2}
    LaneSize = 1
CHECK_DEADLOCK FALSE
INVARIANTS
    TypeOK
    RaisedLeavesNoPod
PROPERTIES
    ImplementsBackend
    EveryCreateEnds
    EveryScheduledPodSwept
