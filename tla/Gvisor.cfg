SPECIFICATION FairSpec
CONSTANTS
    Sessions = {s1, s2}
    ExecLane = 1
    CtlLane = 1
CHECK_DEADLOCK FALSE
INVARIANT TypeOK
PROPERTIES
    ImplementsBackend
    DeleteNotHeldUp
