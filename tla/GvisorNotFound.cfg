SPECIFICATION Spec
CONSTANTS
    Sessions = {s1}
    ExecLane = 1
    CtlLane = 1
CHECK_DEADLOCK FALSE
INVARIANT NotFoundIsConfirmed
