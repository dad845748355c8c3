SPECIFICATION FairSpec
CONSTANTS
    Sessions = {s1}
    LaneSize = 1
CHECK_DEADLOCK FALSE
PROPERTY EveryPodGoes
