SPECIFICATION ExecFairSpec
CONSTANTS
    Cap = 2
    Sizes <- SmallSizes
    Directories = {0, 2, 3, 4}
    MaxEntries = 2
    Limits <- SmallLimits
    Chunks <- SmallChunks
    MaxSent = 4
    Timeouts = {1, 3}
    Ceilings = {0, 2}
    FileWait = 3
    OpenWait = 4
    MaxTime = 9
    Never = Never
CHECK_DEADLOCK FALSE
INVARIANTS
    TypeOK
    ExecIsTruthful
    ReadIsTruthful
    ListIsTruthful
    ExecTypeOK
    CommandStops
    ScratchRemoved
    CodeIsTheCommands
    NoPathHasReason
PROPERTIES
    BackstopIsLast
    EveryCallAnswered
