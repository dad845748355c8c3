SPECIFICATION FairSpec
CONSTANTS
    Requests = {r1}
    Configs <- SmallConfigs
    Limit = 2
    Lengths <- SmallLengths
    Images = {listed, stray}
    DefaultImage = default
    AllowedImages = {listed}
    Memories <- SmallMemories
    Cpus <- SmallCpus
    Timeouts = {1, 3}
    MemoryCeiling = 65
    CpuCeiling = 0
    SessionCeiling = 2
    ExecCeiling = 2
    r1 = r1
    listed = listed
    stray = stray
    default = default
INVARIANTS
    TypeOK
    OnlyVettedCalls
    RefusalsHaveNoEffect
    ReadyMeansReached
PROPERTY EveryRequestAnswered
