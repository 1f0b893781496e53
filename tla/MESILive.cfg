CONSTANTS
    L1Cache = {A, B}
    L2Cache = L2Cache
    Directory = Directory
    Memory = Memory
    Values = {u}
    None = None
    Platforms <- LivePlatforms
SPECIFICATION FairSpec
PROPERTIES RequestAnswered
