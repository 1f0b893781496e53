CONSTANTS
    L1Cache = {A, B}
    L2Cache = L2Cache
    Directory = Directory
    Memory = Memory
    Values = {u, v}
    None = None
    Platforms <- LLSCPlatforms
SPECIFICATION Spec
INVARIANTS MemoryUpToDate
