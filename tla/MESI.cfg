CONSTANTS
    L1Cache = {A, B, C}
    L2Cache = L2Cache
    Directory = Directory
    Memory = Memory
    Values = {u, v}
    None = None
    Platforms <- SafetyPlatforms
SPECIFICATION Spec
SYMMETRY Symmetry
INVARIANTS Coherent StateMeaning NoInvalidTransition
PROPERTIES LoadsInWindow AtomicUpdates
