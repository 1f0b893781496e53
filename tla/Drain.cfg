CONSTANTS
    cpu = cpu
    cache = cache
    dev = dev
    proc1 = proc1
    proc2 = proc2
    Objects = {cpu, cache, dev}
    Late = {proc1}
    MaxWork = 2
    MaxFuel = 5
    MaxExits = 2
    MaxCalls = 5
SPECIFICATION FairSpec
INVARIANTS Quiescent CountsDraining FinishedIsAwaited AllResumed
PROPERTIES DrainEnds
