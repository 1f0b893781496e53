CONSTANTS
    dev1 = dev1
    dev2 = dev2
    exit1 = exit1
    exit2 = exit2
    now1 = now1
    stat1 = stat1
    Platforms <- MCPlatforms
    Locals = {dev1, dev2}
    Globals = {exit1, exit2, now1, stat1}
    Kind <- KindOfEvents
    RunLengths = {3}
    Horizon = 5
SPECIFICATION FairSpec
INVARIANTS LoopAsserts ScheduleAssert QuantumSkew GlobalOrder Alone QuantumRemovable
PROPERTIES SimulateEnds
